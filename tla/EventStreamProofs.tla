-------------------------- MODULE EventStreamProofs --------------------------
(***************************************************************************)
(* The bus, its bridge and the streams of the dashboard, for any number of *)
(* publishers and browsers, any programs, and channels and a history of    *)
(* any capacity, up to the columns of the pipeline page; then the          *)
(* remediation store they write, and in the last part the page's panel,    *)
(* which reads it when an event says so.                                   *)
(***************************************************************************)
EXTENDS EventStream, FiniteSetTheorems, WellFoundedInduction, TLAPS

Event == [id : Nat, by : Publishers \cup {""}, type : Types \cup {"", "overview.refresh"},
          stage : Stages \cup {""}, key : Keys \cup {""}]
Stream == [state : {"closed", "open", "stalled"}, queue : Seq(Event), seen : Seq(Event),
           connects : Nat]

StreamTyped ==
  /\ program \in [Publishers -> Seq(Step)]
  /\ outbox \in [Publishers -> [event : Event, at : {"idle", "appended", "sending"}]]
  /\ buffer \in Seq(Event) /\ seq \in Nat
  /\ bridge \in [state : {"starting", "subscribed", "closed"}, inbox : Seq(Event)]
  /\ stream \in [Browsers -> Stream]
  /\ lost \in [Browsers -> SUBSET Nat]

(* A publisher's event is its own, and it has one exactly while it is      *)
(* publishing.                                                             *)
OwnEvents ==
  \A p \in Publishers :
    /\ outbox[p].at = "idle" => outbox[p] = Idle
    /\ outbox[p].at # "idle" =>
         /\ outbox[p].event.by = p /\ outbox[p].event.id \in 1 .. seq
         /\ program[p] # <<>> /\ Head(program[p]).op = "publish"

(* A publisher that is about to send holds the bus's lock, and so keeps    *)
(* the bridge's channel open.                                              *)
SendersAreHeard == \A p \in Publishers : outbox[p].at = "sending" => bridge.state = "subscribed"

(* Of two events of one publisher the first comes before the second.       *)
Before(e, f) == e.id # 0 /\ f.id # 0 /\ e.by = f.by => e.id < f.id
InOrder(s) == \A i, j \in DOMAIN s : i < j => Before(s[i], s[j])
Precedes(s, t) == \A i \in DOMAIN s, j \in DOMAIN t : Before(s[i], t[j])
AllBefore(s, e) == \A i \in DOMAIN s : Before(s[i], e)
AllAfter(e, s) == \A i \in DOMAIN s : Before(e, s[i])
Numbered(s) == \A i \in DOMAIN s : s[i].id <= seq

(* What one browser was sent and will be sent, on the way from the bridge. *)
Orderly(queue, seen, inbox) ==
  /\ InOrder(queue) /\ InOrder(seen)
  /\ Precedes(seen, queue) /\ Precedes(seen, inbox) /\ Precedes(queue, inbox)
  /\ \A i \in DOMAIN seen : seen[i].id # 0

(* Nothing on the way is as new as what a publisher is publishing.         *)
Known(s) == Numbered(s) /\ \A p \in Publishers : AllBefore(s, outbox[p].event)

(* The way of an event: from the publisher into the bridge's channel, from *)
(* there into the channels of the browsers, and to the page.               *)
WayInOrder ==
  /\ InOrder(bridge.inbox) /\ Known(bridge.inbox)
  /\ \A b \in Browsers : /\ Orderly(stream[b].queue, stream[b].seen, bridge.inbox)
                         /\ Known(stream[b].queue) /\ Known(stream[b].seen)

(* The history is the last events, as many as it holds.                    *)
HistoryIsRecent ==
  /\ Len(buffer) = IF seq < History THEN seq ELSE History
  /\ \A i \in DOMAIN buffer : buffer[i].id = (seq - Len(buffer)) + i

QueuesBounded == \A b \in Browsers : Len(stream[b].queue) <= StreamQueue

(* A page that loads or has loaded has an open stream, and the bridge      *)
(* listens.                                                                *)
PageIsServed ==
  \A b \in Browsers :
    page[b].state # "none" /\ server = "serving" => Registered(b) /\ bridge.state = "subscribed"

(* What a page shows, or will show when the server's answer arrives.       *)
Page == [state : {"none", "asked", "answered", "loaded"}, answer : SUBSET Event, upTo : Nat,
         shown : SUBSET Event, meanwhile : SUBSET Nat]
PageTyped == page \in [Browsers -> Page]
HasAnswer == {"answered", "loaded"}
Shows(b) == IF page[b].state = "answered" THEN page[b].answer ELSE page[b].shown

(* A page has an event, or the event is on its way or lost, or it came     *)
(* while the page loaded, or the page has no handler for it.               *)
HasId(s, id) == \E i \in DOMAIN s : s[i].id = id
HasUnhandled(s, id) == \E i \in DOMAIN s : s[i].id = id /\ s[i].type \notin Handled
Got(b, id) ==
  \/ \E e \in Shows(b) : e.id = id
  \/ HasId(stream[b].queue, id) \/ HasId(bridge.inbox, id)
  \/ \E p \in Publishers : outbox[p].event.id = id
  \/ id \in lost[b] \/ id \in page[b].meanwhile \/ HasUnhandled(stream[b].seen, id)
Served(b) == page[b].state \in HasAnswer /\ server = "serving"
AllGot == \A b \in Browsers : Served(b) => \A id \in 1 .. seq : Got(b, id) \/ TooOld(b, id)

(* No publisher finds the channel it sends to closed.                      *)
NotCrashed == server # "crashed"

BInv == StreamTyped /\ OwnEvents /\ SendersAreHeard /\ HistoryIsRecent /\ NotCrashed
-----------------------------------------------------------------------------
(* What the step of a program that publishes says.                         *)
LEMMA PublishStep ==
  ASSUME NEW step \in Step, step.op = "publish"
  PROVE  step.type \in Types /\ step.stage \in Stages /\ step.key \in Keys \cup {""}
BY DEF Step

(* A heartbeat looks like an event, with no number.                        *)
LEMMA NoEventTyped == NoEvent \in Event
BY DEF NoEvent, Event

(* Writing a connection's channel leaves the rest of the connection as it  *)
(* is.                                                                     *)
LEMMA QueueSet ==
  ASSUME NEW st \in Stream, NEW q \in Seq(Event)
  PROVE  /\ [st EXCEPT !.queue = q] \in Stream
         /\ [st EXCEPT !.queue = q].state = st.state
         /\ [st EXCEPT !.queue = q].seen = st.seen
         /\ [st EXCEPT !.queue = q].queue = q
BY DEF Stream

(* The other changes of a handler.                                         *)
LEMMA StreamSet ==
  ASSUME NEW st \in Stream, NEW n \in Nat, NEW q \in Seq(Event), NEW t \in Seq(Event)
  PROVE  /\ [st EXCEPT !.connects = n] \in Stream
         /\ [st EXCEPT !.connects = n].state = st.state
         /\ [st EXCEPT !.connects = n].queue = st.queue
         /\ [st EXCEPT !.connects = n].seen = st.seen
         /\ [st EXCEPT !.state = "stalled"] \in Stream
         /\ [st EXCEPT !.state = "stalled"].queue = st.queue
         /\ [st EXCEPT !.state = "stalled"].seen = st.seen
         /\ [state |-> "open", queue |-> q, seen |-> t, connects |-> n] \in Stream
BY DEF Stream

(* A connection that is not there has an empty channel.                    *)
LEMMA ClosedTyped == Closed \in Stream /\ <<>> \in Seq(Event)
BY DEF Stream, Closed

(* Broadcast to one browser: its channel gets the event, or is full.       *)
LEMMA BroadcastTyped ==
  ASSUME StreamTyped, NEW e \in Event, Broadcast(e)
  PROVE  /\ stream' \in [Browsers -> Stream]
         /\ lost' \in [Browsers -> SUBSET Nat]
         /\ \A b \in Browsers :
              /\ stream'[b].state = stream[b].state /\ stream'[b].seen = stream[b].seen
              /\ stream'[b].queue =
                   IF Registered(b) /\ Len(stream[b].queue) < StreamQueue
                   THEN Append(stream[b].queue, e) ELSE stream[b].queue
              /\ lost'[b] = IF Registered(b) /\ Len(stream[b].queue) = StreamQueue
                            THEN lost[b] \cup ({e.id} \ {0}) ELSE lost[b]
<1> DEFINE Sent(b) == [stream[b] EXCEPT !.queue = Append(stream[b].queue, e)]
<1>1. ASSUME NEW b \in Browsers
      PROVE  /\ stream[b] \in Stream
             /\ Sent(b) \in Stream
             /\ Sent(b).state = stream[b].state
             /\ Sent(b).seen = stream[b].seen
             /\ Sent(b).queue = Append(stream[b].queue, e)
  <2>1. stream[b] \in Stream
    BY DEF StreamTyped
  <2>2. stream[b].queue \in Seq(Event)
    BY <2>1 DEF Stream
  <2>3. Append(stream[b].queue, e) \in Seq(Event)
    BY <2>2
  <2> QED BY <2>1, <2>3, QueueSet
<1>2. e.id \in Nat
  BY DEF Event
<1>3. stream' = [b \in Browsers |->
                  IF Registered(b) /\ Len(stream[b].queue) < StreamQueue
                  THEN Sent(b) ELSE stream[b]]
  BY DEF Broadcast
<1>4. lost' = [b \in Browsers |->
                IF Registered(b) /\ Len(stream[b].queue) = StreamQueue
                THEN lost[b] \cup ({e.id} \ {0}) ELSE lost[b]]
  BY DEF Broadcast
<1> HIDE DEF Sent
<1>5. lost \in [Browsers -> SUBSET Nat]
  BY DEF StreamTyped
<1>6. lost' \in [Browsers -> SUBSET Nat]
  BY <1>2, <1>4, <1>5
<1>7. stream' \in [Browsers -> Stream]
  BY <1>1, <1>3
<1> QED BY <1>1, <1>3, <1>4, <1>6, <1>7

(* NewBus and NewServer start with nothing sent, nobody connected and no   *)
(* crash.                                                                  *)
LEMMA BInit == Init => BInv
<1> SUFFICES ASSUME Init PROVE BInv
  OBVIOUS
<1>1. program \in [Publishers -> Seq(Step)]
  BY StreamAssumption DEF Init
<1>2. StreamTyped
  BY <1>1, NoEventTyped DEF Init, StreamTyped, Idle, Closed, Stream
<1>3. OwnEvents /\ SendersAreHeard /\ NotCrashed
  BY DEF Init, OwnEvents, SendersAreHeard, NotCrashed, Idle
<1>4. HistoryIsRecent
  BY StreamAssumption DEF Init, HistoryIsRecent
<1> QED BY <1>2, <1>3, <1>4 DEF BInv

(* A sequence without its first n elements.                                *)
LEMMA WithoutFirst ==
  ASSUME NEW s \in Seq(Event), NEW n \in 0 .. Len(s)
  PROVE  /\ SubSeq(s, n + 1, Len(s)) \in Seq(Event)
         /\ Len(SubSeq(s, n + 1, Len(s))) = Len(s) - n
         /\ \A i \in 1 .. Len(s) - n : SubSeq(s, n + 1, Len(s))[i] = s[n + i]
OBVIOUS

(* The first half of Publish: the event that the outbox and the history    *)
(* get.  The history loses its oldest event when it is full.               *)
LEMMA AppendsOne ==
  ASSUME BInv, NEW p \in Publishers, PublishAppends(p)
  PROVE  \E e \in Event :
           /\ e.id = seq + 1 /\ e.by = p
           /\ outbox' = [outbox EXCEPT ![p] = [event |-> e, at |-> "appended"]]
           /\ buffer' \in Seq(Event)
           /\ Len(buffer') = IF Len(buffer) < History THEN Len(buffer) + 1 ELSE History
           /\ \A i \in 1 .. Len(buffer') :
                buffer'[i] = Append(buffer, e)[(Len(buffer) + 1 - Len(buffer')) + i]
<1> DEFINE step == Head(program[p])
           e == [id |-> seq + 1, by |-> p, type |-> step.type, stage |-> step.stage,
                 key |-> step.key]
           longer == Append(buffer, e)
           drop == IF Len(longer) > History THEN Len(longer) - History ELSE 0
<1>1. program[p] \in Seq(Step) /\ program[p] # <<>>
  BY DEF BInv, StreamTyped, PublishAppends
<1>2. step \in Step /\ step.op = "publish"
  BY <1>1 DEF PublishAppends
<1> HIDE DEF step
<1>3. e \in Event
  <2>1. step.type \in Types /\ step.stage \in Stages /\ step.key \in Keys \cup {""}
    BY <1>2, PublishStep
  <2>2. seq + 1 \in Nat
    BY DEF BInv, StreamTyped
  <2> QED BY <2>1, <2>2 DEF Event
<1>4. e.id = seq + 1 /\ e.by = p
  OBVIOUS
<1>5. /\ outbox' = [outbox EXCEPT ![p] = [event |-> e, at |-> "appended"]]
      /\ buffer' = SubSeq(longer, drop + 1, Len(longer))
  BY DEF PublishAppends, step
<1> HIDE DEF e
<1>6. /\ longer \in Seq(Event) /\ Len(longer) = Len(buffer) + 1 /\ Len(buffer) \in Nat
      /\ Len(buffer) <= History
  BY <1>3, StreamAssumption DEF BInv, StreamTyped, HistoryIsRecent
<1> HIDE DEF longer
<1>7. /\ drop \in 0 .. Len(longer)
      /\ Len(longer) - drop = IF Len(buffer) < History THEN Len(buffer) + 1 ELSE History
  <2>1. ASSUME NEW n \in Nat, NEW h \in Nat, n <= h
        PROVE  LET d == IF n + 1 > h THEN (n + 1) - h ELSE 0 IN
               d \in 0 .. n + 1 /\ (n + 1) - d = IF n < h THEN n + 1 ELSE h
    BY <2>1
  <2>2. /\ History \in Nat /\ Len(longer) = Len(buffer) + 1 /\ Len(buffer) \in Nat
        /\ Len(buffer) <= History
    BY <1>6, StreamAssumption
  <2>3. LET d == IF Len(buffer) + 1 > History THEN (Len(buffer) + 1) - History ELSE 0 IN
        /\ d \in 0 .. Len(buffer) + 1
        /\ (Len(buffer) + 1) - d = IF Len(buffer) < History THEN Len(buffer) + 1 ELSE History
    BY <2>1, <2>2
  <2>4. drop = IF Len(buffer) + 1 > History THEN (Len(buffer) + 1) - History ELSE 0
    BY <2>2
  <2> QED BY <2>2, <2>3, <2>4, Zenon
<1> HIDE DEF drop
<1>8. /\ buffer' \in Seq(Event) /\ Len(buffer') = Len(longer) - drop
      /\ \A i \in 1 .. Len(longer) - drop : buffer'[i] = longer[drop + i]
  BY <1>5, <1>6, <1>7, WithoutFirst
<1>9. drop = Len(buffer) + 1 - Len(buffer')
  BY <1>6, <1>7, <1>8
<1> QED BY <1>3, <1>4, <1>5, <1>7, <1>8, <1>9 DEF longer

(* After Publish the publisher is idle and its program a step shorter.     *)
LEMMA PublishedIdle ==
  ASSUME BInv, NEW p \in Publishers, outbox[p].at # "idle", Published(p)
  PROVE  /\ program' \in [Publishers -> Seq(Step)]
         /\ outbox' = [outbox EXCEPT ![p] = Idle]
         /\ outbox' \in [Publishers -> [event : Event, at : {"idle", "appended", "sending"}]]
<1>1. Tail(program[p]) \in Seq(Step)
  BY DEF BInv, StreamTyped, OwnEvents
<1>2. Idle \in [event : Event, at : {"idle", "appended", "sending"}]
  BY NoEventTyped DEF Idle
<1> QED BY <1>1, <1>2 DEF Published, BInv, StreamTyped

(* The lock of the bus: publishers hold it for reading while they send,    *)
(* the bridge takes it to close its channel.                               *)
LEMMA BNext == BInv /\ [Next]_vars => BInv'
<1> SUFFICES ASSUME BInv, [Next]_vars PROVE BInv'
  OBVIOUS
<1> USE DEF BInv, NotCrashed
<1>1. ASSUME NEW p \in Publishers, StoreStep(p) PROVE BInv'
  <2>1. /\ program[p] # <<>> /\ Head(program[p]).op # "publish"
        /\ program' = [program EXCEPT ![p] = Tail(@)]
        /\ UNCHANGED <<outbox, buffer, seq, bridge, stream, lost, server>>
    BY <1>1 DEF StoreStep
  <2>2. outbox[p].at = "idle"
    BY <2>1 DEF OwnEvents
  <2>3. StreamTyped'
    BY <2>1 DEF StreamTyped
  <2>4. OwnEvents'
    BY <2>1, <2>2 DEF OwnEvents, StreamTyped
  <2> QED BY <2>1, <2>3, <2>4 DEF SendersAreHeard, HistoryIsRecent
<1>2. ASSUME NEW p \in Publishers, PublishAppends(p) PROVE BInv'
  <2>1. PICK e \in Event :
           /\ e.id = seq + 1 /\ e.by = p
           /\ outbox' = [outbox EXCEPT ![p] = [event |-> e, at |-> "appended"]]
           /\ buffer' \in Seq(Event)
           /\ Len(buffer') = IF Len(buffer) < History THEN Len(buffer) + 1 ELSE History
           /\ \A i \in 1 .. Len(buffer') :
                buffer'[i] = Append(buffer, e)[(Len(buffer) + 1 - Len(buffer')) + i]
    BY <1>2, AppendsOne
  <2>2. /\ seq' = seq + 1 /\ UNCHANGED <<program, bridge, stream, lost, server>>
        /\ outbox[p] = Idle /\ program[p] # <<>> /\ Head(program[p]).op = "publish"
    BY <1>2 DEF PublishAppends
  <2>3. StreamTyped'
    BY <2>1, <2>2 DEF StreamTyped
  <2>4. OwnEvents'
    BY <2>1, <2>2 DEF OwnEvents, StreamTyped
  <2>5. SendersAreHeard'
    BY <2>1, <2>2 DEF SendersAreHeard, StreamTyped
  <2>6. HistoryIsRecent'
    <3>1. Len(buffer') = IF seq' < History THEN seq' ELSE History
      BY <2>1, <2>2, StreamAssumption DEF HistoryIsRecent, StreamTyped
    <3>2. ASSUME NEW i \in DOMAIN buffer' PROVE buffer'[i].id = (seq' - Len(buffer')) + i
      <4> DEFINE j == (Len(buffer) + 1 - Len(buffer')) + i
      <4>1. /\ i \in 1 .. Len(buffer') /\ Len(buffer) \in Nat /\ Len(buffer') \in Nat
            /\ seq \in Nat /\ Len(buffer') <= Len(buffer) + 1
        <5>1. /\ i \in 1 .. Len(buffer') /\ Len(buffer) \in Nat /\ Len(buffer') \in Nat
              /\ seq \in Nat /\ History \in Nat
          BY <2>1, <3>2, StreamAssumption DEF StreamTyped
        <5>2. Len(buffer) <= History
          BY <5>1 DEF HistoryIsRecent
        <5> QED BY <2>1, <5>1, <5>2
      <4>2. j \in 1 .. Len(buffer) + 1 /\ (seq' - Len(buffer')) + i = (seq - Len(buffer)) + j
        BY <2>2, <4>1
      <4>3. buffer'[i] = Append(buffer, e)[j]
        BY <2>1, <4>1
      <4> HIDE DEF j
      <4>4. CASE j = Len(buffer) + 1
        BY <2>1, <4>1, <4>2, <4>3, <4>4 DEF StreamTyped
      <4>5. CASE j \in 1 .. Len(buffer)
        BY <4>2, <4>3, <4>5 DEF StreamTyped, HistoryIsRecent
      <4> QED BY <4>1, <4>2, <4>4, <4>5
    <3> QED BY <3>1, <3>2 DEF HistoryIsRecent
  <2> QED BY <2>2, <2>3, <2>4, <2>5, <2>6
<1>3. ASSUME NEW p \in Publishers, PublishLocks(p) PROVE BInv'
  <2>1. /\ outbox[p].at = "appended"
        /\ UNCHANGED <<buffer, seq, bridge, stream, lost, server>>
    BY <1>3 DEF PublishLocks
  <2>2. CASE /\ bridge.state = "subscribed"
             /\ outbox' = [outbox EXCEPT ![p].at = "sending"] /\ UNCHANGED program
    <3>1. StreamTyped'
      BY <2>1, <2>2 DEF StreamTyped
    <3>2. OwnEvents' /\ SendersAreHeard'
      BY <2>1, <2>2 DEF OwnEvents, SendersAreHeard, StreamTyped
    <3> QED BY <2>1, <3>1, <3>2 DEF HistoryIsRecent
  <2>3. CASE Published(p)
    <3>1. /\ program' = [program EXCEPT ![p] = Tail(@)]
          /\ program' \in [Publishers -> Seq(Step)]
          /\ outbox' = [outbox EXCEPT ![p] = Idle]
          /\ outbox' \in [Publishers -> [event : Event, at : {"idle", "appended", "sending"}]]
      BY <2>1, <2>3, PublishedIdle DEF Published
    <3>2. StreamTyped'
      BY <2>1, <3>1 DEF StreamTyped
    <3>3. OwnEvents' /\ SendersAreHeard'
      BY <2>1, <3>1 DEF OwnEvents, SendersAreHeard, StreamTyped, Idle
    <3> QED BY <2>1, <3>2, <3>3 DEF HistoryIsRecent
  <2> QED BY <1>3, <2>2, <2>3 DEF PublishLocks
<1>4. ASSUME NEW p \in Publishers, PublishSends(p) PROVE BInv'
  <2>1. /\ outbox[p].at = "sending" /\ Published(p)
        /\ UNCHANGED <<buffer, seq, stream>>
    BY <1>4 DEF PublishSends
  <2>2. bridge.state = "subscribed"
    BY <2>1 DEF SendersAreHeard
  <2>3. /\ program' = [program EXCEPT ![p] = Tail(@)]
        /\ program' \in [Publishers -> Seq(Step)]
        /\ outbox' = [outbox EXCEPT ![p] = Idle]
        /\ outbox' \in [Publishers -> [event : Event, at : {"idle", "appended", "sending"}]]
    BY <2>1, PublishedIdle DEF Published
  <2>4. \/ /\ lost' = [b \in Browsers |-> IF Registered(b) THEN lost[b] \cup {outbox[p].event.id}
                                          ELSE lost[b]]
           /\ UNCHANGED <<bridge, server>>
        \/ /\ bridge' = [bridge EXCEPT !.inbox = Append(@, outbox[p].event)]
           /\ UNCHANGED <<lost, server>>
    BY <1>4, <2>2 DEF PublishSends
  <2>5. outbox[p].event \in Event /\ outbox[p].event.id \in Nat
    BY DEF StreamTyped, Event
  <2>6. lost' \in [Browsers -> SUBSET Nat]
    <3>1. \A b \in Browsers : lost[b] \cup {outbox[p].event.id} \subseteq Nat
      BY <2>5 DEF StreamTyped
    <3> QED BY <2>4, <3>1 DEF StreamTyped
  <2>7. /\ bridge' \in [state : {"starting", "subscribed", "closed"}, inbox : Seq(Event)]
        /\ bridge'.state = "subscribed"
    <3>1. Append(bridge.inbox, outbox[p].event) \in Seq(Event)
      BY <2>5 DEF StreamTyped
    <3> QED BY <2>2, <2>4, <3>1 DEF StreamTyped
  <2>8. StreamTyped'
    BY <2>1, <2>3, <2>6, <2>7 DEF StreamTyped
  <2>9. OwnEvents' /\ SendersAreHeard'
    BY <2>1, <2>3, <2>7 DEF OwnEvents, SendersAreHeard, StreamTyped, Idle
  <2> QED BY <2>1, <2>4, <2>8, <2>9 DEF HistoryIsRecent
<1>5. CASE BridgeSubscribes \/ BridgeCancels
  <2>1. /\ Readers = {}
        /\ bridge' \in {[bridge EXCEPT !.state = "subscribed"], [bridge EXCEPT !.state = "closed"]}
        /\ UNCHANGED <<program, outbox, buffer, seq, stream, lost, server>>
    BY <1>5 DEF BridgeSubscribes, BridgeCancels
  <2>2. StreamTyped'
    BY <2>1 DEF StreamTyped
  <2>3. SendersAreHeard'
    BY <2>1 DEF SendersAreHeard, Readers
  <2> QED BY <2>1, <2>2, <2>3 DEF OwnEvents, HistoryIsRecent
<1>6. CASE BridgeForwards
  <2>1. /\ Broadcast(Head(bridge.inbox)) /\ bridge.inbox # <<>>
        /\ bridge' = [bridge EXCEPT !.inbox = Tail(@)]
        /\ UNCHANGED <<program, outbox, buffer, seq, server>>
    BY <1>6 DEF BridgeForwards
  <2>2. Head(bridge.inbox) \in Event /\ Tail(bridge.inbox) \in Seq(Event)
    BY <2>1 DEF StreamTyped
  <2>3. stream' \in [Browsers -> Stream] /\ lost' \in [Browsers -> SUBSET Nat]
    BY <2>1, <2>2, BroadcastTyped
  <2>4. StreamTyped' /\ bridge'.state = bridge.state
    BY <2>1, <2>2, <2>3 DEF StreamTyped
  <2> QED BY <2>1, <2>4 DEF OwnEvents, SendersAreHeard, HistoryIsRecent
<1>7. CASE Heartbeat
  <2>1. /\ Broadcast([NoEvent EXCEPT !.type = "overview.refresh"])
        /\ UNCHANGED <<program, outbox, buffer, seq, bridge, server>>
    BY <1>7 DEF Heartbeat
  <2>2. [NoEvent EXCEPT !.type = "overview.refresh"] \in Event
    BY DEF NoEvent, Event
  <2>3. stream' \in [Browsers -> Stream] /\ lost' \in [Browsers -> SUBSET Nat]
    BY <2>1, <2>2, BroadcastTyped
  <2> QED BY <2>1, <2>3 DEF StreamTyped, OwnEvents, SendersAreHeard, HistoryIsRecent
<1>8. ASSUME NEW b \in Browsers, Connect(b) \/ Stall(b) PROVE BInv'
  <2>1. UNCHANGED <<program, outbox, buffer, seq, bridge, lost, server>>
    BY <1>8 DEF Connect, Stall
  <2>2. stream[b] \in Stream /\ stream \in [Browsers -> Stream]
    BY DEF StreamTyped
  <2>3. /\ [state |-> "open", queue |-> <<>>, seen |-> <<>>,
            connects |-> stream[b].connects + 1] \in Stream
        /\ [stream[b] EXCEPT !.state = "stalled"] \in Stream
    <3>1. stream[b].connects + 1 \in Nat
      BY <2>2 DEF Stream
    <3> QED BY <2>2, <3>1, StreamSet, ClosedTyped
  <2>4. \/ stream' = [stream EXCEPT ![b] = [state |-> "open", queue |-> <<>>, seen |-> <<>>,
                                           connects |-> stream[b].connects + 1]]
        \/ stream' = [stream EXCEPT ![b] = [stream[b] EXCEPT !.state = "stalled"]]
    BY <1>8 DEF Connect, Stall
  <2>5. stream' \in [Browsers -> Stream]
    BY <2>2, <2>3, <2>4
  <2> QED BY <2>1, <2>5 DEF StreamTyped, OwnEvents, SendersAreHeard, HistoryIsRecent
<1>9. ASSUME NEW b \in Browsers, Disconnect(b) \/ HandlerStops(b) PROVE BInv'
  <2>1. /\ UNCHANGED <<program, outbox, buffer, seq, bridge, server>>
        /\ stream' = [stream EXCEPT ![b] = [Closed EXCEPT !.connects = stream[b].connects]]
        /\ lost' = [lost EXCEPT ![b] = {}]
    BY <1>9 DEF Disconnect, HandlerStops, Unsubscribed
  <2>2. stream' \in [Browsers -> Stream] /\ lost' \in [Browsers -> SUBSET Nat]
    <3>1. stream[b].connects \in Nat
      BY DEF StreamTyped, Stream
    <3>2. [Closed EXCEPT !.connects = stream[b].connects] \in Stream
      BY <3>1, ClosedTyped, StreamSet
    <3> QED BY <2>1, <3>2 DEF StreamTyped
  <2> QED BY <2>1, <2>2 DEF StreamTyped, OwnEvents, SendersAreHeard, HistoryIsRecent
<1>10. ASSUME NEW b \in Browsers, Deliver(b) PROVE BInv'
  <2> DEFINE event == Head(stream[b].queue)
             seen == IF event.id = 0 THEN stream[b].seen ELSE Append(stream[b].seen, event)
  <2>1. /\ UNCHANGED <<program, outbox, buffer, seq, bridge, lost, server>>
        /\ stream[b].queue # <<>>
        /\ stream' = [stream EXCEPT ![b].queue = Tail(stream[b].queue), ![b].seen = seen]
    BY <1>10 DEF Deliver
  <2>2. /\ stream[b] \in Stream /\ stream[b].queue \in Seq(Event)
        /\ stream[b].seen \in Seq(Event)
    BY DEF StreamTyped, Stream
  <2>3. event \in Event /\ Tail(stream[b].queue) \in Seq(Event)
    BY <2>1, <2>2
  <2>4. seen \in Seq(Event)
    BY <2>2, <2>3
  <2> HIDE DEF seen
  <2>5. stream' \in [Browsers -> Stream]
    BY <2>1, <2>3, <2>4 DEF StreamTyped, Stream
  <2> QED BY <2>1, <2>5 DEF StreamTyped, OwnEvents, SendersAreHeard, HistoryIsRecent
<1>11. ASSUME UNCHANGED <<program, outbox, buffer, seq, bridge, stream, lost, server>>
       PROVE  BInv'
  BY <1>11 DEF StreamTyped, OwnEvents, SendersAreHeard, HistoryIsRecent
<1>12. ASSUME NEW b \in Browsers, BrowserStep(b) PROVE BInv'
  BY <1>8, <1>9, <1>11, <1>12
  DEF BrowserStep, LoadPipeline, ServeLoad, LoadArrives, OpenPanel, ServeFetch, FetchArrives
<1>13. CASE Cancel \/ ShutdownReturns
  BY <1>13 DEF Cancel, ShutdownReturns, StreamTyped, OwnEvents, SendersAreHeard, HistoryIsRecent
<1>14. CASE UNCHANGED vars
  BY <1>14 DEF vars, streamVars, StreamTyped, OwnEvents, SendersAreHeard, HistoryIsRecent
<1> QED
  BY <1>1, <1>2, <1>3, <1>4, <1>5, <1>6, <1>7, <1>9, <1>10, <1>12, <1>13, <1>14
  DEF Next, PublisherStep, BridgeStep

(* The bus and the server never leave BInv.                                *)
LEMMA BInvariance == Spec => []BInv
BY BInit, BNext, PTL DEF Spec

(* However late a publisher is, it never sends to the channel that the     *)
(* bridge has closed, and the process does not panic: cancel closes the    *)
(* channel under the bus's lock, which a sender holds.  This is the safety *)
(* half of StopsCleanly.                                                   *)
THEOREM NeverCrashes == Spec => [](server # "crashed")
<1>1. BInv => server # "crashed"
  BY DEF BInv, NotCrashed
<1> QED BY <1>1, BInvariance, PTL
-----------------------------------------------------------------------------
(* Order, when an event goes to the end of a sequence or leaves its front. *)
LEMMA OrderAppend ==
  ASSUME NEW s \in Seq(Event), NEW t \in Seq(Event), NEW e \in Event
  PROVE  /\ InOrder(s) /\ AllBefore(s, e) => InOrder(Append(s, e))
         /\ Precedes(t, s) /\ AllBefore(t, e) => Precedes(t, Append(s, e))
         /\ Precedes(s, t) /\ AllAfter(e, t) => Precedes(Append(s, e), t)
<1>1. /\ DOMAIN Append(s, e) = 1 .. Len(s) + 1 /\ DOMAIN s = 1 .. Len(s) /\ Len(s) \in Nat
      /\ \A i \in 1 .. Len(s) : Append(s, e)[i] = s[i]
      /\ Append(s, e)[Len(s) + 1] = e
  OBVIOUS
<1>2. ASSUME NEW i \in DOMAIN Append(s, e), i # Len(s) + 1 PROVE i \in DOMAIN s
  BY <1>1, <1>2
<1>3. ASSUME InOrder(s), AllBefore(s, e) PROVE InOrder(Append(s, e))
  <2> SUFFICES ASSUME NEW i \in DOMAIN Append(s, e), NEW j \in DOMAIN Append(s, e), i < j
               PROVE  Before(Append(s, e)[i], Append(s, e)[j])
    BY DEF InOrder
  <2>1. i \in DOMAIN s /\ Append(s, e)[i] = s[i]
    BY <1>1
  <2>2. CASE j = Len(s) + 1
    BY <1>1, <1>3, <2>1, <2>2 DEF AllBefore
  <2>3. CASE j # Len(s) + 1
    BY <1>1, <1>2, <1>3, <2>1, <2>3 DEF InOrder
  <2> QED BY <2>2, <2>3
<1>4. ASSUME Precedes(t, s), AllBefore(t, e) PROVE Precedes(t, Append(s, e))
  <2> SUFFICES ASSUME NEW i \in DOMAIN t, NEW j \in DOMAIN Append(s, e)
               PROVE  Before(t[i], Append(s, e)[j])
    BY DEF Precedes
  <2>2. CASE j = Len(s) + 1
    BY <1>1, <1>4, <2>2 DEF AllBefore
  <2>3. CASE j # Len(s) + 1
    BY <1>1, <1>2, <1>4, <2>3 DEF Precedes
  <2> QED BY <2>2, <2>3
<1>5. ASSUME Precedes(s, t), AllAfter(e, t) PROVE Precedes(Append(s, e), t)
  <2> SUFFICES ASSUME NEW i \in DOMAIN Append(s, e), NEW j \in DOMAIN t
               PROVE  Before(Append(s, e)[i], t[j])
    BY DEF Precedes
  <2>2. CASE i = Len(s) + 1
    BY <1>1, <1>5, <2>2 DEF AllAfter
  <2>3. CASE i # Len(s) + 1
    BY <1>1, <1>2, <1>5, <2>3 DEF Precedes
  <2> QED BY <2>2, <2>3
<1> QED BY <1>3, <1>4, <1>5

(* What a reader takes from a channel comes before all that is left in it. *)
LEMMA OrderTail ==
  ASSUME NEW s \in Seq(Event), NEW t \in Seq(Event), s # <<>>
  PROVE  /\ InOrder(s) => InOrder(Tail(s)) /\ AllAfter(Head(s), Tail(s))
         /\ Precedes(t, s) => Precedes(t, Tail(s)) /\ AllBefore(t, Head(s))
         /\ Precedes(s, t) => Precedes(Tail(s), t) /\ AllAfter(Head(s), t)
<1>1. /\ Len(s) \in Nat /\ Len(s) > 0 /\ DOMAIN s = 1 .. Len(s)
      /\ DOMAIN Tail(s) = 1 .. Len(s) - 1
      /\ \A i \in 1 .. Len(s) - 1 : Tail(s)[i] = s[i + 1]
      /\ Head(s) = s[1]
  OBVIOUS
<1>2. 1 \in DOMAIN s
  BY <1>1
<1>3. \A i \in DOMAIN Tail(s) :
         /\ i + 1 \in DOMAIN s /\ i \in Nat /\ 1 < i + 1 /\ Tail(s)[i] = s[i + 1]
  BY <1>1
<1>4. InOrder(s) => InOrder(Tail(s))
  BY <1>3 DEF InOrder
<1>5. InOrder(s) => AllAfter(Head(s), Tail(s))
  BY <1>1, <1>2, <1>3 DEF InOrder, AllAfter
<1>6. Precedes(t, s) => Precedes(t, Tail(s)) /\ AllBefore(t, Head(s))
  BY <1>1, <1>2, <1>3 DEF Precedes, AllBefore
<1>7. Precedes(s, t) => Precedes(Tail(s), t) /\ AllAfter(Head(s), t)
  BY <1>1, <1>2, <1>3 DEF Precedes, AllAfter
<1> QED BY <1>4, <1>5, <1>6, <1>7

(* Properties of all events of a sequence.                                 *)
LEMMA AllAppendTail ==
  ASSUME NEW s \in Seq(Event), NEW e \in Event, NEW f
  PROVE  /\ AllBefore(s, f) /\ Before(e, f) => AllBefore(Append(s, e), f)
         /\ Numbered(s) /\ e.id <= seq => Numbered(Append(s, e))
         /\ s # <<>> /\ AllBefore(s, f) => AllBefore(Tail(s), f) /\ Before(Head(s), f)
         /\ s # <<>> /\ Numbered(s) => Numbered(Tail(s)) /\ Head(s).id <= seq
<1>1. /\ DOMAIN Append(s, e) = 1 .. Len(s) + 1 /\ DOMAIN s = 1 .. Len(s) /\ Len(s) \in Nat
      /\ \A i \in 1 .. Len(s) : Append(s, e)[i] = s[i]
      /\ Append(s, e)[Len(s) + 1] = e
  OBVIOUS
<1>2. \A i \in DOMAIN Append(s, e) :
        \/ Append(s, e)[i] = e
        \/ i \in DOMAIN s /\ Append(s, e)[i] = s[i]
  BY <1>1
<1>3. s # <<>> => /\ 1 \in DOMAIN s /\ Head(s) = s[1]
                  /\ \A i \in DOMAIN Tail(s) : i + 1 \in DOMAIN s /\ Tail(s)[i] = s[i + 1]
  OBVIOUS
<1> QED BY <1>2, <1>3 DEF AllBefore, Numbered

(* The moves of an event on its way.                                       *)
LEMMA OrderlyMoves ==
  ASSUME NEW q \in Seq(Event), NEW s \in Seq(Event), NEW in \in Seq(Event), Orderly(q, s, in)
  PROVE  /\ \A e \in Event : AllBefore(q, e) /\ AllBefore(s, e) => Orderly(q, s, Append(in, e))
         /\ \A e \in Event : e.id = 0 => Orderly(Append(q, e), s, in)
         /\ in # <<>> /\ InOrder(in) =>
              Orderly(q, s, Tail(in)) /\ Orderly(Append(q, Head(in)), s, Tail(in))
         /\ q # <<>> =>
              Orderly(Tail(q), IF Head(q).id = 0 THEN s ELSE Append(s, Head(q)), in)
<1>1. ASSUME NEW e \in Event, AllBefore(q, e), AllBefore(s, e)
      PROVE  Orderly(q, s, Append(in, e))
  BY <1>1, OrderAppend DEF Orderly
<1>2. ASSUME NEW e \in Event, e.id = 0 PROVE Orderly(Append(q, e), s, in)
  <2>1. AllBefore(q, e) /\ AllBefore(s, e) /\ AllAfter(e, in)
    BY <1>2 DEF AllBefore, AllAfter, Before
  <2> QED BY <2>1, OrderAppend DEF Orderly
<1>3. ASSUME in # <<>>, InOrder(in)
      PROVE  Orderly(q, s, Tail(in)) /\ Orderly(Append(q, Head(in)), s, Tail(in))
  <2>1. Head(in) \in Event /\ Tail(in) \in Seq(Event)
    BY <1>3
  <2>2. /\ Precedes(q, Tail(in)) /\ Precedes(s, Tail(in))
        /\ AllBefore(q, Head(in)) /\ AllBefore(s, Head(in)) /\ AllAfter(Head(in), Tail(in))
    BY <1>3, OrderTail DEF Orderly
  <2> QED BY <2>1, <2>2, OrderAppend DEF Orderly
<1>4. ASSUME q # <<>>
      PROVE  Orderly(Tail(q), IF Head(q).id = 0 THEN s ELSE Append(s, Head(q)), in)
  <2>1. Head(q) \in Event /\ Tail(q) \in Seq(Event)
    BY <1>4
  <2>2. /\ InOrder(Tail(q)) /\ Precedes(s, Tail(q)) /\ Precedes(Tail(q), in)
        /\ AllBefore(s, Head(q)) /\ AllAfter(Head(q), Tail(q)) /\ AllAfter(Head(q), in)
    BY <1>4, OrderTail DEF Orderly
  <2>3. /\ InOrder(Append(s, Head(q))) /\ Precedes(Append(s, Head(q)), Tail(q))
        /\ Precedes(Append(s, Head(q)), in)
    BY <2>1, <2>2, OrderAppend DEF Orderly
  <2>4. Head(q).id # 0 => \A i \in DOMAIN Append(s, Head(q)) : Append(s, Head(q))[i].id # 0
    <3>1. \A i \in DOMAIN Append(s, Head(q)) :
             \/ Append(s, Head(q))[i] = Head(q)
             \/ i \in DOMAIN s /\ Append(s, Head(q))[i] = s[i]
      BY <2>1
    <3> QED BY <3>1 DEF Orderly
  <2>5. CASE Head(q).id = 0
    BY <2>2, <2>5 DEF Orderly
  <2>6. CASE Head(q).id # 0
    BY <2>2, <2>3, <2>4, <2>6 DEF Orderly
  <2> QED BY <2>5, <2>6
<1> QED BY <1>1, <1>2, <1>3, <1>4

(* An empty channel and an empty page are in order behind anything.        *)
LEMMA OrderlyEmpty ==
  ASSUME NEW in PROVE Orderly(<<>>, <<>>, in) /\ Known(<<>>) /\ InOrder(<<>>)
BY DEF Orderly, Known, InOrder, Precedes, Numbered, AllBefore

(* A sequence of events stays known when publishers finish or begin to     *)
(* send, and when one numbers a new event.                                 *)
LEMMA KnownStays ==
  ASSUME BInv, NEW s \in Seq(Event), Known(s), seq' \in Nat, seq <= seq',
         \A p \in Publishers : \/ outbox'[p].event = outbox[p].event
                               \/ outbox'[p].event.id = 0
                               \/ outbox'[p].event.id \in Nat /\ outbox'[p].event.id > seq
  PROVE  /\ \A i \in DOMAIN s : s[i].id <= seq'
         /\ \A p \in Publishers : AllBefore(s, outbox'[p].event)
<1>1. \A i \in DOMAIN s : s[i].id \in Nat /\ s[i].id <= seq
  <2>1. \A i \in DOMAIN s : s[i] \in Event
    OBVIOUS
  <2>2. \A i \in DOMAIN s : s[i].id \in Nat
    BY <2>1 DEF Event
  <2> QED BY <2>2 DEF Known, Numbered
<1>2. seq \in Nat
  BY DEF BInv, StreamTyped
<1>3. \A i \in DOMAIN s : s[i].id <= seq'
  BY <1>1, <1>2
<1>4. ASSUME NEW p \in Publishers PROVE AllBefore(s, outbox'[p].event)
  <2>1. CASE outbox'[p].event = outbox[p].event
    BY <2>1 DEF Known
  <2>2. CASE outbox'[p].event.id = 0
    BY <2>2 DEF AllBefore, Before
  <2>3. CASE outbox'[p].event.id \in Nat /\ outbox'[p].event.id > seq
    BY <2>3, <1>1, <1>2 DEF AllBefore, Before
  <2> QED BY <2>1, <2>2, <2>3
<1> QED BY <1>3, <1>4

(* The sequences of the way are sequences of events.                       *)
LEMMA WayTyped ==
  ASSUME BInv
  PROVE  /\ bridge.inbox \in Seq(Event) /\ seq \in Nat
         /\ \A b \in Browsers : stream[b].queue \in Seq(Event) /\ stream[b].seen \in Seq(Event)
BY DEF BInv, StreamTyped, Stream

(* A step that moves no event, though it may disconnect a browser.         *)
LEMMA WayStays ==
  ASSUME BInv, BInv', WayInOrder, seq <= seq', bridge'.inbox = bridge.inbox,
         \A p \in Publishers : \/ outbox'[p].event = outbox[p].event
                               \/ outbox'[p].event.id = 0
                               \/ outbox'[p].event.id \in Nat /\ outbox'[p].event.id > seq,
         \A b \in Browsers :
           \/ stream'[b].queue = stream[b].queue /\ stream'[b].seen = stream[b].seen
           \/ stream'[b].queue = <<>> /\ stream'[b].seen = <<>>
  PROVE  WayInOrder'
<1>1. seq' \in Nat
  BY DEF BInv, StreamTyped
<1>2. InOrder(bridge.inbox)' /\ Known(bridge.inbox)'
  <2>1. bridge.inbox \in Seq(Event) /\ Known(bridge.inbox) /\ InOrder(bridge.inbox)
    BY WayTyped DEF WayInOrder
  <2>2. /\ \A i \in DOMAIN bridge.inbox : bridge.inbox[i].id <= seq'
        /\ \A p \in Publishers : AllBefore(bridge.inbox, outbox'[p].event)
    BY <1>1, <2>1, KnownStays
  <2> QED BY <2>1, <2>2 DEF InOrder, Known, Numbered, AllBefore
<1>3. ASSUME NEW b \in Browsers
      PROVE  /\ Orderly(stream[b].queue, stream[b].seen, bridge.inbox)'
             /\ Known(stream[b].queue)' /\ Known(stream[b].seen)'
  <2>1. /\ stream[b].queue \in Seq(Event) /\ Known(stream[b].queue)
        /\ stream[b].seen \in Seq(Event) /\ Known(stream[b].seen)
        /\ Orderly(stream[b].queue, stream[b].seen, bridge.inbox)
    BY WayTyped DEF WayInOrder
  <2>2. CASE stream'[b].queue = stream[b].queue /\ stream'[b].seen = stream[b].seen
    <3>1. /\ \A i \in DOMAIN stream[b].queue : stream[b].queue[i].id <= seq'
          /\ \A p \in Publishers : AllBefore(stream[b].queue, outbox'[p].event)
      BY <1>1, <2>1, KnownStays
    <3>2. /\ \A i \in DOMAIN stream[b].seen : stream[b].seen[i].id <= seq'
          /\ \A p \in Publishers : AllBefore(stream[b].seen, outbox'[p].event)
      BY <1>1, <2>1, KnownStays
    <3>3. Known(stream[b].queue)' /\ Known(stream[b].seen)'
      BY <2>2, <3>1, <3>2 DEF Known, Numbered, AllBefore
    <3>4. Orderly(stream[b].queue, stream[b].seen, bridge.inbox)'
      BY <2>1, <2>2 DEF Orderly, InOrder, Precedes
    <3> QED BY <3>3, <3>4
  <2>3. CASE stream'[b].queue = <<>> /\ stream'[b].seen = <<>>
    BY <2>3 DEF Known, Numbered, AllBefore, Orderly, InOrder, Precedes
  <2> QED BY <2>2, <2>3
<1> QED BY <1>2, <1>3 DEF WayInOrder

(* A publisher's event enters the bridge's channel.                        *)
LEMMA WaySends ==
  ASSUME BInv, BInv', WayInOrder, NEW p \in Publishers, outbox[p].at = "sending",
         outbox' = [outbox EXCEPT ![p] = Idle],
         bridge'.inbox = Append(bridge.inbox, outbox[p].event),
         UNCHANGED <<stream, seq>>
  PROVE  WayInOrder'
<1> DEFINE e == outbox[p].event
           in == bridge.inbox
<1>1. /\ e \in Event /\ e.by = p /\ e.id \in 1 .. seq
      /\ in \in Seq(Event) /\ seq \in Nat
  BY WayTyped DEF BInv, StreamTyped, OwnEvents
<1>2. \A r \in Publishers : outbox'[r].event = outbox[r].event \/ outbox'[r].event.id = 0
  BY DEF BInv, StreamTyped, Idle, NoEvent
<1>3. \A r \in Publishers : Before(e, outbox'[r].event)
  <2> SUFFICES ASSUME NEW r \in Publishers PROVE Before(e, outbox'[r].event)
    OBVIOUS
  <2>1. CASE r = p \/ outbox[r].at = "idle"
    <3>1. outbox'[r] = Idle
      BY <2>1 DEF BInv, StreamTyped, OwnEvents
    <3>2. Idle.event.id = 0
      BY DEF Idle, NoEvent
    <3> QED BY <3>1, <3>2 DEF Before
  <2>2. CASE r # p /\ outbox[r].at # "idle"
    BY <1>1, <2>2 DEF BInv, StreamTyped, OwnEvents, Before
  <2> QED BY <2>1, <2>2
<1>4. /\ InOrder(in) /\ AllBefore(in, e) /\ Known(in)
      /\ \A b \in Browsers : /\ AllBefore(stream[b].queue, e) /\ AllBefore(stream[b].seen, e)
                             /\ Orderly(stream[b].queue, stream[b].seen, in)
                             /\ Known(stream[b].queue) /\ Known(stream[b].seen)
                             /\ stream[b].queue \in Seq(Event) /\ stream[b].seen \in Seq(Event)
  BY WayTyped DEF WayInOrder, Known
<1> HIDE DEF e, in
<1>5. \A s \in Seq(Event) : Known(s) =>
        /\ \A i \in DOMAIN s : s[i].id <= seq'
        /\ \A r \in Publishers : AllBefore(s, outbox'[r].event)
  <2> SUFFICES ASSUME NEW s \in Seq(Event), Known(s)
               PROVE  /\ \A i \in DOMAIN s : s[i].id <= seq'
                      /\ \A r \in Publishers : AllBefore(s, outbox'[r].event)
    OBVIOUS
  <2>1. seq' \in Nat /\ seq <= seq'
    BY <1>1
  <2> QED BY <1>2, <2>1, KnownStays
<1>6. bridge'.inbox = Append(in, e)
  BY DEF e, in
<1>7. InOrder(bridge.inbox)'
  <2>1. InOrder(Append(in, e))
    BY <1>1, <1>4, OrderAppend
  <2> QED BY <1>6, <2>1 DEF InOrder
<1>8. Known(bridge.inbox)'
  <2>1. \A r \in Publishers : AllBefore(Append(in, e), outbox'[r].event)
    BY <1>1, <1>3, <1>4, <1>5, AllAppendTail
  <2>2. Numbered(Append(in, e))
    BY <1>1, <1>4, AllAppendTail DEF Known
  <2> QED BY <1>6, <2>1, <2>2 DEF Known, Numbered, AllBefore
<1>9. ASSUME NEW b \in Browsers
      PROVE  /\ Orderly(stream[b].queue, stream[b].seen, bridge.inbox)'
             /\ Known(stream[b].queue)' /\ Known(stream[b].seen)'
  <2>1. Orderly(stream[b].queue, stream[b].seen, Append(in, e))
    BY <1>1, <1>4, OrderlyMoves
  <2>2. Orderly(stream[b].queue, stream[b].seen, bridge.inbox)'
    BY <1>6, <2>1 DEF Orderly, InOrder, Precedes
  <2>3. Known(stream[b].queue)' /\ Known(stream[b].seen)'
    BY <1>4, <1>5 DEF Known, Numbered, AllBefore
  <2> QED BY <2>2, <2>3
<1> QED BY <1>7, <1>8, <1>9 DEF WayInOrder

(* The bridge forwards an event, or the server sends a heartbeat: some of  *)
(* the browsers get it.                                                    *)
LEMMA WayBroadcasts ==
  ASSUME BInv, BInv', WayInOrder, UNCHANGED <<outbox, seq>>, NEW e \in Event,
         \/ /\ bridge.inbox # <<>> /\ e = Head(bridge.inbox)
            /\ bridge'.inbox = Tail(bridge.inbox)
         \/ e.id = 0 /\ bridge'.inbox = bridge.inbox,
         \A b \in Browsers :
           /\ stream'[b].queue \in {stream[b].queue, Append(stream[b].queue, e)}
           /\ stream'[b].seen = stream[b].seen
  PROVE  WayInOrder'
<1> DEFINE in == bridge.inbox
<1>1. /\ in \in Seq(Event) /\ seq \in Nat /\ InOrder(in) /\ Known(in)
      /\ \A b \in Browsers : /\ Orderly(stream[b].queue, stream[b].seen, in)
                             /\ Known(stream[b].queue) /\ Known(stream[b].seen)
                             /\ stream[b].queue \in Seq(Event) /\ stream[b].seen \in Seq(Event)
  BY WayTyped DEF WayInOrder
<1>2. e.id <= seq /\ \A p \in Publishers : Before(e, outbox[p].event)
  <2>1. CASE e.id = 0
    BY <1>1, <2>1 DEF Before
  <2>2. CASE in # <<>> /\ e = Head(in)
    BY <1>1, <2>2, AllAppendTail DEF Known
  <2> QED BY <2>1, <2>2
<1>3. InOrder(bridge.inbox)' /\ Known(bridge.inbox)'
  <2>1. CASE bridge'.inbox = in
    BY <1>1, <2>1 DEF InOrder, Known, Numbered, AllBefore
  <2>2. CASE in # <<>> /\ bridge'.inbox = Tail(in)
    <3>1. InOrder(Tail(in)) /\ Numbered(Tail(in))
      BY <1>1, <2>2, OrderTail, AllAppendTail DEF Known
    <3>2. \A p \in Publishers : AllBefore(Tail(in), outbox[p].event)
      BY <1>1, <2>2, AllAppendTail DEF Known
    <3> QED BY <2>2, <3>1, <3>2 DEF InOrder, Known, Numbered, AllBefore
  <2> QED BY <2>1, <2>2
<1>4. ASSUME NEW b \in Browsers
      PROVE  /\ Orderly(stream[b].queue, stream[b].seen, bridge.inbox)'
             /\ Known(stream[b].queue)' /\ Known(stream[b].seen)'
  <2> DEFINE q == stream[b].queue
             s == stream[b].seen
  <2>1. /\ Orderly(q, s, bridge'.inbox) /\ Orderly(Append(q, e), s, bridge'.inbox)
    <3>1. CASE e.id = 0 /\ bridge'.inbox = in
      BY <1>1, <3>1, OrderlyMoves
    <3>2. CASE in # <<>> /\ e = Head(in) /\ bridge'.inbox = Tail(in)
      BY <1>1, <3>2, OrderlyMoves
    <3> QED BY <3>1, <3>2
  <2>2. Orderly(stream[b].queue, stream[b].seen, bridge.inbox)'
    BY <2>1 DEF Orderly, InOrder, Precedes
  <2>3. /\ Numbered(Append(q, e))
        /\ \A p \in Publishers : AllBefore(Append(q, e), outbox[p].event)
    BY <1>1, <1>2, AllAppendTail DEF Known
  <2>4. Known(stream[b].queue)' /\ Known(stream[b].seen)'
    BY <1>1, <2>3 DEF Known, Numbered, AllBefore
  <2> QED BY <2>2, <2>4
<1> QED BY <1>3, <1>4 DEF WayInOrder

(* A page handles the next event of its stream.                            *)
LEMMA WayDelivers ==
  ASSUME BInv, BInv', WayInOrder, UNCHANGED <<outbox, seq, bridge>>, NEW b \in Browsers,
         stream[b].queue # <<>>,
         stream'[b].queue = Tail(stream[b].queue),
         stream'[b].seen = IF Head(stream[b].queue).id = 0 THEN stream[b].seen
                           ELSE Append(stream[b].seen, Head(stream[b].queue)),
         \A c \in Browsers \ {b} : stream'[c] = stream[c]
  PROVE  WayInOrder'
<1> DEFINE in == bridge.inbox
           q == stream[b].queue
           s == stream[b].seen
<1>1. /\ in \in Seq(Event) /\ q \in Seq(Event) /\ s \in Seq(Event)
      /\ Orderly(q, s, in) /\ Known(q) /\ Known(s) /\ InOrder(in) /\ Known(in)
  BY WayTyped DEF WayInOrder
<1>2. Orderly(Tail(q), IF Head(q).id = 0 THEN s ELSE Append(s, Head(q)), in)
  BY <1>1, OrderlyMoves
<1>3. Orderly(stream[b].queue, stream[b].seen, bridge.inbox)'
  BY <1>2 DEF Orderly, InOrder, Precedes
<1>4. Head(q) \in Event
  BY <1>1
<1>5. /\ Numbered(Tail(q)) /\ Head(q).id <= seq
      /\ \A p \in Publishers : /\ AllBefore(Tail(q), outbox[p].event)
                               /\ Before(Head(q), outbox[p].event)
  <2> HIDE DEF q
  <2>1. q # <<>>
    BY DEF q
  <2>2. Numbered(Tail(q)) /\ Head(q).id <= seq
    BY <1>1, <1>4, <2>1, AllAppendTail DEF Known
  <2>3. ASSUME NEW p \in Publishers
        PROVE  AllBefore(Tail(q), outbox[p].event) /\ Before(Head(q), outbox[p].event)
    <3>1. AllBefore(q, outbox[p].event)
      BY <1>1 DEF Known
    <3> QED BY <1>1, <1>4, <2>1, <3>1, AllAppendTail
  <2> QED BY <2>2, <2>3
<1>6. /\ Numbered(Append(s, Head(q)))
      /\ \A p \in Publishers : AllBefore(Append(s, Head(q)), outbox[p].event)
  BY <1>1, <1>4, <1>5, AllAppendTail DEF Known
<1>7. Known(stream[b].queue)'
  BY <1>5 DEF Known, Numbered, AllBefore
<1>8. Known(stream[b].seen)'
  BY <1>1, <1>6 DEF Known, Numbered, AllBefore
<1>9. InOrder(bridge.inbox)' /\ Known(bridge.inbox)'
  BY <1>1 DEF InOrder, Known, Numbered, AllBefore
<1>10. ASSUME NEW c \in Browsers \ {b}
       PROVE  /\ Orderly(stream[c].queue, stream[c].seen, bridge.inbox)'
              /\ Known(stream[c].queue)' /\ Known(stream[c].seen)'
  BY DEF WayInOrder, Orderly, InOrder, Precedes, Known, Numbered, AllBefore
<1> QED BY <1>3, <1>7, <1>8, <1>9, <1>10 DEF WayInOrder

(* Before the first event everything is in order.                          *)
LEMMA WayInit == Init => WayInOrder
<1> SUFFICES ASSUME Init PROVE WayInOrder
  OBVIOUS
<1>1. bridge.inbox = <<>> /\ \A b \in Browsers : stream[b].queue = <<>> /\ stream[b].seen = <<>>
  BY DEF Init, Closed
<1> QED BY <1>1, OrderlyEmpty DEF WayInOrder

(* Every step keeps the way in order.                                      *)
LEMMA WayNext == BInv /\ BInv' /\ WayInOrder /\ [Next]_vars => WayInOrder'
<1> SUFFICES ASSUME BInv, BInv', WayInOrder, [Next]_vars PROVE WayInOrder'
  OBVIOUS
<1>0. seq \in Nat /\ seq <= seq
  BY WayTyped
<1>1. ASSUME UNCHANGED <<outbox, seq, bridge, stream>> PROVE WayInOrder'
  BY <1>0, <1>1, WayStays
<1>2. ASSUME NEW p \in Publishers, PublishAppends(p) PROVE WayInOrder'
  <2>1. PICK e \in Event :
           e.id = seq + 1 /\ outbox' = [outbox EXCEPT ![p] = [event |-> e, at |-> "appended"]]
    BY <1>2, AppendsOne
  <2>2. seq' = seq + 1 /\ UNCHANGED <<bridge, stream>>
    BY <1>2 DEF PublishAppends
  <2>3. \A r \in Publishers : \/ outbox'[r].event = outbox[r].event
                              \/ outbox'[r].event.id \in Nat /\ outbox'[r].event.id > seq
    BY <1>0, <2>1 DEF BInv, StreamTyped
  <2>4. seq <= seq'
    BY <1>0, <2>2
  <2> QED BY <2>2, <2>3, <2>4, WayStays
<1>3. ASSUME NEW p \in Publishers, outbox' = [outbox EXCEPT ![p] = Idle],
             UNCHANGED <<bridge, stream, seq>>
      PROVE  WayInOrder'
  <2>1. \A r \in Publishers : outbox'[r].event = outbox[r].event \/ outbox'[r].event.id = 0
    BY <1>3 DEF BInv, StreamTyped, Idle, NoEvent
  <2> QED BY <1>0, <1>3, <2>1, WayStays
<1>4. ASSUME NEW p \in Publishers, PublishLocks(p) PROVE WayInOrder'
  <2>1. UNCHANGED <<bridge, stream, seq>>
    BY <1>4 DEF PublishLocks
  <2>2. CASE outbox' = [outbox EXCEPT ![p].at = "sending"]
    <3>1. \A r \in Publishers : outbox'[r].event = outbox[r].event
      BY <2>2 DEF BInv, StreamTyped
    <3> QED BY <1>0, <2>1, <3>1, WayStays
  <2>3. CASE Published(p)
    BY <1>3, <2>1, <2>3 DEF Published
  <2> QED BY <1>4, <2>2, <2>3 DEF PublishLocks
<1>5. ASSUME NEW p \in Publishers, PublishSends(p) PROVE WayInOrder'
  <2>1. /\ outbox[p].at = "sending" /\ outbox' = [outbox EXCEPT ![p] = Idle]
        /\ UNCHANGED <<stream, seq>>
    BY <1>5 DEF PublishSends, Published
  <2>2. bridge.state = "subscribed"
    BY <2>1 DEF BInv, SendersAreHeard
  <2>3. \/ UNCHANGED bridge
        \/ bridge' = [bridge EXCEPT !.inbox = Append(bridge.inbox, outbox[p].event)]
    BY <1>5, <2>2 DEF PublishSends
  <2>4. UNCHANGED bridge \/ bridge'.inbox = Append(bridge.inbox, outbox[p].event)
    BY <2>3 DEF BInv, StreamTyped
  <2> QED BY <1>3, <2>1, <2>4, WaySends
<1>6. CASE BridgeSubscribes \/ BridgeCancels
  <2>1. bridge'.inbox = bridge.inbox /\ UNCHANGED <<outbox, seq, stream>>
    BY <1>6 DEF BridgeSubscribes, BridgeCancels, BInv, StreamTyped
  <2> QED BY <1>0, <2>1, WayStays
<1>7. ASSUME NEW e \in Event, Broadcast(e)
      PROVE  \A b \in Browsers : /\ stream'[b].queue \in {stream[b].queue, Append(stream[b].queue, e)}
                                 /\ stream'[b].seen = stream[b].seen
  <2>1. StreamTyped
    BY DEF BInv
  <2> QED BY <1>7, <2>1, BroadcastTyped
<1>8. CASE BridgeForwards
  <2>1. /\ Broadcast(Head(bridge.inbox)) /\ bridge.inbox # <<>>
        /\ bridge' = [bridge EXCEPT !.inbox = Tail(bridge.inbox)]
        /\ UNCHANGED <<outbox, seq>>
    BY <1>8 DEF BridgeForwards
  <2>2. bridge'.inbox = Tail(bridge.inbox) /\ Head(bridge.inbox) \in Event
    BY <2>1 DEF BInv, StreamTyped
  <2>3. \A b \in Browsers :
          /\ stream'[b].queue \in {stream[b].queue, Append(stream[b].queue, Head(bridge.inbox))}
          /\ stream'[b].seen = stream[b].seen
    BY <1>7, <2>1, <2>2
  <2> QED BY <2>1, <2>2, <2>3, WayBroadcasts
<1>9. CASE Heartbeat
  <2> DEFINE e == [NoEvent EXCEPT !.type = "overview.refresh"]
  <2>1. Broadcast(e) /\ UNCHANGED <<outbox, seq, bridge>>
    BY <1>9 DEF Heartbeat
  <2>2. e \in Event /\ e.id = 0
    BY DEF NoEvent, Event
  <2> HIDE DEF e
  <2>3. \A b \in Browsers : /\ stream'[b].queue \in {stream[b].queue, Append(stream[b].queue, e)}
                            /\ stream'[b].seen = stream[b].seen
    BY <1>7, <2>1, <2>2
  <2> QED BY <2>1, <2>2, <2>3, WayBroadcasts
<1>10. ASSUME NEW b \in Browsers, Connect(b) \/ Stall(b) \/ Disconnect(b) \/ HandlerStops(b)
       PROVE  WayInOrder'
  <2>1. UNCHANGED <<outbox, seq, bridge>>
    BY <1>10 DEF Connect, Stall, Disconnect, HandlerStops, Unsubscribed
  <2>2. stream[b] \in Stream /\ stream \in [Browsers -> Stream] /\ stream[b].connects \in Nat
    BY DEF BInv, StreamTyped, Stream
  <2>3. \/ stream' = [stream EXCEPT ![b] = [state |-> "open", queue |-> <<>>, seen |-> <<>>,
                                           connects |-> stream[b].connects + 1]]
        \/ stream' = [stream EXCEPT ![b] = [stream[b] EXCEPT !.state = "stalled"]]
        \/ stream' = [stream EXCEPT ![b] = [Closed EXCEPT !.connects = stream[b].connects]]
    BY <1>10 DEF Connect, Stall, Disconnect, HandlerStops, Unsubscribed
  <2>4. /\ [stream[b] EXCEPT !.state = "stalled"].queue = stream[b].queue
        /\ [stream[b] EXCEPT !.state = "stalled"].seen = stream[b].seen
        /\ [Closed EXCEPT !.connects = stream[b].connects].queue = <<>>
        /\ [Closed EXCEPT !.connects = stream[b].connects].seen = <<>>
    BY <2>2 DEF Stream, Closed
  <2>5. \A c \in Browsers :
           \/ stream'[c].queue = stream[c].queue /\ stream'[c].seen = stream[c].seen
           \/ stream'[c].queue = <<>> /\ stream'[c].seen = <<>>
    <3>1. PICK st : /\ stream' = [stream EXCEPT ![b] = st]
                    /\ \/ st.queue = stream[b].queue /\ st.seen = stream[b].seen
                       \/ st.queue = <<>> /\ st.seen = <<>>
      <4>1. CASE stream' = [stream EXCEPT ![b] = [state |-> "open", queue |-> <<>>, seen |-> <<>>,
                                                 connects |-> stream[b].connects + 1]]
        <5> DEFINE st == [state |-> "open", queue |-> <<>>, seen |-> <<>>,
                          connects |-> stream[b].connects + 1]
        <5>1. st.queue = <<>> /\ st.seen = <<>>
          OBVIOUS
        <5>2. stream' = [stream EXCEPT ![b] = st]
          BY <4>1
        <5> HIDE DEF st
        <5> QED BY <5>1, <5>2, Zenon
      <4>2. CASE stream' = [stream EXCEPT ![b] = [stream[b] EXCEPT !.state = "stalled"]]
        BY <2>4, <4>2, Zenon
      <4>3. CASE stream' = [stream EXCEPT ![b] = [Closed EXCEPT !.connects = stream[b].connects]]
        BY <2>4, <4>3, Zenon
      <4> QED BY <2>3, <4>1, <4>2, <4>3
    <3> QED BY <2>2, <3>1
  <2> QED BY <1>0, <2>1, <2>5, WayStays
<1>11. ASSUME NEW b \in Browsers, Deliver(b) PROVE WayInOrder'
  <2> DEFINE seen == IF Head(stream[b].queue).id = 0 THEN stream[b].seen
                     ELSE Append(stream[b].seen, Head(stream[b].queue))
  <2>1. /\ UNCHANGED <<outbox, seq, bridge>> /\ stream[b].queue # <<>>
        /\ stream' = [stream EXCEPT ![b].queue = Tail(stream[b].queue), ![b].seen = seen]
    BY <1>11 DEF Deliver
  <2>2. stream \in [Browsers -> Stream]
    BY DEF BInv, StreamTyped
  <2> HIDE DEF seen
  <2>3. /\ stream'[b].queue = Tail(stream[b].queue) /\ stream'[b].seen = seen
        /\ \A c \in Browsers \ {b} : stream'[c] = stream[c]
    BY <2>1, <2>2 DEF Stream
  <2> QED BY <2>1, <2>3, WayDelivers DEF seen
<1>12. ASSUME NEW b \in Browsers, BrowserStep(b) PROVE WayInOrder'
  BY <1>1, <1>10, <1>12
  DEF BrowserStep, LoadPipeline, ServeLoad, LoadArrives, OpenPanel, ServeFetch, FetchArrives
<1>13. CASE Cancel \/ ShutdownReturns \/ UNCHANGED vars
  BY <1>1, <1>13 DEF Cancel, ShutdownReturns, vars, streamVars
<1>14. ASSUME NEW p \in Publishers, StoreStep(p) PROVE WayInOrder'
  BY <1>1, <1>14 DEF StoreStep
<1> QED
  BY <1>2, <1>4, <1>5, <1>6, <1>8, <1>9, <1>10, <1>11, <1>12, <1>13, <1>14
  DEF Next, PublisherStep, BridgeStep

(* Publish numbers events under one lock and sends them under another, and *)
(* two channels and a page follow; yet a page sees the events of each      *)
(* publisher in their order, and no event twice on one connection.         *)
THEOREM StreamInOrderAlways == Spec => []StreamInOrder
<1>1. BInv /\ WayInOrder => StreamInOrder
  BY DEF WayInOrder, Orderly, InOrder, Before, StreamInOrder
<1> QED BY <1>1, BInit, BNext, WayInit, WayNext, PTL DEF Spec
-----------------------------------------------------------------------------
MInv == QueuesBounded /\ PageTyped /\ PageIsServed /\ AllGot

(* AllGot says of each event by itself what NothingMissed says of loaded   *)
(* pages.                                                                  *)
LEMMA MissedMeans == AllGot => NothingMissed
<1> SUFFICES ASSUME AllGot, NEW b \in Browsers, page[b].state = "loaded", server = "serving",
                    NEW id \in 1 .. seq
             PROVE  Accounted(b, id) \/ id \in page[b].meanwhile \cup Unhandled(b)
  BY DEF NothingMissed
<1>1. Got(b, id) \/ TooOld(b, id)
  BY DEF AllGot, Served, HasAnswer
<1>2. Shows(b) = page[b].shown
  BY DEF Shows
<1>3. HasUnhandled(stream[b].seen, id) => id \in Unhandled(b)
  BY DEF HasUnhandled, Unhandled, ToSet
<1>4. HasId(stream[b].queue, id) \/ HasId(bridge.inbox, id) => id \in UnderWay(b)
  BY DEF HasId, UnderWay, ToSet
<1>5. (\E p \in Publishers : outbox[p].event.id = id) => id \in UnderWay(b)
  BY DEF UnderWay
<1>6. (\E e \in Shows(b) : e.id = id) => id \in {e.id : e \in page[b].shown}
  BY <1>2
<1> QED BY <1>1, <1>3, <1>4, <1>5, <1>6 DEF Got, Accounted

(* Sending adds one event to a channel, and receiving takes out its head.  *)
LEMMA HasIdMoves ==
  ASSUME NEW s \in Seq(Event), NEW e \in Event, NEW id
  PROVE  /\ HasId(Append(s, e), id) <=> HasId(s, id) \/ e.id = id
         /\ s # <<>> => (HasId(s, id) <=> Head(s).id = id \/ HasId(Tail(s), id))
<1>1. /\ DOMAIN Append(s, e) = 1 .. Len(s) + 1 /\ DOMAIN s = 1 .. Len(s) /\ Len(s) \in Nat
      /\ \A i \in 1 .. Len(s) : Append(s, e)[i] = s[i]
      /\ Append(s, e)[Len(s) + 1] = e
  OBVIOUS
<1>2. HasId(Append(s, e), id) <=> HasId(s, id) \/ e.id = id
  <2>1. ASSUME HasId(Append(s, e), id) PROVE HasId(s, id) \/ e.id = id
    <3>1. PICK i \in 1 .. Len(s) + 1 : Append(s, e)[i].id = id
      BY <1>1, <2>1 DEF HasId
    <3>2. CASE i = Len(s) + 1
      BY <1>1, <3>1, <3>2
    <3>3. CASE i \in 1 .. Len(s)
      BY <1>1, <3>1, <3>3 DEF HasId
    <3> QED BY <1>1, <3>1, <3>2, <3>3
  <2>2. ASSUME HasId(s, id) PROVE HasId(Append(s, e), id)
    BY <1>1, <2>2 DEF HasId
  <2>3. ASSUME e.id = id PROVE HasId(Append(s, e), id)
    <3>1. Len(s) + 1 \in DOMAIN Append(s, e)
      BY <1>1
    <3> QED BY <1>1, <2>3, <3>1 DEF HasId
  <2> QED BY <2>1, <2>2, <2>3
<1>3. ASSUME s # <<>> PROVE HasId(s, id) <=> Head(s).id = id \/ HasId(Tail(s), id)
  <2>1. /\ Len(s) > 0 /\ DOMAIN Tail(s) = 1 .. Len(s) - 1
        /\ \A i \in 1 .. Len(s) - 1 : Tail(s)[i] = s[i + 1]
        /\ Head(s) = s[1]
    BY <1>3
  <2>2. ASSUME HasId(s, id) PROVE Head(s).id = id \/ HasId(Tail(s), id)
    <3>1. PICK i \in 1 .. Len(s) : s[i].id = id
      BY <1>1, <2>2 DEF HasId
    <3>2. CASE i = 1
      BY <2>1, <3>1, <3>2
    <3>3. CASE i # 1
      <4>1. i - 1 \in DOMAIN Tail(s) /\ Tail(s)[i - 1] = s[i]
        BY <1>1, <2>1, <3>1, <3>3
      <4> QED BY <3>1, <4>1 DEF HasId
    <3> QED BY <3>2, <3>3
  <2>3. ASSUME Head(s).id = id PROVE HasId(s, id)
    <3>1. 1 \in DOMAIN s
      BY <1>1, <2>1
    <3> QED BY <2>1, <2>3, <3>1 DEF HasId
  <2>4. ASSUME HasId(Tail(s), id) PROVE HasId(s, id)
    <3>1. PICK i \in DOMAIN Tail(s) : Tail(s)[i].id = id
      BY <2>4 DEF HasId
    <3>2. i + 1 \in DOMAIN s /\ Tail(s)[i] = s[i + 1]
      BY <1>1, <2>1, <3>1
    <3> QED BY <3>1, <3>2 DEF HasId
  <2> QED BY <2>2, <2>3, <2>4
<1> QED BY <1>2, <1>3

(* Recent answers with the last events of the history.                     *)
LEMMA RecentIsNewest ==
  ASSUME BInv, NEW id \in 1 .. seq,
         id > seq - (IF Limit < History THEN Limit ELSE History)
  PROVE  \E e \in ToSet(Recent("", Limit)) : e.id = id
<1> DEFINE n == Len(buffer)
           m == IF n < Limit THEN n ELSE Limit
           rev == Reverse(buffer)
           i == (seq - id) + 1
<1>1. /\ buffer \in Seq(Event) /\ n \in Nat /\ seq \in Nat /\ Limit \in Nat /\ History \in Nat
      /\ n = IF seq < History THEN seq ELSE History
      /\ \A k \in 1 .. n : buffer[k].id = (seq - n) + k
  <2>1. /\ buffer \in Seq(Event) /\ seq \in Nat /\ Limit \in Nat /\ History \in Nat
    BY StreamAssumption DEF BInv, StreamTyped
  <2>2. DOMAIN buffer = 1 .. n /\ n \in Nat
    BY <2>1
  <2> QED BY <2>1, <2>2 DEF BInv, HistoryIsRecent
<1>2. rev \in Seq(Event) /\ Len(rev) = n /\ \A k \in 1 .. n : rev[k] = buffer[(n - k) + 1]
  BY <1>1 DEF Reverse
<1>3. Recent("", Limit) = SubSeq(rev, 1, m)
  BY DEF Recent
<1> HIDE DEF n, rev
<1>4. m \in 0 .. n /\ i \in 1 .. m
  BY <1>1
<1>5. SubSeq(rev, 1, m)[i] = rev[i] /\ i \in DOMAIN SubSeq(rev, 1, m)
  <2> HIDE DEF m, i
  <2> QED BY <1>2, <1>4
<1>6. rev[i].id = id
  <2>1. (n - i) + 1 \in 1 .. n /\ (seq - n) + ((n - i) + 1) = id
    BY <1>1, <1>4
  <2> HIDE DEF i
  <2>2. rev[i] = buffer[(n - i) + 1]
    BY <1>1, <1>2, <1>4
  <2> QED BY <1>1, <2>1, <2>2
<1> QED BY <1>3, <1>5, <1>6 DEF ToSet

(* Before the first event nothing is missed.                               *)
LEMMA MInit == Init => MInv
<1> SUFFICES ASSUME Init PROVE MInv
  OBVIOUS
<1>1. \A b \in Browsers : stream[b].queue = <<>> /\ page[b].state = "none"
  BY DEF Init, Closed, NoPage
<1>2. QueuesBounded
  BY <1>1, StreamAssumption DEF QueuesBounded
<1>3. PageTyped
  BY DEF PageTyped, Page, Init, NoPage
<1>4. PageIsServed /\ AllGot
  BY <1>1 DEF PageIsServed, AllGot, Served, HasAnswer
<1> QED BY <1>2, <1>3, <1>4 DEF MInv

(* A step that numbers no event, and after which a page that has its       *)
(* answer still has, or will get, what it had or would get before.         *)
LEMMA StillGot ==
  ASSUME MInv, seq' = seq,
         \A b \in Browsers : Served(b)' =>
           /\ Served(b) /\ page'[b].upTo = page[b].upTo
           /\ \A id \in 1 .. seq : Got(b, id) => Got(b, id)'
  PROVE  AllGot'
<1> SUFFICES ASSUME NEW b \in Browsers, Served(b)', NEW id \in 1 .. seq
             PROVE  Got(b, id)' \/ TooOld(b, id)'
  BY DEF AllGot
<1>1. Got(b, id) \/ TooOld(b, id)
  BY DEF MInv, AllGot
<1>2. TooOld(b, id) => TooOld(b, id)'
  BY DEF TooOld
<1> QED BY <1>1, <1>2

(* The same when the page itself does not change.                          *)
LEMMA StillGotAll ==
  ASSUME MInv, seq' = seq, page' = page,
         \A b \in Browsers : Served(b)' =>
           server = "serving" /\ \A id \in 1 .. seq : Got(b, id) => Got(b, id)'
  PROVE  AllGot'
<1>1. \A b \in Browsers : Served(b)' => /\ Served(b) /\ page'[b].upTo = page[b].upTo
                                       /\ \A id \in 1 .. seq : Got(b, id) => Got(b, id)'
  BY DEF Served
<1> QED BY <1>1, StillGot

(* A step of one browser.                                                  *)
LEMMA OneBrowser ==
  ASSUME BInv, MInv, NEW b \in Browsers, NEW st \in Stream, NEW pg \in Page,
         stream' = [stream EXCEPT ![b] = st], page' = [page EXCEPT ![b] = pg],
         UNCHANGED <<outbox, seq, bridge, server>>,
         Len(st.queue) <= StreamQueue,
         \A c \in Browsers \ {b} : lost'[c] = lost[c],
         pg.state # "none" /\ server = "serving" =>
           st.state \in {"open", "stalled"} /\ bridge.state = "subscribed",
         pg.state \in HasAnswer /\ server = "serving" =>
           \A id \in 1 .. seq : Got(b, id)' \/ TooOld(b, id)'
  PROVE  MInv'
<1>1. /\ stream'[b] = st /\ \A c \in Browsers \ {b} : stream'[c] = stream[c]
      /\ page'[b] = pg /\ \A c \in Browsers \ {b} : page'[c] = page[c]
  BY DEF BInv, StreamTyped, MInv, PageTyped
<1>2. QueuesBounded'
  BY <1>1 DEF MInv, QueuesBounded
<1>3. PageTyped'
  BY DEF MInv, PageTyped
<1>4. PageIsServed'
  BY <1>1 DEF MInv, PageIsServed, Registered
<1>5. ASSUME NEW c \in Browsers, Served(c)', NEW id \in 1 .. seq
      PROVE  Got(c, id)' \/ TooOld(c, id)'
  <2>1. CASE c = b
    BY <1>1, <1>5, <2>1 DEF Served
  <2>2. CASE c # b
    <3>1. Got(c, id) \/ TooOld(c, id)
      BY <1>1, <1>5, <2>2 DEF MInv, AllGot, Served
    <3>2. Got(c, id) => Got(c, id)'
      BY <1>1, <2>2 DEF Got, Shows, HasId, HasUnhandled
    <3>3. TooOld(c, id) => TooOld(c, id)'
      BY <1>1, <2>2 DEF TooOld
    <3> QED BY <3>1, <3>2, <3>3
  <2> QED BY <2>1, <2>2
<1>6. AllGot'
  BY <1>5 DEF AllGot
<1> QED BY <1>2, <1>3, <1>4, <1>6 DEF MInv

(* An event goes to the end of what a page was sent.                       *)
LEMMA UnhandledMoves ==
  ASSUME NEW s \in Seq(Event), NEW e \in Event, NEW id
  PROVE  /\ HasUnhandled(s, id) => HasUnhandled(Append(s, e), id)
         /\ e.id = id /\ e.type \notin Handled => HasUnhandled(Append(s, e), id)
<1>1. /\ DOMAIN Append(s, e) = 1 .. Len(s) + 1 /\ DOMAIN s = 1 .. Len(s) /\ Len(s) \in Nat
      /\ \A i \in 1 .. Len(s) : Append(s, e)[i] = s[i]
      /\ Append(s, e)[Len(s) + 1] = e
  OBVIOUS
<1>2. HasUnhandled(s, id) => HasUnhandled(Append(s, e), id)
  BY <1>1 DEF HasUnhandled
<1>3. Len(s) + 1 \in DOMAIN Append(s, e)
  BY <1>1
<1>4. e.id = id /\ e.type \notin Handled => HasUnhandled(Append(s, e), id)
  BY <1>1, <1>3 DEF HasUnhandled
<1> QED BY <1>2, <1>4

(* The history's answer is made of events.                                 *)
LEMMA RecentTyped ==
  ASSUME BInv PROVE ToSet(Recent("", Limit)) \in SUBSET Event
<1> DEFINE n == Len(buffer)
           m == IF n < Limit THEN n ELSE Limit
           rev == Reverse(buffer)
<1>1. buffer \in Seq(Event) /\ n \in Nat /\ Limit \in Nat
  BY StreamAssumption DEF BInv, StreamTyped
<1>2. rev \in Seq(Event) /\ Len(rev) = n
  BY <1>1 DEF Reverse
<1>3. Recent("", Limit) = SubSeq(rev, 1, m)
  BY DEF Recent
<1> HIDE DEF n, rev
<1>4. m \in 0 .. n
  BY <1>1
<1> HIDE DEF m
<1>5. SubSeq(rev, 1, m) \in Seq(Event)
  BY <1>2, <1>4
<1> DEFINE answer == SubSeq(rev, 1, m)
<1>6. \A i \in DOMAIN answer : answer[i] \in Event
  <2> HIDE DEF answer
  <2>1. answer \in Seq(Event)
    BY <1>5 DEF answer
  <2> QED BY <2>1
<1> HIDE DEF answer
<1>7. ToSet(answer) \subseteq Event
  BY <1>6 DEF ToSet
<1> QED BY <1>3, <1>7 DEF answer

(* A page handles the next event of its stream: it shows it, or has no     *)
(* handler for it, or it is waiting for the answer that empties its        *)
(* columns.                                                                *)
LEMMA MDelivers ==
  ASSUME BInv, MInv, NEW b \in Browsers, Deliver(b)
  PROVE  MInv'
<1> DEFINE event == Head(stream[b].queue)
           seen == IF event.id = 0 THEN stream[b].seen ELSE Append(stream[b].seen, event)
           shown == IF Handles(b, event) THEN page[b].shown \cup {event} ELSE page[b].shown
           meanwhile == IF page[b].state = "answered" THEN page[b].meanwhile \cup {event.id}
                        ELSE page[b].meanwhile
           st == [stream[b] EXCEPT !.queue = Tail(stream[b].queue), !.seen = seen]
           pg == [page[b] EXCEPT !.shown = shown, !.meanwhile = meanwhile]
<1>1. /\ seq \in Nat /\ stream \in [Browsers -> Stream]
      /\ stream[b].queue \in Seq(Event) /\ stream[b].seen \in Seq(Event)
      /\ page \in [Browsers -> Page] /\ page[b] \in Page
  BY WayTyped DEF BInv, StreamTyped, MInv, PageTyped
<1>2. /\ stream[b].queue # <<>> /\ stream[b].state = "open"
      /\ stream' = [stream EXCEPT ![b].queue = Tail(stream[b].queue), ![b].seen = seen]
      /\ page' = [page EXCEPT ![b].shown = shown, ![b].meanwhile = meanwhile]
      /\ UNCHANGED <<outbox, seq, bridge, lost, server>>
  BY DEF Deliver
<1>3. event \in Event /\ Tail(stream[b].queue) \in Seq(Event) /\ seen \in Seq(Event)
  BY <1>1, <1>2
<1>4. shown \in SUBSET Event /\ meanwhile \in SUBSET Nat
  <2>1. page[b].shown \in SUBSET Event /\ page[b].meanwhile \in SUBSET Nat /\ event.id \in Nat
    BY <1>1, <1>3 DEF Page, Event
  <2> QED BY <1>3, <2>1
<1>5. /\ \A id : HasId(stream[b].queue, id) => event.id = id \/ HasId(Tail(stream[b].queue), id)
      /\ \A id : HasUnhandled(stream[b].seen, id) => HasUnhandled(seen, id)
      /\ event.id # 0 /\ event.type \notin Handled => HasUnhandled(seen, event.id)
  BY <1>1, <1>2, <1>3, HasIdMoves, UnhandledMoves
<1>6. Len(Tail(stream[b].queue)) <= StreamQueue
  BY <1>1, <1>2, StreamAssumption DEF MInv, QueuesBounded
<1>7. /\ page[b].shown \subseteq shown /\ page[b].meanwhile \subseteq meanwhile
      /\ page[b].state = "loaded" /\ event.type \in Handled => event \in shown
      /\ page[b].state = "answered" => event.id \in meanwhile
  BY DEF Handles
<1> HIDE DEF seen, event, shown, meanwhile
<1>8. /\ st \in Stream /\ st.queue = Tail(stream[b].queue) /\ st.seen = seen
      /\ st.state = "open" /\ stream' = [stream EXCEPT ![b] = st]
  BY <1>1, <1>2, <1>3 DEF Stream
<1>9. /\ pg \in Page /\ pg.state = page[b].state /\ pg.answer = page[b].answer
      /\ pg.upTo = page[b].upTo /\ pg.shown = shown /\ pg.meanwhile = meanwhile
  BY <1>1, <1>4 DEF Page
<1>10. page' = [page EXCEPT ![b] = pg]
  BY <1>1, <1>2
<1> HIDE DEF st, pg
<1>11. stream'[b] = st /\ page'[b] = pg
  BY <1>1, <1>8, <1>10
<1>12. ASSUME pg.state \in HasAnswer, server = "serving", NEW id \in 1 .. seq
       PROVE  Got(b, id)' \/ TooOld(b, id)'
  <2>1. Got(b, id) \/ TooOld(b, id)
    BY <1>9, <1>12 DEF MInv, AllGot, Served
  <2>2. TooOld(b, id) => TooOld(b, id)'
    BY <1>9, <1>11 DEF TooOld
  <2>3. CASE (\E e \in Shows(b) : e.id = id)
    <3>1. Shows(b) \subseteq Shows(b)'
      BY <1>7, <1>9, <1>11 DEF Shows
    <3> QED BY <2>3, <3>1 DEF Got
  <2>4. CASE HasId(stream[b].queue, id)
    <3>1. CASE HasId(Tail(stream[b].queue), id)
      BY <1>8, <1>11, <3>1 DEF Got, HasId
    <3>2. CASE event.id = id
      <4>1. event.id # 0
        BY <1>1, <3>2
      <4>2. CASE page[b].state = "answered"
        BY <1>7, <1>9, <1>11, <3>2, <4>2 DEF Got
      <4>3. CASE page[b].state = "loaded" /\ event.type \in Handled
        <5>1. event \in Shows(b)'
          BY <1>7, <1>9, <1>11, <4>3 DEF Shows
        <5> QED BY <3>2, <5>1 DEF Got
      <4>4. CASE event.type \notin Handled
        <5>1. HasUnhandled(stream'[b].seen, id)
          BY <1>5, <1>8, <1>11, <3>2, <4>1, <4>4
        <5> QED BY <5>1 DEF Got, HasUnhandled
      <4> QED BY <1>9, <1>12, <4>2, <4>3, <4>4 DEF HasAnswer
    <3> QED BY <1>5, <2>4, <3>1, <3>2
  <2>5. CASE HasUnhandled(stream[b].seen, id)
    <3>1. HasUnhandled(stream'[b].seen, id)
      BY <1>5, <1>8, <1>11, <2>5
    <3> QED BY <3>1 DEF Got, HasUnhandled
  <2>6. CASE id \in page[b].meanwhile
    BY <1>7, <1>9, <1>11, <2>6 DEF Got
  <2>7. CASE \/ HasId(bridge.inbox, id) \/ (\E p \in Publishers : outbox[p].event.id = id)
             \/ id \in lost[b]
    BY <1>2, <2>7 DEF Got, HasId
  <2> QED BY <2>1, <2>2, <2>3, <2>4, <2>5, <2>6, <2>7 DEF Got
<1>13. pg.state # "none" /\ server = "serving" =>
         st.state \in {"open", "stalled"} /\ bridge.state = "subscribed"
  BY <1>8, <1>9 DEF MInv, PageIsServed
<1>14. UNCHANGED <<outbox, seq, bridge, server>> /\ \A c \in Browsers \ {b} : lost'[c] = lost[c]
  BY <1>2
<1>15. Len(st.queue) <= StreamQueue
  BY <1>6, <1>8
<1>16. st \in Stream /\ pg \in Page
  BY <1>8, <1>9
<1>17. stream' = [stream EXCEPT ![b] = st]
  BY <1>8
<1> QED BY <1>10, <1>12, <1>13, <1>14, <1>15, <1>16, <1>17, OneBrowser

(* handlePipeline answers with the newest events of the history, and what  *)
(* it leaves out is too old for the limit.                                 *)
LEMMA MLoads ==
  ASSUME BInv, MInv, NEW b \in Browsers, LoadPipeline(b) \/ ServeLoad(b) \/ LoadArrives(b)
  PROVE  MInv'
<1>1. /\ seq \in Nat /\ stream \in [Browsers -> Stream] /\ stream[b] \in Stream
      /\ page \in [Browsers -> Page] /\ page[b] \in Page
      /\ Len(stream[b].queue) <= StreamQueue
      /\ stream = [stream EXCEPT ![b] = stream[b]]
  BY WayTyped DEF BInv, StreamTyped, MInv, PageTyped, QueuesBounded
<1>2. UNCHANGED <<outbox, seq, bridge, stream, lost, server>>
  BY DEF LoadPipeline, ServeLoad, LoadArrives
<1>3. CASE LoadPipeline(b)
  <2> DEFINE pg == [page[b] EXCEPT !.state = "asked"]
  <2>1. page' = [page EXCEPT ![b] = pg] /\ stream[b].state = "open" /\ bridge.state = "subscribed"
    BY <1>1, <1>3 DEF LoadPipeline
  <2>2. pg \in Page /\ pg.state = "asked"
    BY <1>1 DEF Page
  <2> HIDE DEF pg
  <2>3. pg.state \notin HasAnswer
    BY <2>2 DEF HasAnswer
  <2> QED BY <1>1, <1>2, <2>1, <2>2, <2>3, OneBrowser
<1>4. CASE ServeLoad(b)
  <2> DEFINE answer == ToSet(Recent("", Limit))
             pg == [page[b] EXCEPT !.state = "answered", !.upTo = seq, !.answer = answer]
  <2>1. answer \in SUBSET Event
    BY RecentTyped
  <2>2. page' = [page EXCEPT ![b] = pg] /\ page[b].state = "asked" /\ server = "serving"
    BY <1>1, <1>4 DEF ServeLoad
  <2> HIDE DEF answer
  <2>3. pg \in Page /\ pg.state = "answered" /\ pg.upTo = seq /\ pg.answer = answer
    BY <1>1, <2>1 DEF Page
  <2> HIDE DEF pg
  <2>4. page'[b] = pg
    BY <1>1, <2>2
  <2>5. stream[b].state \in {"open", "stalled"} /\ bridge.state = "subscribed"
    BY <2>2 DEF MInv, PageIsServed, Registered
  <2>6. ASSUME NEW id \in 1 .. seq PROVE Got(b, id)' \/ TooOld(b, id)'
    <3>1. CASE id > seq - (IF Limit < History THEN Limit ELSE History)
      <4>1. \E e \in answer : e.id = id
        BY <3>1, RecentIsNewest DEF answer
      <4>2. Shows(b)' = answer
        BY <2>3, <2>4 DEF Shows
      <4> QED BY <4>1, <4>2 DEF Got
    <3>2. CASE ~(id > seq - (IF Limit < History THEN Limit ELSE History))
      <4>1. id <= seq - (IF Limit < History THEN Limit ELSE History)
        BY <1>1, <3>2, StreamAssumption
      <4> QED BY <2>3, <2>4, <4>1 DEF TooOld
    <3> QED BY <3>1, <3>2
  <2> QED BY <1>1, <1>2, <2>2, <2>3, <2>5, <2>6, OneBrowser
<1>5. CASE LoadArrives(b)
  <2> DEFINE pg == [page[b] EXCEPT !.state = "loaded", !.shown = page[b].answer, !.answer = {}]
  <2>1. page' = [page EXCEPT ![b] = pg] /\ page[b].state = "answered"
    BY <1>1, <1>5 DEF LoadArrives
  <2>2. page[b].answer \in SUBSET Event
    BY <1>1 DEF Page
  <2>3. /\ pg \in Page /\ pg.state = "loaded" /\ pg.shown = page[b].answer
        /\ pg.upTo = page[b].upTo /\ pg.meanwhile = page[b].meanwhile
    BY <1>1, <2>2 DEF Page
  <2> HIDE DEF pg
  <2>4. page'[b] = pg
    BY <1>1, <2>1
  <2>5. server = "serving" => stream[b].state \in {"open", "stalled"} /\ bridge.state = "subscribed"
    BY <2>1 DEF MInv, PageIsServed, Registered
  <2>6. ASSUME server = "serving", NEW id \in 1 .. seq PROVE Got(b, id)' \/ TooOld(b, id)'
    <3>1. Got(b, id) \/ TooOld(b, id)
      BY <2>1, <2>6 DEF MInv, AllGot, Served, HasAnswer
    <3>2. Shows(b)' = Shows(b)
      BY <2>1, <2>3, <2>4 DEF Shows
    <3>3. Got(b, id) => Got(b, id)'
      BY <1>2, <2>3, <2>4, <3>2 DEF Got, HasId, HasUnhandled
    <3>4. TooOld(b, id) => TooOld(b, id)'
      BY <2>3, <2>4 DEF TooOld
    <3> QED BY <3>1, <3>3, <3>4
  <2> QED BY <1>1, <1>2, <2>1, <2>3, <2>5, <2>6, OneBrowser
<1> QED BY <1>3, <1>4, <1>5

(* A publisher's event is numbered, and from then on under way until the   *)
(* bridge's channel has it or drops it.                                    *)
LEMMA MPublishes ==
  ASSUME BInv, MInv, NEW p \in Publishers,
         PublishAppends(p) \/ PublishLocks(p) \/ PublishSends(p)
  PROVE  MInv'
<1>0. /\ seq \in Nat /\ bridge.inbox \in Seq(Event) /\ UNCHANGED <<stream, page>>
  BY WayTyped DEF PublishAppends, PublishLocks, PublishSends
<1>1. CASE PublishAppends(p)
  <2>1. PICK e \in Event :
           e.id = seq + 1 /\ outbox' = [outbox EXCEPT ![p] = [event |-> e, at |-> "appended"]]
    BY <1>1, AppendsOne
  <2>2. seq' = seq + 1 /\ UNCHANGED <<bridge, lost, server>> /\ outbox[p] = Idle
    BY <1>1 DEF PublishAppends
  <2>3. outbox'[p].event.id = seq + 1 /\ outbox[p].event.id = 0
        /\ \A r \in Publishers \ {p} : outbox'[r] = outbox[r]
    <3>1. Idle.event.id = 0
      BY DEF Idle, NoEvent
    <3>2. outbox'[p] = [event |-> e, at |-> "appended"]
          /\ \A r \in Publishers \ {p} : outbox'[r] = outbox[r]
      BY <2>1 DEF BInv, StreamTyped
    <3>3. [event |-> e, at |-> "appended"].event = e
      OBVIOUS
    <3> QED BY <2>1, <2>2, <3>1, <3>2, <3>3
  <2>4. AllGot'
    <3> SUFFICES ASSUME NEW b \in Browsers, Served(b), NEW id \in 1 .. seq + 1
                 PROVE  Got(b, id)' \/ TooOld(b, id)'
      BY <1>0, <2>2 DEF AllGot, Served
    <3>1. CASE id = seq + 1
      BY <2>3, <3>1 DEF Got
    <3>2. CASE id \in 1 .. seq
      <4>1. Got(b, id) \/ TooOld(b, id)
        BY <3>2 DEF MInv, AllGot
      <4>2. TooOld(b, id) => TooOld(b, id)'
        BY <1>0 DEF TooOld
      <4>3. Got(b, id) => Got(b, id)'
        BY <1>0, <2>2, <2>3, <3>2 DEF Got, Shows, HasId, HasUnhandled
      <4> QED BY <4>1, <4>2, <4>3
    <3> QED BY <1>0, <3>1, <3>2
  <2>5. QueuesBounded' /\ PageTyped' /\ PageIsServed'
    BY <1>0, <2>2 DEF MInv, QueuesBounded, PageTyped, PageIsServed, Registered
  <2> QED BY <2>4, <2>5 DEF MInv
<1>2. CASE PublishLocks(p)
  <2>1. UNCHANGED <<seq, bridge, lost, server>>
    BY <1>2 DEF PublishLocks
  <2>2. ASSUME bridge.state = "subscribed", NEW r \in Publishers
        PROVE  outbox'[r].event = outbox[r].event
    <3>1. outbox' = [outbox EXCEPT ![p].at = "sending"] /\ outbox[p].at = "appended"
      BY <1>2, <2>2 DEF PublishLocks
    <3>2. outbox[r] \in [event : Event, at : {"idle", "appended", "sending"}]
      BY DEF BInv, StreamTyped
    <3> QED BY <3>1, <3>2 DEF BInv, StreamTyped
  <2>3. ASSUME NEW b \in Browsers, Served(b)'
        PROVE  server = "serving" /\ \A id \in 1 .. seq : Got(b, id) => Got(b, id)'
    <3>1. server = "serving" /\ page[b].state # "none"
      BY <1>0, <2>1, <2>3 DEF Served, HasAnswer
    <3>2. \A r \in Publishers : outbox'[r].event = outbox[r].event
      BY <2>2, <3>1 DEF MInv, PageIsServed
    <3> QED BY <1>0, <2>1, <3>1, <3>2 DEF Got, Shows, HasId, HasUnhandled
  <2>4. AllGot'
    BY <1>0, <2>1, <2>3, StillGotAll
  <2>5. QueuesBounded' /\ PageTyped' /\ PageIsServed'
    BY <1>0, <2>1 DEF MInv, QueuesBounded, PageTyped, PageIsServed, Registered
  <2> QED BY <2>4, <2>5 DEF MInv
<1>3. CASE PublishSends(p)
  <2>1. /\ outbox[p].at = "sending" /\ outbox' = [outbox EXCEPT ![p] = Idle] /\ seq' = seq
    BY <1>3 DEF PublishSends, Published
  <2>2. bridge.state = "subscribed"
    BY <2>1 DEF BInv, SendersAreHeard
  <2>3. \/ /\ lost' = [b \in Browsers |-> IF Registered(b) THEN lost[b] \cup {outbox[p].event.id}
                                          ELSE lost[b]]
           /\ UNCHANGED <<bridge, server>>
        \/ /\ bridge' = [bridge EXCEPT !.inbox = Append(bridge.inbox, outbox[p].event)]
           /\ UNCHANGED <<lost, server>>
    BY <1>3, <2>2 DEF PublishSends
  <2>4. \/ /\ \A b \in Browsers : Registered(b) => lost'[b] = lost[b] \cup {outbox[p].event.id}
           /\ UNCHANGED <<bridge, server>>
        \/ /\ bridge'.inbox = Append(bridge.inbox, outbox[p].event) /\ bridge'.state = bridge.state
           /\ UNCHANGED <<lost, server>>
    BY <2>3 DEF BInv, StreamTyped
  <2>5. outbox[p].event \in Event /\ \A r \in Publishers \ {p} : outbox'[r] = outbox[r]
    BY <2>1 DEF BInv, StreamTyped
  <2>6. ASSUME NEW b \in Browsers, Served(b)', NEW id \in 1 .. seq, Got(b, id)
        PROVE  Got(b, id)'
    <3>1. Registered(b)
      BY <1>0, <2>4, <2>6 DEF MInv, PageIsServed, Served, HasAnswer
    <3>2. CASE \E r \in Publishers : outbox[r].event.id = id
      <4>1. PICK r \in Publishers : outbox[r].event.id = id
        BY <3>2
      <4>2. CASE r # p
        BY <2>5, <4>1, <4>2 DEF Got
      <4>3. CASE r = p
        <5>1. HasId(Append(bridge.inbox, outbox[p].event), id)
          BY <1>0, <2>5, <4>1, <4>3, HasIdMoves
        <5> QED BY <2>4, <3>1, <4>1, <4>3, <5>1 DEF Got, HasId
      <4> QED BY <4>2, <4>3
    <3>3. CASE HasId(bridge.inbox, id)
      <4>1. HasId(Append(bridge.inbox, outbox[p].event), id)
        BY <1>0, <2>5, <3>3, HasIdMoves
      <4> QED BY <2>4, <3>3, <4>1 DEF Got, HasId
    <3>4. CASE id \in lost[b]
      BY <2>4, <3>1, <3>4 DEF Got
    <3>5. CASE \/ (\E e \in Shows(b) : e.id = id) \/ HasId(stream[b].queue, id)
               \/ id \in page[b].meanwhile \/ HasUnhandled(stream[b].seen, id)
      BY <1>0, <3>5 DEF Got, Shows, HasId, HasUnhandled
    <3> QED BY <2>6, <3>2, <3>3, <3>4, <3>5 DEF Got
  <2>7. \A b \in Browsers : Served(b)' =>
           server = "serving" /\ \A id \in 1 .. seq : Got(b, id) => Got(b, id)'
    BY <2>4, <2>6 DEF Served
  <2>8. AllGot'
    BY <1>0, <2>1, <2>7, StillGotAll
  <2>9. QueuesBounded' /\ PageTyped' /\ PageIsServed'
    BY <1>0, <2>4 DEF MInv, QueuesBounded, PageTyped, PageIsServed, Registered
  <2> QED BY <2>8, <2>9 DEF MInv
<1> QED BY <1>1, <1>2, <1>3

(* Broadcast hands an event on to a stream, or counts it as lost there.    *)
LEMMA MBroadcasts ==
  ASSUME BInv, MInv, NEW e \in Event, Broadcast(e), UNCHANGED <<outbox, seq, page, server>>,
         bridge'.state = bridge.state,
         \/ /\ bridge.inbox # <<>> /\ e = Head(bridge.inbox)
            /\ bridge'.inbox = Tail(bridge.inbox)
         \/ bridge'.inbox = bridge.inbox
  PROVE  MInv'
<1>0. /\ seq \in Nat /\ bridge.inbox \in Seq(Event)
      /\ \A b \in Browsers : stream[b].queue \in Seq(Event)
  BY WayTyped
<1>1. \A b \in Browsers :
        /\ stream'[b].state = stream[b].state /\ stream'[b].seen = stream[b].seen
        /\ stream'[b].queue = IF Registered(b) /\ Len(stream[b].queue) < StreamQueue
                              THEN Append(stream[b].queue, e) ELSE stream[b].queue
        /\ lost'[b] = IF Registered(b) /\ Len(stream[b].queue) = StreamQueue
                      THEN lost[b] \cup ({e.id} \ {0}) ELSE lost[b]
  <2>1. StreamTyped
    BY DEF BInv
  <2> QED BY <2>1, BroadcastTyped
<1>2. ASSUME NEW b \in Browsers
      PROVE  Len(stream'[b].queue) <= StreamQueue
  <2>1. Len(stream[b].queue) \in Nat /\ StreamQueue \in Nat /\ Len(stream[b].queue) <= StreamQueue
    BY <1>0, StreamAssumption DEF MInv, QueuesBounded
  <2>2. Len(Append(stream[b].queue, e)) = Len(stream[b].queue) + 1
    BY <1>0
  <2>3. CASE stream'[b].queue = stream[b].queue
    BY <2>1, <2>3
  <2>4. CASE /\ Len(stream[b].queue) < StreamQueue
             /\ stream'[b].queue = Append(stream[b].queue, e)
    <3>1. Len(stream'[b].queue) = Len(stream[b].queue) + 1
      BY <2>2, <2>4
    <3> QED BY <2>1, <2>4, <3>1
  <2> QED BY <1>1, <2>3, <2>4
<1>3. ASSUME NEW b \in Browsers, Served(b)', NEW id \in 1 .. seq, Got(b, id)
      PROVE  Got(b, id)'
  <2>1. Registered(b) /\ id # 0
    BY <1>0, <1>3 DEF MInv, PageIsServed, Served, HasAnswer
  <2>2. /\ Len(stream[b].queue) \in Nat /\ StreamQueue \in Nat
        /\ Len(stream[b].queue) < StreamQueue \/ Len(stream[b].queue) = StreamQueue
    BY <1>0, StreamAssumption DEF MInv, QueuesBounded
  <2>3. \A x : HasId(Append(stream[b].queue, e), x) <=> HasId(stream[b].queue, x) \/ e.id = x
    BY <1>0, HasIdMoves
  <2>4. e.id = id => HasId(stream'[b].queue, id) \/ id \in lost'[b]
    BY <1>1, <2>1, <2>2, <2>3
  <2>5. HasId(stream[b].queue, id) => HasId(stream'[b].queue, id)
    BY <1>1, <2>3
  <2>6. HasId(bridge.inbox, id) => HasId(bridge'.inbox, id) \/ e.id = id
    BY <1>0, HasIdMoves
  <2>7. id \in lost[b] => id \in lost'[b]
    BY <1>1
  <2>8. /\ HasId(stream'[b].queue, id) => Got(b, id)'
        /\ HasId(bridge'.inbox, id) => Got(b, id)'
        /\ id \in lost'[b] => Got(b, id)'
        /\ HasUnhandled(stream[b].seen, id) => Got(b, id)'
        /\ (\E f \in Shows(b) : f.id = id) => Got(b, id)'
        /\ (\E p \in Publishers : outbox[p].event.id = id) => Got(b, id)'
        /\ id \in page[b].meanwhile => Got(b, id)'
    BY <1>1 DEF Got, Shows, HasId, HasUnhandled
  <2> QED BY <1>3, <2>4, <2>5, <2>6, <2>7, <2>8 DEF Got
<1>4. AllGot'
  <2>1. \A b \in Browsers : Served(b)' =>
           server = "serving" /\ \A id \in 1 .. seq : Got(b, id) => Got(b, id)'
    BY <1>3 DEF Served
  <2> QED BY <2>1, StillGotAll
<1>5. PageTyped' /\ PageIsServed'
  BY <1>1 DEF MInv, PageTyped, PageIsServed, Registered
<1> QED BY <1>2, <1>4, <1>5 DEF MInv, QueuesBounded

(* A connection opens, stalls or ends: a page that is followed keeps what  *)
(* it was sent.                                                            *)
LEMMA MConnects ==
  ASSUME BInv, MInv, NEW b \in Browsers,
         Connect(b) \/ Stall(b) \/ Disconnect(b) \/ HandlerStops(b)
  PROVE  MInv'
<1>1. /\ stream \in [Browsers -> Stream] /\ stream[b] \in Stream /\ stream[b].connects \in Nat
      /\ page \in [Browsers -> Page] /\ page[b] \in Page /\ page = [page EXCEPT ![b] = page[b]]
      /\ lost \in [Browsers -> SUBSET Nat]
  BY DEF BInv, StreamTyped, MInv, PageTyped, Stream
<1>2. CASE Connect(b)
  <2> DEFINE st == [state |-> "open", queue |-> <<>>, seen |-> <<>>,
                    connects |-> stream[b].connects + 1]
  <2>1. /\ stream' = [stream EXCEPT ![b] = st]
        /\ stream[b].state = "closed" /\ server = "serving"
        /\ UNCHANGED <<outbox, seq, bridge, page, lost, server>>
    BY <1>2 DEF Connect
  <2>2. st \in Stream /\ Len(st.queue) = 0
    <3>1. stream[b].connects + 1 \in Nat
      BY <1>1
    <3> HIDE DEF st
    <3>2. st = [state |-> "open", queue |-> <<>>, seen |-> <<>>,
                connects |-> stream[b].connects + 1]
      BY DEF st
    <3> QED BY <3>1, <3>2, ClosedTyped DEF Stream
  <2> HIDE DEF st
  <2>3. page[b].state = "none"
    BY <2>1 DEF MInv, PageIsServed, Registered
  <2>4. page[b].state \notin HasAnswer /\ Len(st.queue) <= StreamQueue
    BY <2>2, <2>3, StreamAssumption DEF HasAnswer
  <2> QED BY <1>1, <2>1, <2>2, <2>3, <2>4, OneBrowser
<1>3. CASE Stall(b)
  <2> DEFINE st == [stream[b] EXCEPT !.state = "stalled"]
  <2>1. /\ stream' = [stream EXCEPT ![b] = st]
        /\ UNCHANGED <<outbox, seq, bridge, page, lost, server>>
    BY <1>3 DEF Stall
  <2>2. /\ st \in Stream /\ st.queue = stream[b].queue /\ st.seen = stream[b].seen
        /\ st.state = "stalled"
    BY <1>1 DEF Stream
  <2> HIDE DEF st
  <2>3. stream'[b] = st /\ Len(st.queue) <= StreamQueue
    BY <1>1, <2>1, <2>2 DEF MInv, QueuesBounded
  <2>4. page[b].state # "none" /\ server = "serving" => bridge.state = "subscribed"
    BY DEF MInv, PageIsServed
  <2>5. ASSUME page[b].state \in HasAnswer, server = "serving", NEW id \in 1 .. seq
        PROVE  Got(b, id)' \/ TooOld(b, id)'
    <3>1. Got(b, id) \/ TooOld(b, id)
      BY <2>5 DEF MInv, AllGot, Served
    <3>2. Got(b, id) => Got(b, id)'
      BY <2>1, <2>2, <2>3 DEF Got, Shows, HasId, HasUnhandled
    <3>3. TooOld(b, id) => TooOld(b, id)'
      BY <2>1 DEF TooOld
    <3> QED BY <3>1, <3>2, <3>3
  <2> QED BY <1>1, <2>1, <2>2, <2>3, <2>4, <2>5, OneBrowser
<1>4. CASE Disconnect(b) \/ HandlerStops(b)
  <2> DEFINE st == [Closed EXCEPT !.connects = stream[b].connects]
  <2>1. /\ stream' = [stream EXCEPT ![b] = st]
        /\ page' = [page EXCEPT ![b] = NoPage] /\ lost' = [lost EXCEPT ![b] = {}]
        /\ UNCHANGED <<outbox, seq, bridge, server>>
    BY <1>4 DEF Disconnect, HandlerStops, Unsubscribed
  <2>2. st \in Stream /\ st.queue = <<>>
    <3>1. Closed.queue = <<>>
      BY DEF Closed
    <3> QED BY <1>1, <3>1, StreamSet, ClosedTyped
  <2> HIDE DEF st
  <2>3. Len(st.queue) <= StreamQueue
    BY <2>2, StreamAssumption
  <2>4. NoPage \in Page /\ NoPage.state = "none"
    BY DEF NoPage, Page
  <2>5. NoPage.state \notin HasAnswer /\ \A c \in Browsers \ {b} : lost'[c] = lost[c]
    BY <1>1, <2>1, <2>4 DEF HasAnswer
  <2> QED BY <1>1, <2>1, <2>2, <2>3, <2>4, <2>5, OneBrowser
<1> QED BY <1>2, <1>3, <1>4

(* The step of a publisher, the bridge, a browser or the server.           *)
LEMMA MNext == BInv /\ MInv /\ [Next]_vars => MInv'
<1> SUFFICES ASSUME BInv, MInv, [Next]_vars PROVE MInv'
  OBVIOUS
<1>1. ASSUME UNCHANGED <<seq, stream, page, lost, outbox>>, bridge'.inbox = bridge.inbox,
             server' = "serving" =>
               server = "serving" /\ bridge'.state \in {bridge.state, "subscribed"}
      PROVE  MInv'
  <2>1. \A b \in Browsers : Served(b)' =>
           server = "serving" /\ \A id \in 1 .. seq : Got(b, id) => Got(b, id)'
    BY <1>1 DEF Served, Got, Shows, HasId, HasUnhandled
  <2>2. AllGot'
    BY <1>1, <2>1, StillGotAll
  <2>3. QueuesBounded' /\ PageTyped' /\ PageIsServed'
    BY <1>1 DEF MInv, QueuesBounded, PageTyped, PageIsServed, Registered
  <2> QED BY <2>2, <2>3 DEF MInv
<1>2. CASE BridgeSubscribes \/ BridgeCancels
  <2>1. /\ bridge'.inbox = bridge.inbox /\ UNCHANGED <<outbox, seq, stream, page, lost, server>>
        /\ server = "serving" => bridge'.state = "subscribed"
    BY <1>2 DEF BridgeSubscribes, BridgeCancels, BInv, StreamTyped
  <2> QED BY <1>1, <2>1
<1>3. CASE BridgeForwards
  <2>1. /\ Broadcast(Head(bridge.inbox)) /\ bridge.inbox # <<>>
        /\ bridge' = [bridge EXCEPT !.inbox = Tail(bridge.inbox)]
        /\ UNCHANGED <<outbox, seq, page, server>>
    BY <1>3 DEF BridgeForwards
  <2>2. /\ bridge'.inbox = Tail(bridge.inbox) /\ bridge'.state = bridge.state
        /\ Head(bridge.inbox) \in Event
    BY <2>1 DEF BInv, StreamTyped
  <2> QED BY <2>1, <2>2, MBroadcasts
<1>4. CASE Heartbeat
  <2> DEFINE e == [NoEvent EXCEPT !.type = "overview.refresh"]
  <2>1. Broadcast(e) /\ UNCHANGED <<outbox, seq, bridge, page, server>>
    BY <1>4 DEF Heartbeat
  <2>2. e \in Event
    BY DEF NoEvent, Event
  <2> HIDE DEF e
  <2> QED BY <2>1, <2>2, MBroadcasts
<1>5. ASSUME UNCHANGED <<seq, bridge, stream, page, lost, outbox, server>> PROVE MInv'
  BY <1>1, <1>5
<1>6. ASSUME NEW b \in Browsers, BrowserStep(b) PROVE MInv'
  BY <1>5, <1>6, MConnects, MLoads DEF BrowserStep, OpenPanel, ServeFetch, FetchArrives
<1>7. CASE Cancel \/ ShutdownReturns
  <2>1. UNCHANGED <<seq, bridge, stream, page, lost, outbox>> /\ server' # "serving"
    BY <1>7 DEF Cancel, ShutdownReturns
  <2> QED BY <1>1, <2>1
<1>8. ASSUME NEW p \in Publishers, StoreStep(p) PROVE MInv'
  BY <1>5, <1>8 DEF StoreStep
<1>9. CASE UNCHANGED vars
  BY <1>5, <1>9 DEF vars, streamVars
<1> QED
  BY <1>2, <1>3, <1>4, <1>6, <1>7, <1>8, <1>9, MPublishes, MDelivers, MConnects
  DEF Next, PublisherStep, BridgeStep

(* The history of the bus and the load of the pipeline page: a page that   *)
(* loads while its stream is open misses no event except what a full       *)
(* channel dropped, what the limit cut off, what it has no handler for,    *)
(* and what came between the server's answer and its arrival, whatever the *)
(* order in which publishers, the bridge and the page run.                 *)
THEOREM NothingMissedAlways == Spec => []NothingMissed
<1>1. MInv => NothingMissed
  BY MissedMeans DEF MInv
<1> QED BY <1>1, BInit, BNext, MInit, MNext, PTL DEF Spec
-----------------------------------------------------------------------------
(* The remediation store of internal/events/remediations.go keeps its two  *)
(* indexes exact, for every capacity and every set of programs.            *)
Remediation == [scan : Scans, resources : Seq(Resources), created : Nat, merged : BOOLEAN,
                resolved : SUBSET Resources]

(* A store, as removeLocked passes it on: its remediations and its two     *)
(* indexes.                                                                *)
IsStore(st) ==
  /\ DOMAIN st.byKey \subseteq Keys /\ IsFiniteSet(DOMAIN st.byKey)
  /\ st.byKey \in [DOMAIN st.byKey -> Remediation]
  /\ st.scans \in [Scans -> Seq(Keys)] /\ st.resources \in [Resources -> Seq(Keys)]

Exact(st) ==
  /\ \A s \in Scans : /\ ToSet(st.scans[s]) = {k \in DOMAIN st.byKey : st.byKey[k].scan = s}
                      /\ IsInjective(st.scans[s])
  /\ \A r \in Resources :
       /\ ToSet(st.resources[r]) = {k \in DOMAIN st.byKey : Contains(st.byKey[k].resources, r)}
       /\ IsInjective(st.resources[r])
-----------------------------------------------------------------------------
(* The eviction loop of evictIfOverCapacity, when it has nothing to do and *)
(* when it removes one remediation.                                        *)
LEMMA EvictNone ==
  ASSUME NEW st
  PROVE  FoldSet(LAMBDA j, s : removeLocked(s, j), st, {}) = st
<1> DEFINE F(f) == [s \in SUBSET {} |->
                      IF s = {} THEN st
                      ELSE removeLocked(f[s \ {CHOOSE x \in s : TRUE}], CHOOSE x \in s : TRUE)]
           g == [s \in SUBSET {} |-> st]
<1>1. \A f : F(f) = g
  OBVIOUS
<1>2. g[{}] = st
  OBVIOUS
<1> HIDE DEF g, F
<1>3. (CHOOSE f : f = F(f)) = F(CHOOSE f : f = F(f))
  BY <1>1
<1>4. FoldSet(LAMBDA j, s : removeLocked(s, j), st, {}) = (CHOOSE f : f = F(f))[{}]
  BY DEF FoldSet, MapThenFoldSet, F
<1> QED BY <1>1, <1>2, <1>3, <1>4

(* The same loop over one remediation is one removeLocked.                 *)
LEMMA EvictOne ==
  ASSUME NEW st, NEW k
  PROVE  FoldSet(LAMBDA j, s : removeLocked(s, j), st, {k}) = removeLocked(st, k)
<1> DEFINE F(f) == [s \in SUBSET {k} |->
                      IF s = {} THEN st
                      ELSE removeLocked(f[s \ {CHOOSE x \in s : TRUE}], CHOOSE x \in s : TRUE)]
           g == [s \in SUBSET {k} |-> IF s = {} THEN st ELSE removeLocked(st, k)]
<1>1. (CHOOSE x \in {k} : TRUE) = k
  OBVIOUS
<1>2. \A f : f = F(f) => f[{}] = st /\ f[{k}] = removeLocked(f[{}], k)
  <2> SUFFICES ASSUME NEW f, f = F(f) PROVE f[{}] = st /\ f[{k}] = removeLocked(f[{}], k)
    OBVIOUS
  <2>1. {} \in SUBSET {k} /\ {k} \in SUBSET {k} /\ {k} # {} /\ {k} \ {k} = {}
    OBVIOUS
  <2>2. F(f)[{}] = st
    BY <2>1
  <2>3. F(f)[{k}] = removeLocked(f[{k} \ {k}], k)
    BY <2>1, <1>1
  <2> QED BY <2>1, <2>2, <2>3
<1>3. g = F(g)
  <2>1. g[{}] = st
    OBVIOUS
  <2>2. ASSUME NEW s \in SUBSET {k}, s # {} PROVE s = {k}
    BY <2>2
  <2>3. ASSUME NEW s \in SUBSET {k} PROVE g[s] = F(g)[s]
    <3>1. CASE s = {}
     BY <3>1
    <3>2. CASE s = {k}
      <4>1. g[s] = removeLocked(st, k)
        BY <3>2
      <4>2. F(g)[s] = removeLocked(g[{k} \ {k}], k)
        BY <3>2, <1>1
      <4>3. {k} \ {k} = {}
        OBVIOUS
      <4> QED BY <4>1, <4>2, <4>3, <2>1
    <3> QED BY <2>2, <3>1, <3>2
  <2> QED BY <2>3
<1> HIDE DEF g, F
<1>4. (CHOOSE f : f = F(f)) = F(CHOOSE f : f = F(f))
  BY <1>3
<1>5. FoldSet(LAMBDA j, s : removeLocked(s, j), st, {k}) = (CHOOSE f : f = F(f))[{k}]
  BY DEF FoldSet, MapThenFoldSet, F
<1> QED BY <1>2, <1>4, <1>5

(* There is an oldest remediation.                                         *)
LEMMA MinNat ==
  ASSUME NEW T \in SUBSET Nat, T # {}
  PROVE  \E x \in T : \A y \in T : x <= y
<1> DEFINE R == OpToRel(<, Nat)
<1>1. R = {ss \in Nat \X Nat : ss[1] < ss[2]}
  BY DEF OpToRel
<1>2. IsWellFoundedOn(R, Nat)
  BY NatLessThanWellFounded
<1> HIDE DEF R
<1>3. \E x \in T : \A y \in T : ~(<<y, x>> \in R)
  BY <1>2, WFMin
<1>4. PICK x \in T : \A y \in T : ~(<<y, x>> \in R)
  BY <1>3
<1>5. ASSUME NEW y \in T PROVE x <= y
  <2>1. <<y, x>> \in Nat \X Nat /\ ~(<<y, x>> \in R)
    BY <1>4
  <2>2. ~(<<y, x>>[1] < <<y, x>>[2])
    BY <1>1, <2>1
  <2> QED BY <2>1, <2>2
<1> QED BY <1>5

(* The concatenation of two lists of keys, place by place.                 *)
LEMMA Concat ==
  ASSUME NEW a \in Seq(Keys), NEW b \in Seq(Keys)
  PROVE  /\ a \o b \in Seq(Keys) /\ Len(a \o b) = Len(a) + Len(b)
         /\ \A j \in 1 .. Len(a) + Len(b) :
              (a \o b)[j] = IF j <= Len(a) THEN a[j] ELSE b[j - Len(a)]
OBVIOUS

(* removeString on a list without duplicates removes exactly the string.   *)
LEMMA RemoveFirstExact ==
  ASSUME NEW s \in Seq(Keys), IsInjective(s), NEW k
  PROVE  /\ RemoveFirst(s, k) \in Seq(Keys) /\ IsInjective(RemoveFirst(s, k))
         /\ ToSet(RemoveFirst(s, k)) = ToSet(s) \ {k}
<1>1. CASE ~\E i \in 1 .. Len(s) : s[i] = k
  <2>1. RemoveFirst(s, k) = s
    BY <1>1 DEF RemoveFirst
  <2>2. k \notin ToSet(s)
    BY <1>1 DEF ToSet
  <2> QED BY <2>1, <2>2
<1>2. CASE \E i \in 1 .. Len(s) : s[i] = k
  <2>1. PICK i \in 1 .. Len(s) : s[i] = k
    BY <1>2
  <2> DEFINE t == RemoveAt(s, i)
  <2>2. {j \in 1 .. Len(s) : s[j] = k} = {i}
    BY <2>1 DEF IsInjective
  <2>3. Min({i}) = i
    BY <2>1 DEF Min
  <2>4. SelectInSeq(s, LAMBDA v : v = k) = i
    BY <2>2, <2>3 DEF SelectInSeq
  <2>5. RemoveFirst(s, k) = t
    BY <1>2, <2>4 DEF RemoveFirst
  <2>6. /\ t \in Seq(Keys) /\ Len(t) = Len(s) - 1
        /\ \A j \in 1 .. Len(s) - 1 : t[j] = IF j < i THEN s[j] ELSE s[j + 1]
    <3>1. /\ SubSeq(s, 1, i - 1) \in Seq(Keys) /\ Len(SubSeq(s, 1, i - 1)) = i - 1
          /\ \A j \in 1 .. i - 1 : SubSeq(s, 1, i - 1)[j] = s[j]
      OBVIOUS
    <3>2. /\ SubSeq(s, i + 1, Len(s)) \in Seq(Keys)
          /\ Len(SubSeq(s, i + 1, Len(s))) = Len(s) - i
          /\ \A j \in 1 .. Len(s) - i : SubSeq(s, i + 1, Len(s))[j] = s[i + j]
      OBVIOUS
    <3> DEFINE a == SubSeq(s, 1, i - 1)
               b == SubSeq(s, i + 1, Len(s))
    <3>3. t = a \o b
      BY DEF RemoveAt
    <3>4. Len(s) \in Nat /\ i \in Nat /\ 1 <= i /\ i <= Len(s)
      OBVIOUS
    <3> HIDE DEF a, b, t
    <3>5. /\ a \in Seq(Keys) /\ b \in Seq(Keys) /\ Len(a) = i - 1 /\ Len(b) = Len(s) - i
      BY <3>1, <3>2 DEF a, b
    <3>6. /\ a \o b \in Seq(Keys) /\ Len(a \o b) = Len(a) + Len(b)
          /\ \A j \in 1 .. Len(a) + Len(b) :
               (a \o b)[j] = IF j <= Len(a) THEN a[j] ELSE b[j - Len(a)]
      BY <3>5, Concat
    <3>7. Len(a) + Len(b) = Len(s) - 1
      BY <3>4, <3>5
    <3>8. ASSUME NEW j \in 1 .. Len(s) - 1
          PROVE  t[j] = IF j < i THEN s[j] ELSE s[j + 1]
      <4>1. t[j] = IF j <= i - 1 THEN a[j] ELSE b[j - (i - 1)]
        BY <3>3, <3>5, <3>6, <3>7
      <4>2. CASE j < i
        <5>1. j \in 1 .. i - 1 /\ j <= i - 1
          BY <3>4, <4>2
        <5> QED BY <3>1, <4>1, <4>2, <5>1 DEF a
      <4>3. CASE ~(j < i)
        <5>1. j - (i - 1) \in 1 .. Len(s) - i /\ ~(j <= i - 1) /\ i + (j - (i - 1)) = j + 1
          BY <3>4, <4>3
        <5> QED BY <3>2, <4>1, <4>3, <5>1 DEF b
      <4> QED BY <4>2, <4>3
    <3> QED BY <3>3, <3>6, <3>7, <3>8
  <2> HIDE DEF t
  <2>7. IsInjective(t)
    <3> SUFFICES ASSUME NEW x \in 1 .. Len(s) - 1, NEW y \in 1 .. Len(s) - 1, t[x] = t[y]
                 PROVE  x = y
      BY <2>6 DEF IsInjective
    <3> DEFINE f(j) == IF j < i THEN j ELSE j + 1
    <3>1. t[x] = s[f(x)] /\ t[y] = s[f(y)]
      BY <2>6
    <3>2. f(x) \in 1 .. Len(s) /\ f(y) \in 1 .. Len(s)
      OBVIOUS
    <3>3. DOMAIN s = 1 .. Len(s)
      OBVIOUS
    <3> HIDE DEF f
    <3>4. f(x) = f(y)
      BY <3>1, <3>2, <3>3 DEF IsInjective
    <3> QED BY <3>4 DEF f
  <2>8. ToSet(t) = ToSet(s) \ {k}
    <3>1. ASSUME NEW x \in ToSet(t) PROVE x \in ToSet(s) \ {k}
      BY <2>1, <2>6, <3>1 DEF ToSet, IsInjective
    <3>2. ASSUME NEW x \in ToSet(s) \ {k} PROVE x \in ToSet(t)
      <4>1. PICK j \in 1 .. Len(s) : s[j] = x
        BY <3>2 DEF ToSet
      <4>2. CASE j < i
        BY <2>6, <4>1, <4>2 DEF ToSet
      <4>3. CASE j > i
        <5>1. j - 1 \in 1 .. Len(s) - 1 /\ t[j - 1] = s[j]
          BY <2>6, <4>3
        <5> QED BY <2>6, <4>1, <5>1 DEF ToSet
      <4> QED BY <2>1, <3>2, <4>1, <4>2, <4>3
    <3> QED BY <3>1, <3>2
  <2> QED BY <2>5, <2>6, <2>7, <2>8
<1> QED BY <1>1, <1>2

(* appendUnique keeps a list without duplicates and adds the string.       *)
LEMMA AppendUniqueExact ==
  ASSUME NEW s \in Seq(Keys), IsInjective(s), NEW k \in Keys
  PROVE  /\ appendUnique(s, k) \in Seq(Keys) /\ IsInjective(appendUnique(s, k))
         /\ ToSet(appendUnique(s, k)) = ToSet(s) \cup {k}
<1>1. CASE Contains(s, k)
  BY <1>1 DEF appendUnique, Contains, ToSet
<1>2. CASE ~Contains(s, k)
  <2> DEFINE t == Append(s, k)
  <2>1. /\ t \in Seq(Keys) /\ DOMAIN t = 1 .. Len(s) + 1 /\ t[Len(s) + 1] = k
        /\ \A i \in 1 .. Len(s) : t[i] = s[i]
        /\ DOMAIN s = 1 .. Len(s) /\ Len(s) \in Nat
    OBVIOUS
  <2>2. appendUnique(s, k) = t
    BY <1>2 DEF appendUnique
  <2> HIDE DEF t
  <2>3. \A i \in DOMAIN t : i = Len(s) + 1 \/ i \in DOMAIN s
    BY <2>1
  <2>4. IsInjective(t)
    BY <1>2, <2>1, <2>3 DEF IsInjective, Contains
  <2>5. ToSet(t) = ToSet(s) \cup {k}
    BY <2>1, <2>3 DEF ToSet
  <2> QED BY <2>1, <2>2, <2>4, <2>5
<1> QED BY <1>1, <1>2
-----------------------------------------------------------------------------
(* removeLocked takes the remediation out of the map and out of every      *)
(* entry that names it, and nothing else.                                  *)
LEMMA RemoveStore ==
  ASSUME NEW st, IsStore(st), Exact(st), NEW k
  PROVE  /\ IsStore(removeLocked(st, k)) /\ Exact(removeLocked(st, k))
         /\ DOMAIN removeLocked(st, k).byKey = DOMAIN st.byKey \ {k}
         /\ \A j \in DOMAIN st.byKey \ {k} : removeLocked(st, k).byKey[j] = st.byKey[j]
<1>1. CASE k \notin DOMAIN st.byKey
  <2>1. removeLocked(st, k) = st
    BY <1>1 DEF removeLocked
  <2> QED BY <1>1, <2>1
<1>2. CASE k \in DOMAIN st.byKey
  <2> DEFINE b == st.byKey
             nb == [x \in DOMAIN b \ {k} |-> b[x]]
             ns == Unindexed(st.scans, {b[k].scan}, k)
             nr == Unindexed(st.resources, ToSet(b[k].resources), k)
  <2>1. removeLocked(st, k) = [byKey |-> nb, scans |-> ns, resources |-> nr]
    BY <1>2 DEF removeLocked, Restrict
  <2>2. b[k] \in Remediation /\ b \in [DOMAIN b -> Remediation] /\ DOMAIN b \subseteq Keys
    BY <1>2 DEF IsStore
  <2>3. /\ DOMAIN nb = DOMAIN b \ {k} /\ \A j \in DOMAIN b \ {k} : nb[j] = b[j]
        /\ nb \in [DOMAIN b \ {k} -> Remediation]
    BY <2>2
  <2>4. IsFiniteSet(DOMAIN b \ {k})
    BY FS_RemoveElement DEF IsStore
  <2>5. ASSUME NEW s \in Scans
        PROVE  /\ ns[s] \in Seq(Keys) /\ IsInjective(ns[s])
               /\ ToSet(ns[s]) = {j \in DOMAIN nb : nb[j].scan = s}
    <3>1. /\ st.scans[s] \in Seq(Keys) /\ IsInjective(st.scans[s]) /\ s \in DOMAIN st.scans
          /\ ToSet(st.scans[s]) = {j \in DOMAIN b : b[j].scan = s}
      BY DEF IsStore, Exact
    <3>2. CASE s = b[k].scan
      <4>1. ns[s] = RemoveFirst(st.scans[s], k)
        BY <3>1, <3>2 DEF Unindexed
      <4>2. /\ ns[s] \in Seq(Keys) /\ IsInjective(ns[s])
            /\ ToSet(ns[s]) = ToSet(st.scans[s]) \ {k}
        BY <3>1, <4>1, RemoveFirstExact
      <4> HIDE DEF ns, nb
      <4> QED BY <2>3, <3>1, <4>2
    <3>3. CASE s # b[k].scan
      <4>1. ns[s] = st.scans[s]
        BY <3>1, <3>3 DEF Unindexed
      <4> HIDE DEF ns, nb
      <4> QED BY <2>3, <3>1, <3>3, <4>1
    <3> QED BY <3>2, <3>3
  <2>6. ASSUME NEW r \in Resources
        PROVE  /\ nr[r] \in Seq(Keys) /\ IsInjective(nr[r])
               /\ ToSet(nr[r]) = {j \in DOMAIN nb : Contains(nb[j].resources, r)}
    <3>1. /\ st.resources[r] \in Seq(Keys) /\ IsInjective(st.resources[r])
          /\ r \in DOMAIN st.resources
          /\ ToSet(st.resources[r]) = {j \in DOMAIN b : Contains(b[j].resources, r)}
      BY DEF IsStore, Exact
    <3>2. r \in ToSet(b[k].resources) <=> Contains(b[k].resources, r)
      BY <2>2 DEF ToSet, Contains, Remediation
    <3>3. CASE r \in ToSet(b[k].resources)
      <4>1. nr[r] = RemoveFirst(st.resources[r], k)
        BY <3>1, <3>3 DEF Unindexed
      <4>2. /\ nr[r] \in Seq(Keys) /\ IsInjective(nr[r])
            /\ ToSet(nr[r]) = ToSet(st.resources[r]) \ {k}
        BY <3>1, <4>1, RemoveFirstExact
      <4> HIDE DEF nr, nb
      <4> QED BY <2>3, <3>1, <4>2
    <3>4. CASE r \notin ToSet(b[k].resources)
      <4>1. nr[r] = st.resources[r]
        BY <3>1, <3>4 DEF Unindexed
      <4> HIDE DEF nr, nb
      <4> QED BY <2>3, <3>1, <3>2, <3>4, <4>1
    <3> QED BY <3>3, <3>4
  <2>7. ns = [s \in Scans |-> ns[s]] /\ nr = [r \in Resources |-> nr[r]]
    BY DEF IsStore, Unindexed
  <2> HIDE DEF nb, ns, nr
  <2>8. ns \in [Scans -> Seq(Keys)] /\ nr \in [Resources -> Seq(Keys)]
    BY <2>5, <2>6, <2>7
  <2>9. IsStore(removeLocked(st, k))
    BY <2>1, <2>2, <2>3, <2>4, <2>8 DEF IsStore
  <2>10. Exact(removeLocked(st, k))
    BY <2>1, <2>5, <2>6 DEF Exact
  <2> QED BY <2>1, <2>3, <2>9, <2>10
<1> QED BY <1>1, <1>2

(* A remediation under a new key, entered in both indexes.                 *)
Added(st, k, rec) ==
  [byKey |-> Put(st.byKey, k, rec), scans |-> Indexed(st.scans, {rec.scan}, k),
   resources |-> Indexed(st.resources, ToSet(rec.resources), k)]

(* Upsert enters the remediation in the map and in every entry it names.   *)
LEMMA AddStore ==
  ASSUME NEW st, IsStore(st), Exact(st), NEW k \in Keys, k \notin DOMAIN st.byKey,
         NEW rec \in Remediation
  PROVE  /\ IsStore(Added(st, k, rec)) /\ Exact(Added(st, k, rec))
         /\ DOMAIN Added(st, k, rec).byKey = DOMAIN st.byKey \cup {k}
         /\ Added(st, k, rec).byKey[k] = rec
         /\ \A j \in DOMAIN st.byKey : Added(st, k, rec).byKey[j] = st.byKey[j]
<1> DEFINE b == st.byKey
           nb == Put(b, k, rec)
           ns == Indexed(st.scans, {rec.scan}, k)
           nr == Indexed(st.resources, ToSet(rec.resources), k)
<1>1. Added(st, k, rec) = [byKey |-> nb, scans |-> ns, resources |-> nr]
  BY DEF Added
<1>2. b \in [DOMAIN b -> Remediation] /\ DOMAIN b \subseteq Keys
  BY DEF IsStore
<1>3. nb = [x \in DOMAIN b \cup {k} |-> IF x = k THEN rec ELSE b[x]]
  BY DEF Put
<1>4. /\ DOMAIN nb = DOMAIN b \cup {k} /\ \A j \in DOMAIN b : nb[j] = b[j]
      /\ nb[k] = rec
      /\ nb \in [DOMAIN b \cup {k} -> Remediation]
  BY <1>2, <1>3
<1>5. IsFiniteSet(DOMAIN b \cup {k})
  BY FS_AddElement DEF IsStore
<1>6. ASSUME NEW s \in Scans
      PROVE  /\ ns[s] \in Seq(Keys) /\ IsInjective(ns[s])
             /\ ToSet(ns[s]) = {j \in DOMAIN nb : nb[j].scan = s}
  <2>1. /\ st.scans[s] \in Seq(Keys) /\ IsInjective(st.scans[s]) /\ s \in DOMAIN st.scans
        /\ ToSet(st.scans[s]) = {j \in DOMAIN b : b[j].scan = s}
    BY DEF IsStore, Exact
  <2>2. CASE s = rec.scan
    <3>1. ns[s] = appendUnique(st.scans[s], k)
      BY <2>1, <2>2 DEF Indexed
    <3>2. /\ ns[s] \in Seq(Keys) /\ IsInjective(ns[s])
          /\ ToSet(ns[s]) = ToSet(st.scans[s]) \cup {k}
      BY <2>1, <3>1, AppendUniqueExact
    <3> HIDE DEF ns, nb
    <3> QED BY <1>4, <2>1, <2>2, <3>2
  <2>3. CASE s # rec.scan
    <3>1. ns[s] = st.scans[s]
      BY <2>1, <2>3 DEF Indexed
    <3> HIDE DEF ns, nb
    <3> QED BY <1>4, <2>1, <2>3, <3>1
  <2> QED BY <2>2, <2>3
<1>7. ASSUME NEW r \in Resources
      PROVE  /\ nr[r] \in Seq(Keys) /\ IsInjective(nr[r])
             /\ ToSet(nr[r]) = {j \in DOMAIN nb : Contains(nb[j].resources, r)}
  <2>1. /\ st.resources[r] \in Seq(Keys) /\ IsInjective(st.resources[r])
        /\ r \in DOMAIN st.resources
        /\ ToSet(st.resources[r]) = {j \in DOMAIN b : Contains(b[j].resources, r)}
    BY DEF IsStore, Exact
  <2>2. r \in ToSet(rec.resources) <=> Contains(rec.resources, r)
    BY DEF ToSet, Contains, Remediation
  <2>3. CASE r \in ToSet(rec.resources)
    <3>1. nr[r] = appendUnique(st.resources[r], k)
      BY <2>1, <2>3 DEF Indexed
    <3>2. /\ nr[r] \in Seq(Keys) /\ IsInjective(nr[r])
          /\ ToSet(nr[r]) = ToSet(st.resources[r]) \cup {k}
      BY <2>1, <3>1, AppendUniqueExact
    <3> HIDE DEF nr, nb
    <3> QED BY <1>4, <2>1, <2>2, <2>3, <3>2
  <2>4. CASE r \notin ToSet(rec.resources)
    <3>1. nr[r] = st.resources[r]
      BY <2>1, <2>4 DEF Indexed
    <3> HIDE DEF nr, nb
    <3> QED BY <1>4, <2>1, <2>2, <2>4, <3>1
  <2> QED BY <2>3, <2>4
<1>8. ns = [s \in Scans |-> ns[s]] /\ nr = [r \in Resources |-> nr[r]]
  BY DEF IsStore, Indexed
<1> HIDE DEF nb, ns, nr
<1>9. ns \in [Scans -> Seq(Keys)] /\ nr \in [Resources -> Seq(Keys)]
  BY <1>6, <1>7, <1>8
<1>10. IsStore(Added(st, k, rec))
  BY <1>1, <1>2, <1>4, <1>5, <1>9 DEF IsStore
<1>11. Exact(Added(st, k, rec))
  BY <1>1, <1>6, <1>7 DEF Exact
<1> QED BY <1>1, <1>4, <1>10, <1>11
-----------------------------------------------------------------------------
(* The remediations of a store were created at different times.            *)
Dated(kept) == \A j, k \in DOMAIN kept : kept[j].created = kept[k].created => j = k
Within(kept, n) == Capacity > 0 => Cardinality(DOMAIN kept) <= n

(* evictIfOverCapacity finds at most one remediation to remove, because    *)
(* every Upsert adds at most one: the oldest.                              *)
LEMMA EvictedOldest ==
  ASSUME NEW kept, IsFiniteSet(DOMAIN kept), kept \in [DOMAIN kept -> Remediation],
         Dated(kept), Within(kept, Capacity + 1)
  PROVE  \/ Evicted(kept) = {} /\ Within(kept, Capacity)
         \/ /\ Capacity > 0 /\ Cardinality(DOMAIN kept) = Capacity + 1
            /\ \E k \in DOMAIN kept : Evicted(kept) = {k}
<1> DEFINE D == DOMAIN kept
           Older(k) == {j \in D : kept[j].created < kept[k].created}
           excess == IF Capacity = 0 THEN 0 ELSE Cardinality(D) - Capacity
<1>1. Capacity \in Nat /\ Cardinality(D) \in Nat
  BY StoreAssumption, FS_CardinalityType
<1>2. Evicted(kept) = {k \in D : Cardinality(Older(k)) < excess}
  BY DEF Evicted
<1>3. ASSUME NEW k \in D
      PROVE  Cardinality(Older(k)) \in Nat /\ (Cardinality(Older(k)) = 0 <=> Older(k) = {})
  <2>1. IsFiniteSet(Older(k))
    BY FS_Subset
  <2> QED BY <2>1, FS_CardinalityType, FS_EmptySet
<1>4. \A k \in D : kept[k].created \in Nat
  BY DEF Remediation
<1> HIDE DEF Older
<1>5. CASE Capacity = 0 \/ Cardinality(D) <= Capacity
  <2>1. excess \in Int /\ excess <= 0
    BY <1>1, <1>5
  <2> HIDE DEF excess
  <2>2. Evicted(kept) = {}
    BY <1>2, <1>3, <2>1
  <2> QED BY <1>1, <1>5, <2>2 DEF Within
<1>6. CASE Capacity > 0 /\ Cardinality(D) = Capacity + 1
  <2>1. excess = 1
    BY <1>1, <1>6
  <2> HIDE DEF excess
  <2>2. D # {}
    BY <1>1, <1>6, FS_EmptySet
  <2>3. {kept[k].created : k \in D} \in SUBSET Nat /\ {kept[k].created : k \in D} # {}
    BY <1>4, <2>2
  <2>4. PICK x \in {kept[k].created : k \in D} : \A y \in {kept[k].created : k \in D} : x <= y
    BY <2>3, MinNat
  <2>5. PICK k \in D : x = kept[k].created
    BY <2>4
  <2>6. \A j \in D : kept[k].created <= kept[j].created
    BY <2>4, <2>5
  <2>7. Older(k) = {}
    BY <1>4, <2>6 DEF Older
  <2>8. \A j \in D : Older(j) = {} => j = k
    <3> SUFFICES ASSUME NEW j \in D, Older(j) = {} PROVE j = k
      OBVIOUS
    <3>1. ~(kept[k].created < kept[j].created)
      BY DEF Older
    <3>2. kept[j].created = kept[k].created
      BY <1>4, <2>6, <3>1
    <3> QED BY <3>2 DEF Dated
  <2>9. \A j \in D : Cardinality(Older(j)) < 1 <=> Older(j) = {}
    BY <1>3
  <2>10. Evicted(kept) = {k}
    BY <1>2, <2>1, <2>7, <2>8, <2>9
  <2> QED BY <1>6, <2>10
<1> QED BY <1>1, <1>5, <1>6 DEF Within
-----------------------------------------------------------------------------
Store == [byKey |-> byKey, scans |-> scanToKeys, resources |-> resourceToKeys]

(* The inductive invariant: the store is one whose indexes are exact, it   *)
(* is within its capacity, its remediations have times of their own, all   *)
(* past, and resolved resources are among the remediation's own.           *)
KInv ==
  /\ IsStore(Store) /\ Exact(Store) /\ clock \in Nat
  /\ Dated(byKey) /\ \A k \in DOMAIN byKey : byKey[k].created < clock
  /\ Within(byKey, Capacity)
  /\ \A k \in DOMAIN byKey : byKey[k].resolved \subseteq ToSet(byKey[k].resources)

(* What IsStore says of the variables.                                     *)
LEMMA StoreMeans ==
  IsStore(Store) <=>
    /\ DOMAIN byKey \subseteq Keys /\ IsFiniteSet(DOMAIN byKey)
    /\ byKey \in [DOMAIN byKey -> Remediation]
    /\ scanToKeys \in [Scans -> Seq(Keys)] /\ resourceToKeys \in [Resources -> Seq(Keys)]
BY DEF IsStore, Store

(* The store starts empty.                                                 *)
LEMMA KInit == Init => KInv
<1> SUFFICES ASSUME Init PROVE KInv
  OBVIOUS
<1>1. /\ byKey = << >> /\ clock = 0 /\ scanToKeys = [s \in Scans |-> << >>]
      /\ resourceToKeys = [r \in Resources |-> << >>]
  BY DEF Init, StoreInit
<1>2. DOMAIN byKey = {} /\ byKey \in [{} -> Remediation]
  BY <1>1
<1>3. << >> \in Seq(Keys) /\ ToSet(<< >>) = {} /\ IsInjective(<< >>)
  BY DEF ToSet, IsInjective
<1>4. IsFiniteSet({}) /\ Cardinality({}) = 0
  BY FS_EmptySet
<1>5. IsStore(Store)
  <2>1. scanToKeys \in [Scans -> Seq(Keys)] /\ resourceToKeys \in [Resources -> Seq(Keys)]
    BY <1>1, <1>3
  <2> QED BY <1>2, <1>4, <2>1, StoreMeans
<1>6. Exact(Store)
  BY <1>1, <1>2, <1>3 DEF Exact, Store
<1>7. Within(byKey, Capacity)
  BY <1>2, <1>4, StoreAssumption DEF Within
<1> QED BY <1>1, <1>2, <1>5, <1>6, <1>7 DEF KInv, Dated

(* Upsert: the old references go, the remediation comes, and if that is    *)
(* one too many the oldest leaves.                                         *)
LEMMA KUpsert ==
  ASSUME KInv, NEW key \in Keys, NEW proposal \in Proposal, Upsert(key, proposal)
  PROVE  KInv'
<1> DEFINE old == removeLocked(Store, key)
           rec == Fresh(proposal)
           new == Added(old, key, rec)
           store == FoldSet(LAMBDA k, s : removeLocked(s, k), new, Evicted(new.byKey))
<1>1. /\ byKey' = store.byKey /\ scanToKeys' = store.scans
      /\ resourceToKeys' = store.resources /\ clock' = clock + 1
  BY DEF Upsert, Added, Fresh, Store
<1>2. /\ rec \in Remediation /\ rec.created = clock /\ rec.resolved = {}
  BY DEF KInv, Fresh, Remediation, Proposal
<1> HIDE DEF rec
<1>3. /\ IsStore(old) /\ Exact(old) /\ DOMAIN old.byKey = DOMAIN byKey \ {key}
      /\ \A j \in DOMAIN byKey \ {key} : old.byKey[j] = byKey[j]
  <2>1. IsStore(Store) /\ Exact(Store) /\ Store.byKey = byKey
    BY DEF KInv, Store
  <2> QED BY <2>1, RemoveStore
<1> HIDE DEF old
<1>4. /\ IsStore(new) /\ Exact(new) /\ DOMAIN new.byKey = (DOMAIN byKey \ {key}) \cup {key}
      /\ new.byKey[key] = rec
      /\ \A j \in DOMAIN byKey \ {key} : new.byKey[j] = byKey[j]
  <2>1. key \notin DOMAIN old.byKey
    BY <1>3
  <2> QED BY <1>2, <1>3, <2>1, AddStore
<1> HIDE DEF new
<1>5. /\ byKey \in [DOMAIN byKey -> Remediation] /\ IsFiniteSet(DOMAIN byKey) /\ clock \in Nat
      /\ \A k \in DOMAIN byKey : byKey[k].created \in Nat /\ byKey[k].created < clock
  BY StoreMeans DEF KInv, Remediation
<1>6. \A k \in DOMAIN new.byKey :
        /\ new.byKey[k].created \in Nat /\ new.byKey[k].created < clock + 1
        /\ new.byKey[k].created = clock <=> k = key
        /\ new.byKey[k].resolved \subseteq ToSet(new.byKey[k].resources)
  BY <1>2, <1>4, <1>5 DEF KInv
<1>7. Dated(new.byKey)
  BY <1>4, <1>6 DEF Dated, KInv
<1>8. Within(new.byKey, Capacity + 1)
  <2> DEFINE D == DOMAIN byKey \ {key}
  <2>1. IsFiniteSet(D) /\ Cardinality(D) <= Cardinality(DOMAIN byKey)
    BY <1>5, FS_Subset
  <2>2. Cardinality(D \cup {key}) = Cardinality(D) + 1
    BY <2>1, FS_AddElement
  <2>3. /\ Cardinality(D) \in Nat /\ Cardinality(DOMAIN byKey) \in Nat /\ Capacity \in Nat
    BY <1>5, <2>1, FS_CardinalityType, StoreAssumption
  <2> HIDE DEF D
  <2> QED BY <1>4, <2>1, <2>2, <2>3 DEF D, KInv, Within
<1>9. /\ IsFiniteSet(DOMAIN new.byKey) /\ new.byKey \in [DOMAIN new.byKey -> Remediation]
  BY <1>4 DEF IsStore
<1>10. /\ IsStore(store) /\ Exact(store) /\ Within(store.byKey, Capacity)
       /\ DOMAIN store.byKey \subseteq DOMAIN new.byKey
       /\ \A k \in DOMAIN store.byKey : store.byKey[k] = new.byKey[k]
  <2>1. CASE Evicted(new.byKey) = {} /\ Within(new.byKey, Capacity)
    <3>1. store = new
      BY <2>1, EvictNone
    <3> QED BY <1>4, <2>1, <3>1
  <2>2. CASE /\ Capacity > 0 /\ Cardinality(DOMAIN new.byKey) = Capacity + 1
             /\ \E k \in DOMAIN new.byKey : Evicted(new.byKey) = {k}
    <3>1. PICK k \in DOMAIN new.byKey : Evicted(new.byKey) = {k}
      BY <2>2
    <3>2. store = removeLocked(new, k)
      BY <3>1, EvictOne
    <3> HIDE DEF store
    <3>3. /\ IsStore(store) /\ Exact(store) /\ DOMAIN store.byKey = DOMAIN new.byKey \ {k}
          /\ \A j \in DOMAIN new.byKey \ {k} : store.byKey[j] = new.byKey[j]
      BY <1>4, <3>2, RemoveStore
    <3>4. Cardinality(DOMAIN new.byKey \ {k}) = Cardinality(DOMAIN new.byKey) - 1
      BY <1>9, FS_RemoveElement
    <3>5. Within(store.byKey, Capacity)
      BY <2>2, <3>3, <3>4, StoreAssumption DEF Within
    <3> QED BY <3>3, <3>5
  <2> QED BY <1>7, <1>8, <1>9, <2>1, <2>2, EvictedOldest
<1> HIDE DEF store
<1>11. IsStore(Store)' /\ Exact(Store)'
  <2>1. Store' = [byKey |-> store.byKey, scans |-> store.scans, resources |-> store.resources]
    BY <1>1 DEF Store
  <2>2. IsStore(Store') /\ Exact(Store')
    BY <1>10, <2>1 DEF IsStore, Exact
  <2> QED BY <2>2 DEF IsStore, Exact
<1>12. Dated(byKey)' /\ Within(byKey, Capacity)'
  BY <1>1, <1>7, <1>10 DEF Dated, Within
<1>13. \A k \in DOMAIN byKey' : /\ byKey'[k].created < clock'
                                /\ byKey'[k].resolved \subseteq ToSet(byKey'[k].resources)
  BY <1>1, <1>6, <1>10
<1> QED BY <1>1, <1>5, <1>11, <1>12, <1>13 DEF KInv

(* A mark on a remediation leaves everything else of it as it was.         *)
LEMMA MarkedMerged ==
  ASSUME NEW rec \in Remediation, NEW v \in BOOLEAN
  PROVE  /\ [rec EXCEPT !.merged = v] \in Remediation
         /\ [rec EXCEPT !.merged = v].scan = rec.scan
         /\ [rec EXCEPT !.merged = v].resources = rec.resources
         /\ [rec EXCEPT !.merged = v].created = rec.created
         /\ [rec EXCEPT !.merged = v].resolved = rec.resolved
BY DEF Remediation

(* The same for the resources that are resolved.                           *)
LEMMA MarkedResolved ==
  ASSUME NEW rec \in Remediation, NEW R \in SUBSET Resources
  PROVE  /\ [rec EXCEPT !.resolved = R] \in Remediation
         /\ [rec EXCEPT !.resolved = R].scan = rec.scan
         /\ [rec EXCEPT !.resolved = R].resources = rec.resources
         /\ [rec EXCEPT !.resolved = R].created = rec.created
         /\ [rec EXCEPT !.resolved = R].resolved = R
BY DEF Remediation

(* A step that only marks keeps the invariant.                             *)
LEMMA KMarks ==
  ASSUME KInv, UNCHANGED <<scanToKeys, resourceToKeys, clock>>, DOMAIN byKey' = DOMAIN byKey,
         byKey' \in [DOMAIN byKey -> Remediation],
         \A k \in DOMAIN byKey :
           /\ byKey'[k].scan = byKey[k].scan /\ byKey'[k].resources = byKey[k].resources
           /\ byKey'[k].created = byKey[k].created
           /\ byKey'[k].resolved \subseteq ToSet(byKey[k].resources)
  PROVE  KInv'
<1>1. IsStore(Store)'
  <2>1. IsStore(Store')
    BY DEF KInv, IsStore, Store
  <2> QED BY <2>1 DEF IsStore
<1>2. Exact(Store)'
  <2>1. \A s : {k \in DOMAIN byKey' : byKey'[k].scan = s} = {k \in DOMAIN byKey : byKey[k].scan = s}
    OBVIOUS
  <2>2. \A r : {k \in DOMAIN byKey' : Contains(byKey'[k].resources, r)}
                 = {k \in DOMAIN byKey : Contains(byKey[k].resources, r)}
    OBVIOUS
  <2>3. Exact(Store')
    BY <2>1, <2>2 DEF KInv, Exact, Store
  <2> QED BY <2>3 DEF Exact
<1>3. Dated(byKey)' /\ Within(byKey, Capacity)'
  BY DEF KInv, Dated, Within
<1> QED BY <1>1, <1>2, <1>3 DEF KInv

(* Only the steps of the programs on the store change it.                  *)
LEMMA KNext == BInv /\ KInv /\ [Next]_vars => KInv'
<1> SUFFICES ASSUME BInv, KInv, [Next]_vars PROVE KInv'
  OBVIOUS
<1>1. /\ DOMAIN byKey \subseteq Keys /\ byKey \in [DOMAIN byKey -> Remediation]
      /\ resourceToKeys \in [Resources -> Seq(Keys)]
  BY StoreMeans DEF KInv
<1>2. ASSUME NEW p \in Publishers, StoreStep(p) PROVE KInv'
  <2> DEFINE step == Head(program[p])
  <2>1. step \in Step
    <3>1. program[p] \in Seq(Step) /\ program[p] # <<>>
      BY <1>2 DEF BInv, StreamTyped, StoreStep
    <3> QED BY <3>1
  <2>2. \/ step.op = "upsert" /\ Upsert(step.key, step.proposal)
        \/ step.op = "merged" /\ MarkMerged(step.key)
        \/ step.op = "resolved" /\ MarkResolved(step.resource)
    BY <1>2 DEF StoreStep
  <2> HIDE DEF step
  <2>3. CASE step.op = "upsert" /\ Upsert(step.key, step.proposal)
    <3>1. step.key \in Keys /\ step.proposal \in Proposal
      BY <2>1, <2>3 DEF Step
    <3> QED BY <2>3, <3>1, KUpsert
  <2>4. CASE step.op = "merged" /\ MarkMerged(step.key)
    <3> DEFINE v(k) == byKey[k].merged \/ k = step.key
    <3>1. \A k \in DOMAIN byKey : byKey[k] \in Remediation /\ v(k) \in BOOLEAN
      BY <1>1
    <3>2. /\ DOMAIN byKey' = DOMAIN byKey /\ UNCHANGED <<scanToKeys, resourceToKeys, clock>>
          /\ \A k \in DOMAIN byKey : byKey'[k] = [byKey[k] EXCEPT !.merged = v(k)]
          /\ byKey' = [k \in DOMAIN byKey |-> byKey'[k]]
      BY <2>4 DEF MarkMerged
    <3> HIDE DEF v
    <3>3. \A k \in DOMAIN byKey :
            /\ byKey'[k] \in Remediation
            /\ byKey'[k].scan = byKey[k].scan /\ byKey'[k].resources = byKey[k].resources
            /\ byKey'[k].created = byKey[k].created /\ byKey'[k].resolved = byKey[k].resolved
      <4> SUFFICES ASSUME NEW k \in DOMAIN byKey
                   PROVE  /\ byKey'[k] \in Remediation
                          /\ byKey'[k].scan = byKey[k].scan
                          /\ byKey'[k].resources = byKey[k].resources
                          /\ byKey'[k].created = byKey[k].created
                          /\ byKey'[k].resolved = byKey[k].resolved
        OBVIOUS
      <4>1. byKey[k] \in Remediation /\ v(k) \in BOOLEAN
        BY <3>1
      <4>2. byKey'[k] = [byKey[k] EXCEPT !.merged = v(k)]
        BY <3>2
      <4> QED BY <4>1, <4>2, MarkedMerged
    <3>4. byKey' \in [DOMAIN byKey -> Remediation]
      BY <3>2, <3>3
    <3>5. \A k \in DOMAIN byKey : byKey'[k].resolved \subseteq ToSet(byKey[k].resources)
      BY <3>3 DEF KInv
    <3> QED BY <3>2, <3>3, <3>4, <3>5, KMarks
  <2>5. CASE step.op = "resolved" /\ MarkResolved(step.resource)
    <3> DEFINE r == step.resource
               R(k) == byKey[k].resolved
                         \cup (IF Contains(resourceToKeys[r], k) THEN {r} ELSE {})
    <3>1. r \in Resources
      BY <2>1, <2>5 DEF Step
    <3>2. /\ DOMAIN byKey' = DOMAIN byKey /\ UNCHANGED <<scanToKeys, resourceToKeys, clock>>
          /\ \A k \in DOMAIN byKey : byKey'[k] = [byKey[k] EXCEPT !.resolved = R(k)]
          /\ byKey' = [k \in DOMAIN byKey |-> byKey'[k]]
      BY <2>5 DEF MarkResolved
    <3> HIDE DEF r
    <3>3. ASSUME NEW k \in DOMAIN byKey
          PROVE  /\ byKey[k] \in Remediation
                 /\ R(k) \in SUBSET Resources /\ R(k) \subseteq ToSet(byKey[k].resources)
      <4>1. /\ byKey[k] \in Remediation /\ byKey[k].resolved \in SUBSET Resources
            /\ byKey[k].resolved \subseteq ToSet(byKey[k].resources)
            /\ byKey[k].resources \in Seq(Resources)
        BY <1>1 DEF KInv, Remediation
      <4>2. ASSUME Contains(resourceToKeys[r], k) PROVE r \in ToSet(byKey[k].resources)
        <5>1. k \in ToSet(resourceToKeys[r])
          BY <1>1, <3>1, <4>2 DEF Contains, ToSet
        <5>2. Contains(byKey[k].resources, r)
          BY <3>1, <5>1 DEF KInv, Exact, Store
        <5> QED BY <4>1, <5>2 DEF Contains, ToSet
      <4> QED BY <3>1, <4>1, <4>2
    <3> HIDE DEF R
    <3>4. \A k \in DOMAIN byKey :
            /\ byKey'[k] \in Remediation
            /\ byKey'[k].scan = byKey[k].scan /\ byKey'[k].resources = byKey[k].resources
            /\ byKey'[k].created = byKey[k].created /\ byKey'[k].resolved = R(k)
      <4> SUFFICES ASSUME NEW k \in DOMAIN byKey
                   PROVE  /\ byKey'[k] \in Remediation
                          /\ byKey'[k].scan = byKey[k].scan
                          /\ byKey'[k].resources = byKey[k].resources
                          /\ byKey'[k].created = byKey[k].created
                          /\ byKey'[k].resolved = R(k)
        OBVIOUS
      <4>1. byKey[k] \in Remediation /\ R(k) \in SUBSET Resources
        BY <3>3
      <4>2. byKey'[k] = [byKey[k] EXCEPT !.resolved = R(k)]
        BY <3>2
      <4> QED BY <4>1, <4>2, MarkedResolved
    <3>5. byKey' \in [DOMAIN byKey -> Remediation]
      BY <3>2, <3>4
    <3>6. \A k \in DOMAIN byKey : byKey'[k].resolved \subseteq ToSet(byKey[k].resources)
      BY <3>3, <3>4
    <3> QED BY <3>2, <3>4, <3>5, <3>6, KMarks
  <2> QED BY <2>2, <2>3, <2>4, <2>5
<1>3. ASSUME UNCHANGED storeVars PROVE KInv'
  <2>1. UNCHANGED <<byKey, scanToKeys, resourceToKeys, clock>>
    BY <1>3 DEF storeVars
  <2> QED BY <2>1, KMarks DEF KInv, IsStore, Exact, Dated, Within, Store
<1>4. UNCHANGED storeVars \/ \E p \in Publishers : StoreStep(p)
  BY DEF Next, PublisherStep, PublishAppends, PublishLocks, PublishSends, BridgeStep,
         BridgeSubscribes, BridgeForwards, BridgeCancels, Heartbeat, BrowserStep, Connect, Stall,
         Disconnect, LoadPipeline, ServeLoad, LoadArrives, OpenPanel, ServeFetch,
         FetchArrives, Deliver, HandlerStops,
         Unsubscribed, Cancel, ShutdownReturns, vars
<1> QED BY <1>2, <1>3, <1>4

(* IndexesExact holds of the store whatever the publishers write to it, in *)
(* any order, with any capacity: Upsert, MarkMerged, MarkResolved and the  *)
(* eviction of remediations.go leave no stale entry, miss none, and stay   *)
(* within the capacity.                                                    *)
THEOREM IndexesExactAlways == Spec => []IndexesExact
<1>1. KInv => IndexesExact
  BY DEF KInv, Exact, Store, IndexesExact, Within
<1> QED BY <1>1, BInvariance, KInit, KNext, PTL DEF Spec
-----------------------------------------------------------------------------
(* The side panel of the pipeline page.  It asks when it is opened and     *)
(* when an event says that the store changed, and answers may overtake     *)
(* each other.                                                             *)
PanelKeys == Keys \cup {""}
Answer == [done : BOOLEAN, answer : SUBSET Remediation]
Panel == [open : BOOLEAN, key : PanelKeys, shown : SUBSET Remediation, fetches : Seq(Answer),
          opening : BOOLEAN, late : Nat, stale : BOOLEAN]
PanelTyped ==
  /\ panel \in [Browsers -> Panel]
  /\ \A b \in Browsers : panel[b].late <= Len(panel[b].fetches)

(* An open panel is on a page that has loaded.                             *)
PanelServed == \A b \in Browsers : panel[b].open => page[b].state = "loaded"

(* An event that refreshes the panel is still to come, or was lost.        *)
Refreshes(e) == e.id # 0 /\ e.type \in Refreshing
HasRefresh(s) == \E i \in DOMAIN s : Refreshes(s[i])
RefreshComing(b) ==
  \/ \E p \in Publishers : Refreshes(outbox[p].event)
  \/ HasRefresh(bridge.inbox) \/ HasRefresh(stream[b].queue)
  \/ lost[b] # {}

(* What the store has of the panel's remediation is what the newest        *)
(* request will answer, if no answer to it was shown yet, or what is       *)
(* shown, unless that came too late.                                       *)
Newest(pn) == pn.fetches[Len(pn.fetches)]
Agrees(pn) ==
  \/ pn.key \notin DOMAIN byKey
  \/ /\ pn.late < Len(pn.fetches)
     /\ ~Newest(pn).done \/ Newest(pn).answer = Get(pn.key)
  \/ ~(pn.late < Len(pn.fetches)) /\ (pn.stale \/ pn.shown = Get(pn.key))
UpToDate(b) == unannounced \/ Agrees(panel[b]) \/ RefreshComing(b)
PanelsUpToDate == \A b \in Browsers : panel[b].open /\ server = "serving" => UpToDate(b)

PInv == PanelTyped /\ PanelServed /\ PanelsUpToDate
-----------------------------------------------------------------------------
(* A page without a panel.                                                 *)
LEMMA NoPanelTyped ==
  /\ NoPanel \in Panel /\ NoPanel.fetches = <<>> /\ NoPanel.open = FALSE /\ NoPanel.late = 0
<1>1. <<>> \in Seq(Answer) /\ 0 \in Nat /\ {} \in SUBSET Remediation
  OBVIOUS
<1> QED BY <1>1, Zenon DEF NoPanel, Panel, PanelKeys

(* No panel is open at first.                                              *)
LEMMA PInit == Init => PInv
<1> SUFFICES ASSUME Init PROVE PInv
  OBVIOUS
<1>1. panel = [b \in Browsers |-> NoPanel]
  BY DEF Init
<1>2. panel \in [Browsers -> Panel]
  <2>1. NoPanel \in Panel
    BY Zenon, NoPanelTyped
  <2> QED BY <1>1, <2>1, Zenon
<1>3. \A b \in Browsers : panel[b].open = FALSE /\ panel[b].late = 0 /\ panel[b].fetches = <<>>
  BY <1>1, NoPanelTyped
<1> QED BY <1>2, <1>3 DEF PInv, PanelTyped, PanelServed, PanelsUpToDate

(* A panel that asks waits for one more answer.                            *)
LEMMA AskedPanel ==
  ASSUME NEW pn \in Panel, pn.late <= Len(pn.fetches)
  PROVE  /\ Asked(pn) \in Panel /\ Asked(pn).open = pn.open
         /\ Asked(pn).late <= Len(Asked(pn).fetches) /\ Agrees(Asked(pn))
<1>1. pn.fetches \in Seq(Answer) /\ pn.late \in Nat /\ Pending \in Answer /\ ~Pending.done
  BY DEF Panel, Answer, Pending
<1> DEFINE f == Append(pn.fetches, Pending)
<1>2. f \in Seq(Answer) /\ Len(f) = Len(pn.fetches) + 1 /\ f[Len(f)] = Pending
  BY <1>1
<1>3. Asked(pn) = [pn EXCEPT !.fetches = f]
  BY DEF Asked
<1> HIDE DEF f
<1>4. /\ [pn EXCEPT !.fetches = f] \in Panel
      /\ [pn EXCEPT !.fetches = f].fetches = f
      /\ [pn EXCEPT !.fetches = f].late = pn.late
      /\ [pn EXCEPT !.fetches = f].open = pn.open
  BY <1>2 DEF Panel
<1>5. Len(pn.fetches) \in Nat
  BY <1>1
<1>6. pn.late < Len(f)
  BY <1>1, <1>2, <1>5
<1> QED BY <1>1, <1>2, <1>3, <1>4, <1>6 DEF Agrees, Newest

(* An event that refreshes panels moves from one queue to the next.        *)
LEMMA RefreshMoves ==
  ASSUME NEW s \in Seq(Event), NEW e \in Event
  PROVE  /\ HasRefresh(Append(s, e)) <=> HasRefresh(s) \/ Refreshes(e)
         /\ s # <<>> /\ HasRefresh(s) => Refreshes(Head(s)) \/ HasRefresh(Tail(s))
<1>1. /\ Len(Append(s, e)) = Len(s) + 1 /\ Len(s) \in Nat
      /\ \A i \in 1 .. Len(s) : Append(s, e)[i] = s[i]
      /\ Append(s, e)[Len(s) + 1] = e
      /\ DOMAIN s = 1 .. Len(s) /\ DOMAIN Append(s, e) = 1 .. Len(s) + 1
  OBVIOUS
<1>2. HasRefresh(Append(s, e)) <=> HasRefresh(s) \/ Refreshes(e)
  BY <1>1 DEF HasRefresh
<1>3. ASSUME s # <<>>, HasRefresh(s)
      PROVE  Refreshes(Head(s)) \/ HasRefresh(Tail(s))
  <2>1. PICK i \in 1 .. Len(s) : Refreshes(s[i])
    BY <1>1, <1>3 DEF HasRefresh
  <2>2. CASE i = 1
    BY <1>3, <2>1, <2>2
  <2>3. CASE i # 1
    <3>1. i - 1 \in DOMAIN Tail(s) /\ Tail(s)[i - 1] = s[i]
      BY <1>1, <1>3, <2>3
    <3> QED BY <2>1, <3>1 DEF HasRefresh
  <2> QED BY <2>2, <2>3
<1> QED BY <1>2, <1>3

(* Each panel is up to date after a step, or it is left alone and what was *)
(* to come for it still is.                                                *)
LEMMA PanelsMove ==
  ASSUME PInv, PanelTyped', PanelServed',
         ASSUME NEW b \in Browsers, panel'[b].open, server' = "serving"
         PROVE  \/ UpToDate(b)'
                \/ /\ panel'[b] = panel[b] /\ byKey' = byKey /\ server = "serving"
                   /\ unannounced => unannounced'
                   /\ RefreshComing(b) => RefreshComing(b)'
  PROVE  PInv'
<1>1. ASSUME NEW b \in Browsers, panel'[b].open, server' = "serving"
      PROVE  UpToDate(b)'
  <2>1. CASE /\ panel'[b] = panel[b] /\ byKey' = byKey /\ server = "serving"
             /\ unannounced => unannounced'
             /\ RefreshComing(b) => RefreshComing(b)'
    <3>1. unannounced \/ Agrees(panel[b]) \/ RefreshComing(b)
      BY <1>1, <2>1 DEF PInv, PanelsUpToDate, UpToDate
    <3>2. Agrees(panel[b]) => Agrees(panel[b])'
      BY <2>1 DEF Agrees, Newest, Get
    <3> QED BY <2>1, <3>1, <3>2 DEF UpToDate
  <2> QED BY <1>1, <2>1
<1> QED BY <1>1 DEF PInv, PanelsUpToDate

(* A step of a program on the store changes nothing there, or it leaves    *)
(* something to be announced.                                              *)
LEMMA PanelStore ==
  ASSUME PInv, NEW p \in Publishers, StoreStep(p)
  PROVE  PInv'
<1>1. /\ UNCHANGED <<outbox, bridge, stream, page, panel, lost, server>>
      /\ unannounced' = (unannounced \/ byKey' # byKey)
  BY DEF StoreStep
<1>2. PanelTyped' /\ PanelServed'
  BY <1>1 DEF PInv, PanelTyped, PanelServed
<1>3. \A b \in Browsers : RefreshComing(b) => RefreshComing(b)'
  BY <1>1 DEF RefreshComing
<1>4. ASSUME NEW b \in Browsers, panel'[b].open, server' = "serving"
      PROVE  \/ UpToDate(b)'
             \/ /\ panel'[b] = panel[b] /\ byKey' = byKey /\ server = "serving"
                /\ unannounced => unannounced'
                /\ RefreshComing(b) => RefreshComing(b)'
  <2>1. CASE byKey' = byKey
    BY <1>1, <1>3, <1>4, <2>1
  <2>2. CASE byKey' # byKey
    BY <1>1, <2>2 DEF UpToDate
  <2> QED BY <2>1, <2>2
<1> QED BY <1>2, <1>4, PanelsMove

(* What makes panels ask again reaches the bridge or is counted as lost.   *)
LEMMA PanelPublish ==
  ASSUME BInv, MInv, PInv, NEW p \in Publishers, UNCHANGED storeVars,
         PublishAppends(p) \/ PublishLocks(p) \/ PublishSends(p)
  PROVE  PInv'
<1>1. /\ outbox \in [Publishers -> [event : Event, at : {"idle", "appended", "sending"}]]
      /\ bridge.inbox \in Seq(Event) /\ outbox[p].event \in Event /\ seq \in Nat
  BY DEF BInv, StreamTyped
<1>2. byKey' = byKey
  BY DEF storeVars
<1>3. UNCHANGED <<panel, page>> /\ PanelTyped' /\ PanelServed'
  BY DEF PublishAppends, PublishLocks, PublishSends, PInv, PanelTyped, PanelServed
<1>4. CASE PublishAppends(p)
  <2> DEFINE e == [id |-> seq + 1, by |-> p, type |-> Head(program[p]).type,
                   stage |-> Head(program[p]).stage, key |-> Head(program[p]).key]
  <2>1. /\ outbox' = [outbox EXCEPT ![p] = [event |-> e, at |-> "appended"]]
        /\ unannounced' = (unannounced /\ e.type \notin Refreshing)
        /\ outbox[p] = Idle /\ UNCHANGED <<bridge, stream, panel, lost, server>>
    BY <1>4 DEF PublishAppends
  <2>2. e.id # 0
    BY <1>1
  <2> HIDE DEF e
  <2>3. outbox'[p].event = e /\ \A r \in Publishers \ {p} : outbox'[r] = outbox[r]
    BY <1>1, <2>1
  <2>4. CASE e.type \in Refreshing
    <3>1. \A b : RefreshComing(b)'
      BY <2>2, <2>3, <2>4 DEF RefreshComing, Refreshes
    <3> QED BY <1>3, <3>1, PanelsMove DEF UpToDate
  <2>5. CASE e.type \notin Refreshing
    <3>1. ~Refreshes(outbox[p].event)
      <4>1. Idle.event.id = 0
        BY DEF Idle, NoEvent
      <4> QED BY <2>1, <4>1 DEF Refreshes
    <3>2. \A b : RefreshComing(b) => RefreshComing(b)'
      BY <2>1, <2>3, <3>1 DEF RefreshComing
    <3>3. unannounced => unannounced'
      BY <2>1, <2>5
    <3> QED BY <1>2, <1>3, <2>1, <3>2, <3>3, PanelsMove
  <2> QED BY <2>4, <2>5
<1>5. CASE PublishLocks(p)
  <2>1. UNCHANGED <<unannounced, bridge, stream, panel, lost, server>>
    BY <1>5 DEF PublishLocks
  <2>2. ASSUME NEW b \in Browsers, panel'[b].open, server' = "serving"
        PROVE  RefreshComing(b) => RefreshComing(b)'
    <3>1. bridge.state = "subscribed"
      BY <1>3, <2>1, <2>2 DEF PInv, PanelServed, MInv, PageIsServed
    <3>2. outbox' = [outbox EXCEPT ![p].at = "sending"]
      BY <1>5, <3>1 DEF PublishLocks
    <3>3. \A r \in Publishers : outbox'[r].event = outbox[r].event
      BY <1>1, <3>2
    <3> QED BY <2>1, <3>3 DEF RefreshComing
  <2> QED BY <1>2, <1>3, <2>1, <2>2, PanelsMove
<1>6. CASE PublishSends(p)
  <2> DEFINE e == outbox[p].event
  <2>1. /\ outbox[p].at = "sending" /\ outbox' = [outbox EXCEPT ![p] = Idle]
        /\ UNCHANGED <<unannounced, stream, panel>>
    BY <1>6 DEF PublishSends, Published
  <2>2. bridge.state = "subscribed"
    BY <2>1 DEF BInv, SendersAreHeard
  <2>3. /\ server' = server
        /\ \/ /\ bridge'.inbox = bridge.inbox
              /\ \A b \in Browsers : lost'[b] = IF Registered(b) THEN lost[b] \cup {e.id}
                                                ELSE lost[b]
           \/ bridge'.inbox = Append(bridge.inbox, e) /\ lost' = lost
    BY <1>6, <2>2 DEF PublishSends, BInv, StreamTyped
  <2>4. e \in Event /\ \A r \in Publishers \ {p} : outbox'[r] = outbox[r]
    BY <1>1, <2>1
  <2> HIDE DEF e
  <2>5. ASSUME NEW b \in Browsers, panel'[b].open, server' = "serving"
        PROVE  RefreshComing(b) => RefreshComing(b)'
    <3>1. Registered(b)
      BY <1>3, <2>1, <2>3, <2>5 DEF PInv, PanelServed, MInv, PageIsServed
    <3>2. Refreshes(e) => lost'[b] # {} \/ HasRefresh(bridge'.inbox)
      BY <1>1, <2>3, <2>4, <3>1, RefreshMoves
    <3>3. HasRefresh(bridge.inbox) => HasRefresh(bridge'.inbox)
      BY <1>1, <2>3, <2>4, RefreshMoves
    <3>4. lost[b] # {} => lost'[b] # {}
      BY <2>3, <3>1
    <3>5. ASSUME NEW r \in Publishers, Refreshes(outbox[r].event)
          PROVE  Refreshes(outbox'[r].event) \/ Refreshes(e)
      BY <2>4, <3>5 DEF e
    <3> QED BY <2>1, <3>2, <3>3, <3>4, <3>5 DEF RefreshComing
  <2> QED BY <1>2, <1>3, <2>1, <2>3, <2>5, PanelsMove
<1> QED BY <1>4, <1>5, <1>6

(* Broadcast hands the event on to every stream, or the stream is full.    *)
LEMMA PanelBroadcast ==
  ASSUME BInv, MInv, PInv, NEW e \in Event, Broadcast(e), UNCHANGED storeVars,
         UNCHANGED <<unannounced, outbox, page, panel, server>>,
         \/ /\ bridge.inbox # <<>> /\ e = Head(bridge.inbox)
            /\ bridge'.inbox = Tail(bridge.inbox)
         \/ bridge'.inbox = bridge.inbox
  PROVE  PInv'
<1>1. byKey' = byKey
  BY DEF storeVars
<1>2. \A b \in Browsers :
        /\ stream'[b].queue = IF Registered(b) /\ Len(stream[b].queue) < StreamQueue
                              THEN Append(stream[b].queue, e) ELSE stream[b].queue
        /\ lost'[b] = IF Registered(b) /\ Len(stream[b].queue) = StreamQueue
                      THEN lost[b] \cup ({e.id} \ {0}) ELSE lost[b]
  <2>1. StreamTyped
    BY DEF BInv
  <2> QED BY <2>1, BroadcastTyped
<1>3. PanelTyped' /\ PanelServed'
  BY DEF PInv, PanelTyped, PanelServed
<1>4. ASSUME NEW b \in Browsers, panel'[b].open, server' = "serving"
      PROVE  RefreshComing(b) => RefreshComing(b)'
  <2>1. Registered(b)
    BY <1>4 DEF PInv, PanelServed, MInv, PageIsServed
  <2>2. /\ stream[b].queue \in Seq(Event) /\ bridge.inbox \in Seq(Event)
        /\ Len(stream[b].queue) \in Nat /\ StreamQueue \in Nat
        /\ Len(stream[b].queue) < StreamQueue \/ Len(stream[b].queue) = StreamQueue
    <3>1. stream[b].queue \in Seq(Event) /\ bridge.inbox \in Seq(Event)
      BY WayTyped DEF BInv
    <3> QED BY <3>1, StreamAssumption DEF MInv, QueuesBounded
  <2>3. HasRefresh(stream[b].queue) => HasRefresh(stream'[b].queue)
    BY <1>2, <2>2, RefreshMoves
  <2>4. Refreshes(e) => HasRefresh(stream'[b].queue) \/ lost'[b] # {}
    <3>1. CASE Len(stream[b].queue) < StreamQueue
      BY <1>2, <2>1, <2>2, <3>1, RefreshMoves
    <3>2. CASE Len(stream[b].queue) = StreamQueue
      BY <1>2, <2>1, <3>2 DEF Refreshes
    <3> QED BY <2>2, <3>1, <3>2
  <2>5. HasRefresh(bridge.inbox) => HasRefresh(bridge'.inbox) \/ Refreshes(e)
    BY <2>2, RefreshMoves
  <2>6. lost[b] # {} => lost'[b] # {}
    BY <1>2
  <2> QED BY <2>3, <2>4, <2>5, <2>6 DEF RefreshComing
<1> QED BY <1>1, <1>3, <1>4, PanelsMove

(* A step of one browser, whose panel and stream are the only ones that    *)
(* change.                                                                 *)
LEMMA PanelOne ==
  ASSUME PInv, NEW b \in Browsers, NEW pn \in Panel, pn.late <= Len(pn.fetches),
         UNCHANGED <<unannounced, outbox, bridge, server>>, UNCHANGED storeVars,
         panel' = [panel EXCEPT ![b] = pn],
         \A c \in Browsers \ {b} :
           stream'[c] = stream[c] /\ lost'[c] = lost[c] /\ page'[c].state = page[c].state,
         pn.open => page'[b].state = "loaded",
         pn.open /\ server = "serving" =>
           \/ Agrees(pn) \/ RefreshComing(b)'
           \/ pn = panel[b] /\ (RefreshComing(b) => RefreshComing(b)')
  PROVE  PInv'
<1>1. byKey' = byKey
  BY DEF storeVars
<1>2. /\ panel'[b] = pn /\ \A c \in Browsers \ {b} : panel'[c] = panel[c]
      /\ panel' \in [Browsers -> Panel]
  BY DEF PInv, PanelTyped
<1>3. PanelTyped' /\ PanelServed'
  BY <1>2 DEF PInv, PanelTyped, PanelServed
<1>4. ASSUME NEW c \in Browsers, panel'[c].open, server' = "serving"
      PROVE  \/ UpToDate(c)'
             \/ /\ panel'[c] = panel[c] /\ byKey' = byKey /\ server = "serving"
                /\ unannounced => unannounced'
                /\ RefreshComing(c) => RefreshComing(c)'
  <2>1. CASE c = b
    <3>1. Agrees(pn) => Agrees(panel[b])'
      BY <1>1, <1>2 DEF Agrees, Newest, Get
    <3> QED BY <1>1, <1>2, <1>4, <2>1, <3>1 DEF UpToDate
  <2>2. CASE c # b
    <3>1. RefreshComing(c) => RefreshComing(c)'
      BY <2>2 DEF RefreshComing
    <3> QED BY <1>1, <1>2, <1>4, <2>2, <3>1
  <2> QED BY <2>1, <2>2
<1> QED BY <1>3, <1>4, PanelsMove

(* A step that leaves the panels alone, and what comes to them.            *)
LEMMA PanelSame ==
  ASSUME PInv, UNCHANGED <<unannounced, panel>>, UNCHANGED storeVars, PanelServed',
         server' = "serving" => server = "serving",
         \A b \in Browsers : panel[b].open /\ server = "serving" =>
           (RefreshComing(b) => RefreshComing(b)')
  PROVE  PInv'
<1>1. byKey' = byKey /\ PanelTyped'
  BY DEF storeVars, PInv, PanelTyped
<1> QED BY <1>1, PanelsMove

(* The last of two sequences.                                              *)
LEMMA LastOfBoth ==
  ASSUME NEW S, NEW u \in Seq(S), NEW v \in Seq(S), Len(v) > 0
  PROVE  (u \o v)[Len(u) + Len(v)] = v[Len(v)]
<1> DEFINE m == Len(u)
           n == Len(v)
<1>1. m \in Nat /\ n \in Nat /\ n > 0
  OBVIOUS
<1>2. \A k \in 1 .. n : (u \o v)[m + k] = v[k]
  OBVIOUS
<1> HIDE DEF m, n
<1>3. n \in 1 .. n
  BY <1>1
<1> QED BY <1>2, <1>3 DEF m, n

(* The lengths of what is before and after a place in a sequence.          *)
LEMMA Splits ==
  ASSUME NEW l \in Nat, NEW i \in 1 .. l, i # l, NEW m, NEW n, m = i - 1, n = l - i
  PROVE  n \in 1 .. l - i /\ n > 0 /\ i + n = l /\ m + n = l - 1
OBVIOUS

(* An answer leaves the requests that are under way.                       *)
LEMMA WithoutOne ==
  ASSUME NEW s \in Seq(Answer), NEW i \in DOMAIN s
  PROVE  /\ RemoveAt(s, i) \in Seq(Answer) /\ Len(RemoveAt(s, i)) = Len(s) - 1
         /\ i # Len(s) => RemoveAt(s, i)[Len(s) - 1] = s[Len(s)]
<1> DEFINE u == SubSeq(s, 1, i - 1)
           v == SubSeq(s, i + 1, Len(s))
           w == u \o v
<1>1. Len(s) \in Nat /\ i \in 1 .. Len(s) /\ \A k \in 1 .. Len(s) : s[k] \in Answer
  OBVIOUS
<1>2. u \in Seq(Answer) /\ Len(u) = i - 1
  BY <1>1
<1>3. /\ v \in Seq(Answer) /\ Len(v) = Len(s) - i
      /\ \A k \in 1 .. Len(s) - i : v[k] = s[i + k]
  BY <1>1
<1> HIDE DEF u, v
<1>4. w \in Seq(Answer) /\ Len(w) = Len(s) - 1
  BY <1>1, <1>2, <1>3
<1>5. ASSUME i # Len(s) PROVE w[Len(s) - 1] = s[Len(s)]
  <2>1. /\ Len(s) \in Nat /\ i \in 1 .. Len(s) /\ i # Len(s)
        /\ Len(u) = i - 1 /\ Len(v) = Len(s) - i
    BY <1>1, <1>2, <1>3, <1>5
  <2>2. /\ Len(v) \in 1 .. Len(s) - i /\ Len(v) > 0
        /\ i + Len(v) = Len(s) /\ Len(u) + Len(v) = Len(s) - 1
    <3> DEFINE l == Len(s)
               m == Len(u)
               n == Len(v)
    <3>1. l \in Nat /\ i \in 1 .. l /\ i # l /\ m = i - 1 /\ n = l - i
      BY <2>1
    <3> HIDE DEF l, m, n
    <3>2. n \in 1 .. l - i /\ n > 0 /\ i + n = l /\ m + n = l - 1
      BY <3>1, Splits
    <3> QED BY <3>2 DEF l, m, n
  <2>3. w[Len(u) + Len(v)] = v[Len(v)]
    BY <1>2, <1>3, <2>2, LastOfBoth
  <2>4. v[Len(v)] = s[i + Len(v)]
    BY <1>3, <2>2
  <2> QED BY <2>2, <2>3, <2>4
<1> QED BY <1>4, <1>5 DEF RemoveAt, u, v

(* An answer arrives: if a newer one was shown it comes too late, and if   *)
(* it is the newest the panel shows what the store has.                    *)
LEMMA AnsweredPanel ==
  ASSUME NEW pn \in Panel, NEW i \in DOMAIN pn.fetches, pn.late <= Len(pn.fetches),
         pn.fetches[i].done
  PROVE  /\ Answered(pn, i) \in Panel /\ Answered(pn, i).open = pn.open
         /\ Answered(pn, i).late <= Len(Answered(pn, i).fetches)
         /\ Agrees(pn) => Agrees(Answered(pn, i))
<1> DEFINE s == pn.fetches
           n == Len(s)
           answer == s[i].answer
           shows == answer # {} \/ (pn.opening /\ i = 1)
           f == RemoveAt(s, i)
           opening == pn.opening /\ i > 1
           late == IF i <= pn.late THEN pn.late - 1 ELSE i - 1
           shown == IF shows THEN answer ELSE pn.shown
           stale == IF shows THEN i <= pn.late ELSE pn.stale
           new == Answered(pn, i)
<1>1. /\ s \in Seq(Answer) /\ n \in Nat /\ i \in 1 .. n /\ pn.late \in Nat /\ pn.late <= n
      /\ pn.shown \in SUBSET Remediation /\ pn.stale \in BOOLEAN /\ pn.opening \in BOOLEAN
      /\ answer \in SUBSET Remediation
  <2>1. s \in Seq(Answer) /\ pn.late \in Nat /\ pn.shown \in SUBSET Remediation
    BY DEF Panel
  <2>2. pn.stale \in BOOLEAN /\ pn.opening \in BOOLEAN
    BY DEF Panel
  <2>3. n \in Nat /\ i \in 1 .. n /\ s[i] \in Answer
    BY <2>1
  <2>4. answer \in SUBSET Remediation
    BY <2>3 DEF Answer
  <2> QED BY <2>1, <2>2, <2>3, <2>4
<1>2. new = [pn EXCEPT !.fetches = f, !.opening = opening, !.late = late, !.shown = shown,
                       !.stale = stale]
  BY DEF Answered
<1>3. f \in Seq(Answer) /\ Len(f) = n - 1 /\ (i # n => f[n - 1] = s[n])
  BY <1>1, WithoutOne
<1>4. late \in Nat /\ late <= n - 1
  BY <1>1
<1>5. shown \in SUBSET Remediation /\ stale \in BOOLEAN /\ opening \in BOOLEAN
  <2> HIDE DEF shows, answer
  <2>1. shown \in SUBSET Remediation
    BY <1>1
  <2>2. stale \in BOOLEAN
    <3>1. (i <= pn.late) \in BOOLEAN
      OBVIOUS
    <3>2. CASE shows
      BY <3>1, <3>2, Zenon
    <3>3. CASE ~shows
      BY <1>1, <3>3, Zenon
    <3> QED BY <3>2, <3>3
  <2>3. opening \in BOOLEAN
    BY Zenon
  <2> QED BY <2>1, <2>2, <2>3
<1>6. /\ i = n /\ pn.late < n => ~(late < n - 1)
      /\ i # n /\ pn.late < n => late < n - 1
      /\ ~(pn.late < n) => ~(late < n - 1) /\ i <= pn.late
      /\ i = n /\ pn.late < n => ~(i <= pn.late)
  BY <1>1
<1> HIDE DEF f, late, shown, stale, opening, new
<1>7. /\ new \in Panel /\ new.open = pn.open /\ new.key = pn.key /\ new.fetches = f
      /\ new.late = late /\ new.shown = shown /\ new.stale = stale
  BY <1>2, <1>3, <1>4, <1>5 DEF Panel
<1>8. ASSUME Agrees(pn), pn.key \in DOMAIN byKey PROVE Agrees(new)
  <2>1. CASE pn.late < n /\ i = n
    <3>1. answer = Get(pn.key)
      BY <1>6, <1>8, <2>1 DEF Agrees, Newest
    <3>2. answer # {}
      BY <1>8, <3>1 DEF Get
    <3>3. shown = Get(pn.key)
      BY <3>1, <3>2 DEF shown
    <3>4. ~(new.late < Len(new.fetches))
      BY <1>3, <1>6, <1>7, <2>1
    <3> QED BY <1>7, <3>3, <3>4 DEF Agrees
  <2>2. CASE pn.late < n /\ i # n
    <3>1. new.late < Len(new.fetches) /\ Newest(new) = Newest(pn)
      BY <1>3, <1>6, <1>7, <2>2 DEF Newest
    <3>2. ~Newest(pn).done \/ Newest(pn).answer = Get(pn.key)
      BY <1>8, <2>2 DEF Agrees
    <3> QED BY <1>7, <3>1, <3>2 DEF Agrees
  <2>3. CASE ~(pn.late < n)
    <3>1. ~(new.late < Len(new.fetches)) /\ i <= pn.late
      BY <1>3, <1>6, <1>7, <2>3
    <3>2. pn.stale \/ pn.shown = Get(pn.key)
      BY <1>8, <2>3 DEF Agrees
    <3>3. stale \/ shown = Get(pn.key)
      BY <3>1, <3>2 DEF stale, shown
    <3> QED BY <1>7, <3>1, <3>3 DEF Agrees
  <2> QED BY <2>1, <2>2, <2>3
<1>9. Agrees(pn) => Agrees(new)
  BY <1>7, <1>8 DEF Agrees
<1> QED BY <1>3, <1>4, <1>7, <1>9 DEF new

(* An answer that is under way, or arrives: what agreed still does.        *)
LEMMA PanelKept ==
  ASSUME PInv, NEW b \in Browsers, NEW pn \in Panel, pn.late <= Len(pn.fetches),
         UNCHANGED <<unannounced, outbox, bridge, server, lost, stream, page>>,
         UNCHANGED storeVars, panel' = [panel EXCEPT ![b] = pn],
         pn.open = panel[b].open, Agrees(panel[b]) => Agrees(pn)
  PROVE  PInv'
<1>1. byKey' = byKey
  BY DEF storeVars
<1>2. /\ panel'[b] = pn /\ \A c \in Browsers \ {b} : panel'[c] = panel[c]
      /\ panel' \in [Browsers -> Panel]
  BY DEF PInv, PanelTyped
<1>3. PanelTyped' /\ PanelServed'
  BY <1>2 DEF PInv, PanelTyped, PanelServed
<1>4. ASSUME NEW c \in Browsers PROVE RefreshComing(c) => RefreshComing(c)'
  BY DEF RefreshComing
<1>5. ASSUME NEW c \in Browsers, panel'[c].open, server' = "serving"
      PROVE  \/ UpToDate(c)'
             \/ /\ panel'[c] = panel[c] /\ byKey' = byKey /\ server = "serving"
                /\ unannounced => unannounced'
                /\ RefreshComing(c) => RefreshComing(c)'
  <2>1. CASE c = b
    <3>1. UpToDate(b)
      BY <1>2, <1>5, <2>1 DEF PInv, PanelsUpToDate
    <3>2. Agrees(pn) => Agrees(panel[b])'
      BY <1>1, <1>2 DEF Agrees, Newest, Get
    <3> QED BY <1>4, <2>1, <3>1, <3>2 DEF UpToDate
  <2>2. CASE c # b
    BY <1>1, <1>2, <1>4, <1>5, <2>2
  <2> QED BY <2>1, <2>2
<1> QED BY <1>3, <1>5, PanelsMove

(* The page: an event that refreshes the panel makes it ask once more, and *)
(* an answer is what the store has at that time.                           *)
LEMMA PanelBrowser ==
  ASSUME BInv, KInv, MInv, PInv, NEW b \in Browsers,
         BrowserStep(b) \/ Deliver(b) \/ HandlerStops(b)
  PROVE  PInv'
<1>1. /\ panel \in [Browsers -> Panel] /\ panel[b] \in Panel
      /\ panel[b].fetches \in Seq(Answer) /\ panel[b].late <= Len(panel[b].fetches)
      /\ stream \in [Browsers -> Stream] /\ stream[b] \in Stream
      /\ stream[b].queue \in Seq(Event) /\ lost \in [Browsers -> SUBSET Nat]
      /\ page \in [Browsers -> Page] /\ page[b] \in Page
      /\ panel[b].open => page[b].state = "loaded"
  <2>1. stream[b].queue \in Seq(Event)
    BY WayTyped
  <2>2. panel \in [Browsers -> Panel] /\ panel[b].late <= Len(panel[b].fetches)
        /\ (panel[b].open => page[b].state = "loaded")
    BY DEF PInv, PanelTyped, PanelServed
  <2>3. stream \in [Browsers -> Stream] /\ lost \in [Browsers -> SUBSET Nat]
        /\ page \in [Browsers -> Page]
    BY DEF BInv, StreamTyped, MInv, PageTyped
  <2>4. panel[b] \in Panel /\ panel[b].fetches \in Seq(Answer)
    BY <2>2 DEF Panel
  <2> QED BY <2>1, <2>2, <2>3, <2>4
<1>2. panel = [panel EXCEPT ![b] = panel[b]]
  BY <1>1
<1>3. CASE Connect(b) \/ Stall(b)
  <2>1. /\ UNCHANGED <<unannounced, outbox, bridge, page, panel, lost, server>>
        /\ UNCHANGED storeVars
        /\ \A c \in Browsers \ {b} : stream'[c] = stream[c]
    BY <1>1, <1>3 DEF Connect, Stall
  <2>2. ASSUME panel[b].open, server = "serving" PROVE RefreshComing(b) => RefreshComing(b)'
    <3>1. Registered(b)
      BY <1>1, <2>2 DEF MInv, PageIsServed
    <3>2. stream' = [stream EXCEPT ![b].state = "stalled"]
      BY <1>3, <3>1 DEF Connect, Stall, Registered
    <3>3. stream'[b].queue = stream[b].queue
      BY <1>1, <3>2 DEF Stream
    <3> QED BY <2>1, <3>3 DEF RefreshComing
  <2> QED BY <1>1, <1>2, <2>1, <2>2, PanelOne
<1>4. CASE Disconnect(b) \/ HandlerStops(b)
  <2>1. /\ panel' = [panel EXCEPT ![b] = NoPanel] /\ lost' = [lost EXCEPT ![b] = {}]
        /\ \A c \in Browsers \ {b} : stream'[c] = stream[c] /\ page'[c] = page[c]
        /\ UNCHANGED <<unannounced, outbox, bridge, server>> /\ UNCHANGED storeVars
    BY <1>1, <1>4 DEF Disconnect, HandlerStops, Unsubscribed
  <2>2. \A c \in Browsers \ {b} : lost'[c] = lost[c]
    BY <1>1, <2>1
  <2>3. NoPanel \in Panel /\ NoPanel.late <= Len(NoPanel.fetches) /\ ~NoPanel.open
    BY NoPanelTyped
  <2> QED BY <2>1, <2>2, <2>3, PanelOne
<1>5. CASE LoadPipeline(b) \/ ServeLoad(b) \/ LoadArrives(b)
  <2>1. /\ UNCHANGED <<unannounced, outbox, bridge, stream, panel, lost, server>>
        /\ UNCHANGED storeVars
    BY <1>5 DEF LoadPipeline, ServeLoad, LoadArrives
  <2>2. page[b].state # "loaded" /\ \A c \in Browsers \ {b} : page'[c] = page[c]
    <3>1. NoPage.state = "none"
      BY DEF NoPage
    <3>2. CASE LoadPipeline(b)
      BY <1>1, <3>1, <3>2 DEF LoadPipeline
    <3>3. CASE ServeLoad(b)
      BY <1>1, <3>3 DEF ServeLoad
    <3>4. CASE LoadArrives(b)
      BY <1>1, <3>4 DEF LoadArrives
    <3> QED BY <1>5, <3>2, <3>3, <3>4
  <2>3. ~panel[b].open
    BY <1>1, <2>2
  <2> QED BY <1>1, <1>2, <2>1, <2>2, <2>3, PanelOne
<1>6. ASSUME NEW key \in Keys, OpenPanel(b, key) PROVE PInv'
  <2> DEFINE new == [panel[b] EXCEPT !.open = TRUE, !.key = key, !.opening = TRUE]
             pn == Asked(new)
  <2>1. /\ panel' = [panel EXCEPT ![b] = pn] /\ page[b].state = "loaded"
        /\ UNCHANGED <<unannounced, outbox, bridge, server, lost, stream, page>>
        /\ UNCHANGED storeVars
    BY <1>6 DEF OpenPanel
  <2>2. key \in PanelKeys
    BY Zenon DEF PanelKeys
  <2>3. /\ new \in Panel /\ new.fetches = panel[b].fetches /\ new.late = panel[b].late
    BY <1>1, <2>2 DEF Panel
  <2> HIDE DEF new
  <2>4. pn \in Panel /\ pn.late <= Len(pn.fetches) /\ Agrees(pn)
    BY <1>1, <2>3, AskedPanel
  <2> HIDE DEF pn
  <2> QED BY <2>1, <2>4, PanelOne
<1>7. ASSUME NEW i \in DOMAIN panel[b].fetches, ServeFetch(b, i) PROVE PInv'
  <2> DEFINE s == panel[b].fetches
             v == [done |-> TRUE, answer |-> Get(panel[b].key)]
             f == [s EXCEPT ![i] = v]
             pn == [panel[b] EXCEPT !.fetches = f]
  <2>1. /\ panel' = [panel EXCEPT ![b] = pn]
        /\ UNCHANGED <<unannounced, outbox, bridge, server, lost, stream, page>>
        /\ UNCHANGED storeVars
    BY <1>7 DEF ServeFetch
  <2>2. v \in Answer /\ v.answer = Get(panel[b].key)
    <3>1. byKey \in [DOMAIN byKey -> Remediation]
      BY StoreMeans DEF KInv
    <3>2. Get(panel[b].key) \in SUBSET Remediation
      BY <3>1 DEF Get
    <3> QED BY <3>2 DEF Answer
  <2> HIDE DEF v
  <2>3. /\ f \in Seq(Answer) /\ Len(f) = Len(s)
        /\ f[Len(s)] = IF i = Len(s) THEN v ELSE s[Len(s)]
    BY <1>1, <1>7, <2>2
  <2> HIDE DEF f
  <2>4. /\ pn \in Panel /\ pn.fetches = f /\ pn.key = panel[b].key /\ pn.late = panel[b].late
        /\ pn.open = panel[b].open /\ pn.stale = panel[b].stale /\ pn.shown = panel[b].shown
    BY <1>1, <2>3 DEF Panel
  <2> HIDE DEF pn
  <2>5. Newest(pn) = v \/ Newest(pn) = Newest(panel[b])
    BY <2>3, <2>4 DEF Newest
  <2>6. Agrees(panel[b]) => Agrees(pn)
    BY <2>2, <2>3, <2>4, <2>5 DEF Agrees
  <2> QED BY <1>1, <2>1, <2>3, <2>4, <2>6, PanelKept
<1>8. ASSUME NEW i \in DOMAIN panel[b].fetches, FetchArrives(b, i) PROVE PInv'
  <2> DEFINE pn == Answered(panel[b], i)
  <2>1. /\ panel' = [panel EXCEPT ![b] = pn] /\ panel[b].fetches[i].done
        /\ UNCHANGED <<unannounced, outbox, bridge, server, lost, stream, page>>
        /\ UNCHANGED storeVars
    BY <1>8 DEF FetchArrives
  <2>2. /\ pn \in Panel /\ pn.open = panel[b].open /\ pn.late <= Len(pn.fetches)
        /\ Agrees(panel[b]) => Agrees(pn)
    BY <1>1, <2>1, AnsweredPanel
  <2> HIDE DEF pn
  <2> QED BY <1>1, <2>1, <2>2, PanelKept
<1>9. CASE Deliver(b)
  <2> DEFINE event == Head(stream[b].queue)
             asks == panel[b].open /\ event.type \in Refreshing
             pn == IF asks THEN Asked(panel[b]) ELSE panel[b]
             seen == IF event.id = 0 THEN stream[b].seen ELSE Append(stream[b].seen, event)
             shown == IF Handles(b, event) THEN page[b].shown \cup {event} ELSE page[b].shown
             meanwhile == IF page[b].state = "answered" THEN page[b].meanwhile \cup {event.id}
                          ELSE page[b].meanwhile
  <2>1. /\ stream[b].queue # <<>>
        /\ stream' = [stream EXCEPT ![b].queue = Tail(stream[b].queue), ![b].seen = seen]
        /\ page' = [page EXCEPT ![b].shown = shown, ![b].meanwhile = meanwhile]
        /\ panel' = [panel EXCEPT ![b] = pn]
        /\ UNCHANGED <<unannounced, outbox, bridge, server, lost>> /\ UNCHANGED storeVars
    BY <1>9 DEF Deliver
  <2> HIDE DEF seen, shown, meanwhile
  <2>2. /\ stream'[b].queue = Tail(stream[b].queue)
        /\ \A c \in Browsers \ {b} : stream'[c] = stream[c]
    BY <1>1, <2>1 DEF Stream
  <2>3. /\ page'[b].state = page[b].state /\ \A c \in Browsers \ {b} : page'[c] = page[c]
    BY <1>1, <2>1 DEF Page
  <2>4. /\ Asked(panel[b]) \in Panel /\ Agrees(Asked(panel[b]))
        /\ Asked(panel[b]).open = panel[b].open
        /\ Asked(panel[b]).late <= Len(Asked(panel[b]).fetches)
    BY <1>1, AskedPanel
  <2>5. pn \in Panel /\ pn.open = panel[b].open /\ pn.late <= Len(pn.fetches)
    BY <1>1, <2>4
  <2>6. asks => Agrees(pn)
    BY <2>4
  <2>7. ASSUME pn.open, ~asks PROVE pn = panel[b] /\ (RefreshComing(b) => RefreshComing(b)')
    <3>1. ~Refreshes(event)
      BY <2>5, <2>7 DEF Refreshes
    <3>2. HasRefresh(stream[b].queue) => HasRefresh(stream'[b].queue)
      <4>1. PICK e : e \in Event
        BY NoEventTyped
      <4> QED BY <1>1, <2>1, <2>2, <3>1, <4>1, RefreshMoves
    <3> QED BY <2>1, <2>7, <3>2 DEF RefreshComing
  <2> HIDE DEF asks, pn
  <2> QED BY <1>1, <2>1, <2>2, <2>3, <2>5, <2>6, <2>7, PanelOne
<1> QED
  BY <1>3, <1>4, <1>5, <1>6, <1>7, <1>8, <1>9 DEF BrowserStep

(* The bridge starts before any page is loaded, and closes when the server *)
(* has stopped serving; no other step of the server concerns a panel.      *)
LEMMA PNext == BInv /\ KInv /\ MInv /\ PInv /\ [Next]_vars => PInv'
<1> SUFFICES ASSUME BInv, KInv, MInv, PInv, [Next]_vars PROVE PInv'
  OBVIOUS
<1>1. ASSUME UNCHANGED storeVars,
             UNCHANGED <<unannounced, outbox, stream, page, panel, lost>>,
             bridge'.inbox = bridge.inbox, server' = "serving" => server = "serving"
      PROVE  PInv'
  <2>1. PanelServed'
    BY <1>1 DEF PInv, PanelServed
  <2>2. \A b \in Browsers : RefreshComing(b) => RefreshComing(b)'
    BY <1>1 DEF RefreshComing
  <2> QED BY <1>1, <2>1, <2>2, PanelSame
<1>2. CASE BridgeSubscribes \/ BridgeCancels
  <2>1. /\ UNCHANGED storeVars
        /\ UNCHANGED <<unannounced, outbox, stream, page, panel, lost, server>>
        /\ bridge'.inbox = bridge.inbox
    BY <1>2 DEF BridgeSubscribes, BridgeCancels, BInv, StreamTyped
  <2> QED BY <1>1, <2>1
<1>3. CASE BridgeForwards
  <2>1. /\ Broadcast(Head(bridge.inbox)) /\ bridge.inbox # <<>>
        /\ bridge' = [bridge EXCEPT !.inbox = Tail(bridge.inbox)]
        /\ UNCHANGED storeVars /\ UNCHANGED <<unannounced, outbox, page, panel, server>>
    BY <1>3 DEF BridgeForwards
  <2>2. bridge'.inbox = Tail(bridge.inbox) /\ Head(bridge.inbox) \in Event
    BY <2>1 DEF BInv, StreamTyped
  <2> QED BY <2>1, <2>2, PanelBroadcast
<1>4. CASE Heartbeat
  <2> DEFINE e == [NoEvent EXCEPT !.type = "overview.refresh"]
  <2>1. /\ Broadcast(e) /\ UNCHANGED storeVars
        /\ UNCHANGED <<unannounced, outbox, page, panel, server, bridge>>
    BY <1>4 DEF Heartbeat
  <2>2. e \in Event
    BY DEF NoEvent, Event
  <2> HIDE DEF e
  <2> QED BY <2>1, <2>2, PanelBroadcast
<1>5. CASE Cancel \/ ShutdownReturns
  <2>1. /\ UNCHANGED storeVars
        /\ UNCHANGED <<unannounced, outbox, stream, page, panel, lost, bridge>>
        /\ server' # "serving"
    BY <1>5 DEF Cancel, ShutdownReturns
  <2> QED BY <1>1, <2>1
<1>6. CASE UNCHANGED vars
  BY <1>1, <1>6 DEF vars, streamVars
<1>7. ASSUME NEW p \in Publishers, PublisherStep(p) PROVE PInv'
  <2>1. CASE StoreStep(p)
    BY <2>1, PanelStore
  <2>2. CASE PublishAppends(p) \/ PublishLocks(p) \/ PublishSends(p)
    <3>1. UNCHANGED storeVars
      BY <2>2 DEF PublishAppends, PublishLocks, PublishSends
    <3> QED BY <2>2, <3>1, PanelPublish
  <2> QED BY <1>7, <2>1, <2>2 DEF PublisherStep
<1>8. ASSUME NEW b \in Browsers, BrowserStep(b) \/ Deliver(b) \/ HandlerStops(b) PROVE PInv'
  BY <1>8, PanelBrowser
<1> QED
  BY <1>2, <1>3, <1>4, <1>5, <1>6, <1>7, <1>8 DEF Next, BridgeStep

(* With nothing lost, nothing on its way, every answer there and every     *)
(* change announced, the panel shows what the store has.                   *)
LEMMA PanelMeans == PInv => PanelAgrees
<1> SUFFICES ASSUME PInv, NEW b \in Browsers, Settled(b), ~unannounced, ~panel[b].stale
             PROVE  ShowsStore(panel[b])
  BY DEF PanelAgrees
<1>1. /\ panel[b].open /\ server = "serving" /\ lost[b] = {} /\ UnderWay(b) \subseteq {0}
      /\ panel[b].fetches = <<>>
  BY DEF Settled
<1>2. \A p \in Publishers : ~Refreshes(outbox[p].event)
  BY <1>1 DEF UnderWay, Refreshes
<1>3. ~HasRefresh(bridge.inbox)
  <2>1. \A i \in DOMAIN bridge.inbox : bridge.inbox[i].id \in UnderWay(b)
    BY DEF UnderWay, ToSet
  <2> QED BY <1>1, <2>1 DEF HasRefresh, Refreshes
<1>4. ~HasRefresh(stream[b].queue)
  <2>1. \A i \in DOMAIN stream[b].queue : stream[b].queue[i].id \in UnderWay(b)
    BY DEF UnderWay, ToSet
  <2> QED BY <1>1, <2>1 DEF HasRefresh, Refreshes
<1>5. Agrees(panel[b])
  BY <1>1, <1>2, <1>3, <1>4 DEF PInv, PanelsUpToDate, UpToDate, RefreshComing
<1>6. ~(panel[b].late < Len(panel[b].fetches))
  <2>1. panel[b].late \in Nat
    BY DEF PInv, PanelTyped, Panel
  <2>2. Len(panel[b].fetches) = 0
    BY <1>1
  <2> QED BY <2>1, <2>2
<1> QED BY <1>5, <1>6 DEF Agrees, ShowsStore

(* refreshPanelIfOpen and the answers of handleRemediations: once all that *)
(* is announced has arrived, a panel on a stream that lost no event shows  *)
(* the store, unless the store changed since and nobody said so, or an     *)
(* answer arrived after a newer one; for any programs, publishers and      *)
(* browsers, any queues, any capacity and any eviction.                    *)
THEOREM PanelAgreesAlways == Spec => []PanelAgrees
BY BInit, BNext, KInit, KNext, MInit, MNext, PInit, PNext, PanelMeans, PTL DEF Spec
=============================================================================
