------------------------- MODULE MediaPlayerProofs -------------------------
(***************************************************************************)
(* Theorems about MediaPlayer, for any pages, targets, policies and depth  *)
(* of the queues, and with every fault the model knows.                    *)
(*                                                                         *)
(* The invariant looks at each entity and each page from its own side: an  *)
(* entity's queue and worker have pages that say so (EntityFits), and a    *)
(* page that waits is with the entity it says (PageFits).  Together no     *)
(* caller is forgotten by an overflow, a preemption, a failure or          *)
(* turn_off.  Most steps leave queues and workers alone (QuietStep).       *)
(***************************************************************************)
EXTENDS MediaPlayer, FiniteSetTheorems, TLAPS

PlayerTyped ==
    /\ ApiTypeOK
    /\ options \in [policy: Policies, globalLock: LockChoices]
    /\ page \in [Pages -> PageType]
    /\ player \in [Targets -> PlayerType]
    /\ lock \in Targets \cup {Nobody}
    /\ link \in {"up", "unregistered", "down"}

\* The worker has a page from the queue until it is told.
WorkerFits(e) ==
    /\ player[e].worker \in {"locking", "posting", "holding"} <=> player[e].current # NoPage
    /\ player[e].current # NoPage =>
          /\ page[player[e].current].place = "working"
          /\ page[player[e].current].target = e

\* The pages of the queue, each of them once, and an urgent one in front.
QueueFits(e) ==
    LET q == player[e].queue
    IN  /\ Len(q) <= QueueDepth
        /\ \A i \in DOMAIN q :
              /\ page[q[i]].place = "queued" /\ page[q[i]].target = e
              /\ Urgent(q[i]) => i = 1
        /\ \A i, j \in DOMAIN q : q[i] = q[j] => i = j
        /\ player[e].worker = "sleeping" /\ q # <<>> => player[e].wake

EntityFits(e) == WorkerFits(e) /\ QueueFits(e)

PageFits(p) ==
    /\ page[p].place = "queued" =>
          /\ page[p].target \in Targets
          /\ \E i \in DOMAIN player[page[p].target].queue :
                player[page[p].target].queue[i] = p
    /\ page[p].place = "working" =>
          page[p].target \in Targets /\ player[page[p].target].current = p

PlayerInv ==
    /\ PlayerTyped
    /\ \A e \in Targets : EntityFits(e)
    /\ \A p \in Pages : PageFits(p)
    /\ LockOwned

(***************************************************************************)
(* Types of the sidecar.                                                   *)
(***************************************************************************)
\* What is published is an event for a stream that is there.
LEMMA PublishedType ==
    ASSUME NEW b \in [stream: Seq(Events), subscribed: BOOLEAN],
           NEW type \in EventTypes, NEW c \in CallIds \cup {NoCall}
    PROVE  Published(b, type, c) \in [stream: Seq(Events), subscribed: BOOLEAN]
<1>. DEFINE ev == [type |-> type, call |-> c]
<1>1. ev \in Events
  BY DEF Events
<1>2. b.stream \in Seq(Events) /\ b.subscribed \in BOOLEAN
  OBVIOUS
<1>. HIDE DEF ev
<1>3. Append(b.stream, ev) \in Seq(Events)
  BY <1>1, <1>2
<1>4. [b EXCEPT !.stream = Append(@, ev)] \in [stream: Seq(Events), subscribed: BOOLEAN]
  BY <1>2, <1>3
<1>5. [b EXCEPT !.subscribed = FALSE] \in [stream: Seq(Events), subscribed: BOOLEAN]
  OBVIOUS
<1>. QED  BY <1>4, <1>5 DEF Published, ev

\* A request that is sent.
LEMMA PostType ==
    ASSUME ApiTypeOK, NEW r \in Requests, NEW e \in Targets, NEW policy \in ApiPolicies,
           Sends(r, e, policy)
    PROVE  ApiTypeOK'
<1>. DEFINE q == [request[r] EXCEPT !.stage = "resolving", !.target = e, !.policy = policy]
<1>1. request \in [Requests -> RequestType] /\ request[r] \in RequestType
  BY DEF ApiTypeOK
<1>2. q \in RequestType
  BY <1>1 DEF RequestType
<1>3. request' = [request EXCEPT ![r] = q]
  BY DEF Sends, Post
<1>. HIDE DEF q
<1>4. request' \in [Requests -> RequestType]
  BY <1>1, <1>2, <1>3
<1>. QED  BY <1>4 DEF ApiTypeOK, Sends

\* A hangup or a pause that is asked for.
LEMMA AskType ==
    ASSUME ApiTypeOK, NEW c \in CallIds, NEW name \in {"hangup", "pause", "resume"},
           Ask(name, c), UNCHANGED <<request, call, bus, registered>>
    PROVE  ApiTypeOK'
<1>1. command' \subseteq Commands
  BY DEF ApiTypeOK, Ask, Commands
<1>. QED  BY <1>1 DEF ApiTypeOK

\* A call whose player did not open.
LEMMA UnplayableType ==
    ASSUME NEW s \in CallType
    PROVE  /\ Unplayable(s) \in CallType /\ Unplayable(s).stage = "confirmed"
           /\ Unplayable(s).target = s.target
           /\ Unplayable(s).hung /\ Unplayable(s).unplayable
BY DEF Unplayable, CallType

\* A handler's step.
LEMMA RequestStepType ==
    ASSUME ApiTypeOK, NEW r \in Requests,
           \/ Decide(r) \/ HangUpTarget(r) \/ Replace(r) \/ Refuse(r)
           \/ \E c \in CallIds : Dial(r, c) \/ DialFails(r, c)
    PROVE  ApiTypeOK'
<1>. USE DEF ApiTypeOK
<1>1. bus \in [stream: Seq(Events), subscribed: BOOLEAN] /\ NoCall \in CallIds \cup {NoCall}
  OBVIOUS
<1>2. CASE Decide(r)
  <2>1. request' \in [Requests -> RequestType]
    BY <1>2 DEF Decide, RequestType, InFlight
  <2>. QED  BY <1>2, <2>1 DEF Decide
<1>3. CASE HangUpTarget(r)
  <2>1. request' \in [Requests -> RequestType]
    BY <1>3 DEF HangUpTarget, RequestType
  <2>2. call' \in [CallIds -> CallType]
    BY <1>3 DEF HangUpTarget, CallType
  <2>. QED  BY <1>3, <2>1, <2>2 DEF HangUpTarget
<1>4. CASE Replace(r)
  <2>1. request' \in [Requests -> RequestType]
    BY <1>4 DEF Replace, RequestType
  <2>2. call' \in [CallIds -> CallType]
    <3>. DEFINE d == request[r].call
    <3>1. \/ call' = call
          \/ call' = [call EXCEPT ![d].stage = "playback_started", ![d].paused = FALSE]
          \/ call' = [call EXCEPT ![d] = Unplayable(call[d])]
      BY <1>4 DEF Replace
    <3>2. call \in [CallIds -> CallType]
      OBVIOUS
    <3>3. [call EXCEPT ![d].stage = "playback_started", ![d].paused = FALSE]
             \in [CallIds -> CallType]
      BY <3>2 DEF CallType
    <3>. HIDE DEF d
    <3>4. d \in CallIds => Unplayable(call[d]) \in CallType
      BY <3>2, UnplayableType
    <3>. QED  BY <3>1, <3>2, <3>3, <3>4
  <2>. DEFINE c == request[r].call
              stopped == IF call[c].stage = "playback_started"
                         THEN Published(bus, "playback_finished", c) ELSE bus
              B == [stream: Seq(Events), subscribed: BOOLEAN]
  <2>3. c \in CallIds
    BY <1>4 DEF Replace, Live
  <2>4. \/ bus' = bus
        \/ bus' = Published(stopped, "playback_started", c)
        \/ bus' = Published(stopped, "disconnected", c)
    BY <1>4 DEF Replace
  <2>5. stopped \in B
    BY <1>1, <2>3, PublishedType DEF EventTypes
  <2>. HIDE DEF stopped, c
  <2>6. /\ Published(stopped, "playback_started", c) \in B
        /\ Published(stopped, "disconnected", c) \in B
    BY <2>3, <2>5, PublishedType DEF EventTypes
  <2>7. bus' \in B
    BY <1>1, <2>4, <2>6
  <2>. QED  BY <1>4, <2>1, <2>2, <2>7 DEF Replace
<1>5. CASE Refuse(r)
  <2>1. request' \in [Requests -> RequestType]
    BY <1>5 DEF Refuse, RequestType
  <2>. QED  BY <1>5, <2>1 DEF Refuse
<1>6. ASSUME NEW c \in CallIds, Dial(r, c) PROVE ApiTypeOK'
  <2>1. request' \in [Requests -> RequestType]
    BY <1>6 DEF Dial, RequestType
  <2>2. call' \in [CallIds -> CallType]
    <3>1. call' = [call EXCEPT ![c].stage = "calling", ![c].target = request[r].target]
      BY <1>6 DEF Dial
    <3>2. request[r].target \in Targets \cup {NoTarget} /\ call \in [CallIds -> CallType]
      BY DEF RequestType
    <3>. QED  BY <3>1, <3>2 DEF CallType
  <2>3. bus' \in [stream: Seq(Events), subscribed: BOOLEAN]
    BY <1>1, <1>6, PublishedType DEF Dial, EventTypes
  <2>. QED  BY <1>6, <2>1, <2>2, <2>3 DEF Dial
<1>7. ASSUME NEW c \in CallIds, DialFails(r, c) PROVE ApiTypeOK'
  <2>1. request' \in [Requests -> RequestType]
    <3>1. request' = [request EXCEPT ![r].stage = "refused"]
      BY <1>7 DEF DialFails
    <3>2. request \in [Requests -> RequestType]
      OBVIOUS
    <3>. QED  BY <3>1, <3>2 DEF RequestType
  <2>2. call' \in [CallIds -> CallType]
    BY <1>7 DEF DialFails, CallType, RequestType
  <2>3. Published(bus, "calling", c) \in [stream: Seq(Events), subscribed: BOOLEAN]
    BY <1>1, PublishedType DEF EventTypes
  <2>4. bus' \in [stream: Seq(Events), subscribed: BOOLEAN]
    BY <1>7, <2>3, PublishedType DEF DialFails, EventTypes
  <2>. QED  BY <1>7, <2>1, <2>2, <2>4 DEF DialFails
<1>. QED  BY <1>2, <1>3, <1>4, <1>5, <1>6, <1>7

\* A step of the SIP thread or of a call.
LEMMA CallStepType ==
    ASSUME ApiTypeOK,
           \/ \E cmd \in Commands : Obey(cmd)
           \/ \E c \in CallIds : CallMoves(c) \/ PlayerFails(c) \/ CallEnds(c)
           \/ RegistrationChanges
    PROVE  ApiTypeOK'
<1>. USE DEF ApiTypeOK
<1>1. bus \in [stream: Seq(Events), subscribed: BOOLEAN] /\ NoCall \in CallIds \cup {NoCall}
  OBVIOUS
<1>2. ASSUME NEW cmd \in Commands, Obey(cmd) PROVE ApiTypeOK'
  <2>1. cmd.call \in CallIds
    BY DEF Commands
  <2>. DEFINE c == cmd.call
  <2>2. \/ /\ call' = [call EXCEPT ![c].hung = TRUE] /\ bus' = bus
        \/ /\ call' = [call EXCEPT ![c].paused = ~@]
           /\ \/ bus' = Published(bus, "playback_paused", c)
              \/ bus' = Published(bus, "playback_resumed", c)
        \/ call' = call /\ bus' = bus
    BY <1>2 DEF Obey
  <2>. HIDE DEF c
  <2>3. c \in CallIds
    BY <2>1 DEF c
  <2>4. call' \in [CallIds -> CallType]
    <3>1. call \in [CallIds -> CallType] /\ call[c] \in CallType
      BY <2>3
    <3>2. [call EXCEPT ![c].hung = TRUE] \in [CallIds -> CallType]
      BY <3>1, <2>3 DEF CallType
    <3>3. [call EXCEPT ![c].paused = ~@] \in [CallIds -> CallType]
      BY <3>1, <2>3 DEF CallType
    <3>. QED  BY <2>2, <3>1, <3>2, <3>3
  <2>5. /\ Published(bus, "playback_paused", c) \in [stream: Seq(Events), subscribed: BOOLEAN]
        /\ Published(bus, "playback_resumed", c) \in [stream: Seq(Events), subscribed: BOOLEAN]
    BY <1>1, <2>3, PublishedType DEF EventTypes
  <2>6. bus' \in [stream: Seq(Events), subscribed: BOOLEAN]
    BY <1>1, <2>2, <2>5
  <2>7. command' \subseteq Commands /\ UNCHANGED <<request, registered>>
    BY <1>2 DEF Obey
  <2>. QED  BY <2>4, <2>6, <2>7
<1>3. ASSUME NEW c \in CallIds,
             NEW from \in {"calling", "confirmed", "playback_started"},
             NEW to \in {"confirmed", "playback_started", "playback_finished"},
             Moves(c, from, to)
      PROVE  ApiTypeOK'
  <2>1. call' \in [CallIds -> CallType]
    BY <1>3 DEF Moves, CallType
  <2>2. bus' \in [stream: Seq(Events), subscribed: BOOLEAN]
    BY <1>1, <1>3, PublishedType DEF Moves, EventTypes
  <2>. QED  BY <1>3, <2>1, <2>2 DEF Moves
<1>4. ASSUME NEW c \in CallIds, CallEnds(c) PROVE ApiTypeOK'
  <2>1. call' \in [CallIds -> CallType]
    BY <1>4 DEF CallEnds, CallType
  <2>. DEFINE b == IF call[c].stage = "playback_started"
                   THEN Published(bus, "playback_finished", c) ELSE bus
  <2>2. b \in [stream: Seq(Events), subscribed: BOOLEAN]
    BY <1>1, PublishedType DEF EventTypes
  <2>3. bus' = Published(b, "disconnected", c)
    BY <1>4 DEF CallEnds
  <2>. HIDE DEF b
  <2>4. bus' \in [stream: Seq(Events), subscribed: BOOLEAN]
    BY <2>2, <2>3, PublishedType DEF EventTypes
  <2>. QED  BY <1>4, <2>1, <2>4 DEF CallEnds
<1>5. ASSUME RegistrationChanges PROVE ApiTypeOK'
  <2>1. \E type \in {"unregistered", "registered"} : bus' = Published(bus, type, NoCall)
    BY <1>5 DEF RegistrationChanges
  <2>2. bus' \in [stream: Seq(Events), subscribed: BOOLEAN]
    BY <1>1, <2>1, PublishedType DEF EventTypes
  <2>. QED  BY <1>5, <2>2 DEF RegistrationChanges
<1>6. ASSUME NEW c \in CallIds, PlayerFails(c) PROVE ApiTypeOK'
  <2>1. call' \in [CallIds -> CallType]
    BY <1>6, UnplayableType DEF PlayerFails
  <2>2. bus' \in [stream: Seq(Events), subscribed: BOOLEAN]
    BY <1>1, <1>6, PublishedType DEF PlayerFails, EventTypes
  <2>. QED  BY <1>6, <2>1, <2>2 DEF PlayerFails
<1>. QED  BY <1>2, <1>3, <1>4, <1>5, <1>6 DEF CallMoves

\* Whatever the sidecar does.
LEMMA SidecarType ==
    ASSUME ApiTypeOK, SidecarStep
    PROVE  ApiTypeOK'
BY RequestStepType, CallStepType DEF SidecarStep

(***************************************************************************)
(* Steps that leave queues and workers alone.                              *)
(***************************************************************************)
Waits(place) == place \in {"queued", "working"}

\* Entities as their queues and workers see them.
SameWork(e) ==
    /\ player'[e].queue = player[e].queue /\ player'[e].worker = player[e].worker
    /\ player'[e].current = player[e].current /\ player'[e].wake = player[e].wake

\* No page that waits is touched, and no queue, worker or lock.
LEMMA QuietStep ==
    ASSUME PlayerInv, PlayerTyped', UNCHANGED <<options, lock>>,
           \A e \in Targets : SameWork(e),
           \A p \in Pages : \/ page'[p] = page[p]
                            \/ ~Waits(page[p].place) /\ ~Waits(page'[p].place)
    PROVE  PlayerInv'
<1>1. \A p \in Pages : /\ Waits(page[p].place) => page'[p] = page[p]
                       /\ Waits(page'[p].place) => page'[p] = page[p]
  OBVIOUS
<1>2. ASSUME NEW e \in Targets PROVE EntityFits(e)'
  <2>1. EntityFits(e) /\ SameWork(e)
    BY DEF PlayerInv
  <2>2. player[e].current \in Pages \cup {NoPage} /\ player[e].queue \in Seq(Pages)
    BY DEF PlayerInv, PlayerTyped, PlayerType
  <2>3. WorkerFits(e)'
    BY <1>1, <2>1, <2>2 DEF EntityFits, WorkerFits, SameWork, Waits
  <2>4. QueueFits(e)'
    <3>. DEFINE q == player[e].queue
    <3>1. player'[e].queue = q /\ \A i \in DOMAIN q : q[i] \in Pages
      BY <2>1, <2>2 DEF SameWork
    <3>2. \A i \in DOMAIN q : page'[q[i]] = page[q[i]]
      BY <1>1, <2>1, <3>1 DEF EntityFits, QueueFits, Waits
    <3>. QED  BY <2>1, <3>1, <3>2 DEF EntityFits, QueueFits, SameWork, Urgent
  <2>. QED  BY <2>3, <2>4 DEF EntityFits
<1>3. ASSUME NEW p \in Pages PROVE PageFits(p)'
  <2>1. PageFits(p)
    BY DEF PlayerInv
  <2>2. CASE ~Waits(page'[p].place)
    BY <2>2 DEF PageFits, Waits
  <2>3. CASE page'[p] = page[p]
    <3>1. \A e \in Targets : /\ player'[e].queue = player[e].queue
                             /\ player'[e].current = player[e].current
      BY DEF SameWork
    <3>. QED  BY <2>1, <2>3, <3>1 DEF PageFits
  <2>. QED  BY <1>1, <2>2, <2>3
<1>4. LockOwned'
  BY DEF PlayerInv, LockOwned, SameWork
<1>. QED  BY <1>2, <1>3, <1>4 DEF PlayerInv

\* A response to a page that replaces a clip, or none.
LEMMA ReplacementStep ==
    ASSUME PlayerInv, NEW p \in Pages,
           Replaced(p) \/ ReplaceFails(p) \/ \E e \in Targets : ReplaceNow(p, e)
    PROVE  PlayerInv'
<1>. USE DEF PlayerInv, PlayerTyped
<1>1. CASE Replaced(p)
  <2>1. page' \in [Pages -> PageType]
    BY <1>1 DEF Replaced, PageType
  <2>2. request[p].call \in CallIds \cup {NoCall}
    BY DEF ApiTypeOK, RequestType, Pages
  <2>3. player' = [e \in Targets |->
                     IF e = page[p].target
                     THEN [player[e] EXCEPT !.callId = request[p].call, !.paused = FALSE]
                     ELSE player[e]]
    BY <1>1 DEF Replaced
  <2>4. ASSUME NEW e \in Targets PROVE player'[e] \in PlayerType /\ SameWork(e)
    <3>1. player[e] \in PlayerType
      OBVIOUS
    <3>. QED  BY <2>2, <2>3, <3>1 DEF PlayerType, SameWork
  <2>5. player' \in [Targets -> PlayerType]
    BY <2>3, <2>4
  <2>6. PlayerTyped'
    BY <1>1, <2>1, <2>5 DEF Replaced, apiVars, ApiTypeOK
  <2>7. \A r \in Pages : \/ page'[r] = page[r]
                         \/ ~Waits(page[r].place) /\ ~Waits(page'[r].place)
    BY <1>1 DEF Replaced, Waits, PageType
  <2>. QED  BY <1>1, <2>4, <2>6, <2>7, QuietStep DEF Replaced
<1>2. CASE ReplaceFails(p)
  <2>1. page' \in [Pages -> PageType]
    BY <1>2 DEF ReplaceFails, Fail, PageType
  <2>2. PlayerTyped'
    BY <1>2, <2>1 DEF ReplaceFails, apiVars, ApiTypeOK
  <2>3. \A r \in Pages : \/ page'[r] = page[r]
                         \/ ~Waits(page[r].place) /\ ~Waits(page'[r].place)
    BY <1>2 DEF ReplaceFails, Fail, Waits, PageType
  <2>. QED  BY <1>2, <2>2, <2>3, QuietStep DEF ReplaceFails, SameWork
<1>3. ASSUME NEW e \in Targets, ReplaceNow(p, e) PROVE PlayerInv'
  <2>1. page' \in [Pages -> PageType]
    BY <1>3 DEF ReplaceNow, PageType
  <2>2. ApiTypeOK'
    BY <1>3, PostType DEF ReplaceNow, ApiPolicies, Pages
  <2>3. PlayerTyped'
    BY <1>3, <2>1, <2>2 DEF ReplaceNow
  <2>4. \A r \in Pages : \/ page'[r] = page[r]
                         \/ ~Waits(page[r].place) /\ ~Waits(page'[r].place)
    BY <1>3 DEF ReplaceNow, CanBeAsked, Waits, PageType
  <2>. QED  BY <1>3, <2>3, <2>4, QuietStep DEF ReplaceNow, SameWork
<1>. QED  BY <1>1, <1>2, <1>3

\* What an event does to an entity is not the queue's business.
LEMMA HandledType ==
    ASSUME NEW s \in PlayerType, NEW ev \in Events
    PROVE  /\ Handled(s, ev) \in PlayerType
           /\ Handled(s, ev).queue = s.queue /\ Handled(s, ev).worker = s.worker
           /\ Handled(s, ev).current = s.current /\ Handled(s, ev).wake = s.wake
<1>. DEFINE f == Forgotten(s)
<1>1. /\ f \in PlayerType /\ f.queue = s.queue /\ f.worker = s.worker
      /\ f.current = s.current /\ f.wake = s.wake
  BY DEF Forgotten, PlayerType
<1>2. ev.type \in EventTypes /\ Finished(s) \in {"none", "waiting", "done"}
  BY DEF Events, Finished, PlayerType
<1>3. CASE ev.call # s.callId
  BY <1>3 DEF Handled
<1>4. CASE ev.call = s.callId /\ ev.type = "playback_paused"
  <2>1. Handled(s, ev) = [s EXCEPT !.paused = TRUE]
    BY <1>4 DEF Handled
  <2>. QED  BY <2>1 DEF PlayerType
<1>5. CASE ev.call = s.callId /\ ev.type = "playback_resumed"
  <2>1. Handled(s, ev) = [s EXCEPT !.paused = FALSE]
    BY <1>5 DEF Handled
  <2>. QED  BY <2>1 DEF PlayerType
<1>6. CASE ev.call = s.callId /\ ev.type = "disconnected"
  <2>1. Handled(s, ev) = [f EXCEPT !.finish = Finished(s)]
    BY <1>6 DEF Handled
  <2>. HIDE DEF f
  <2>. QED  BY <1>1, <1>2, <2>1 DEF PlayerType
<1>7. CASE /\ ev.call = s.callId
           /\ ev.type \notin {"playback_paused", "playback_resumed", "disconnected"}
  <2>1. Handled(s, ev) = [s EXCEPT !.callState = ev.type]
    BY <1>7 DEF Handled
  <2>. QED  BY <1>2, <2>1 DEF PlayerType
<1>. QED  BY <1>3, <1>4, <1>5, <1>6, <1>7

\* An event of a call.
LEMMA DeliverStep ==
    ASSUME PlayerInv, DeliverCallEvent
    PROVE  PlayerInv'
<1>. USE DEF PlayerInv, PlayerTyped
<1>1. bus.stream \in Seq(Events) /\ bus.stream # <<>>
  BY DEF DeliverCallEvent, ApiTypeOK
<1>2. Head(bus.stream) \in Events /\ Tail(bus.stream) \in Seq(Events)
  BY <1>1
<1>3. \A e \in Targets : player'[e] \in PlayerType /\ SameWork(e)
  BY <1>2, HandledType DEF DeliverCallEvent, SameWork
<1>4. player' \in [Targets -> PlayerType]
  BY <1>3 DEF DeliverCallEvent
<1>5. ApiTypeOK'
  BY <1>2 DEF DeliverCallEvent, ApiTypeOK
<1>6. PlayerTyped'
  BY <1>4, <1>5 DEF DeliverCallEvent
<1>. QED  BY <1>3, <1>6, QuietStep DEF DeliverCallEvent

\* The link breaks, returns, or brings a registration.
LEMMA LinkStep ==
    ASSUME PlayerInv, DeliverRegistration \/ LinkBreaks \/ LinkReturns
    PROVE  PlayerInv'
<1>. USE DEF PlayerInv, PlayerTyped
<1>1. PICK status \in {"up", "unregistered", "down"} : LinkBecomes(status)
  BY DEF DeliverRegistration, LinkBreaks, LinkReturns
<1>2. ASSUME NEW e \in Targets PROVE player'[e] \in PlayerType /\ SameWork(e)
  <2>1. player[e] \in PlayerType
    OBVIOUS
  <2>2. player'[e] = player[e] \/ player'[e] = Forgotten(player[e])
    BY <1>1 DEF LinkBecomes
  <2>. QED  BY <2>1, <2>2 DEF Forgotten, PlayerType, SameWork
<1>3. player' \in [Targets -> PlayerType]
  BY <1>1, <1>2 DEF LinkBecomes
<1>4. bus' \in [stream: Seq(Events), subscribed: BOOLEAN]
  <2>1. CASE DeliverRegistration
    <3>1. bus.stream \in Seq(Events) /\ bus.stream # <<>>
      BY <2>1 DEF DeliverRegistration, ApiTypeOK
    <3>2. Tail(bus.stream) \in Seq(Events)
      BY <3>1
    <3>. QED  BY <2>1, <3>2 DEF DeliverRegistration, ApiTypeOK
  <2>2. CASE LinkBreaks
    BY <2>2 DEF LinkBreaks
  <2>3. CASE LinkReturns
    BY <2>3 DEF LinkReturns, ApiTypeOK
  <2>. QED  BY <2>1, <2>2, <2>3
<1>5. PlayerTyped'
  BY <1>1, <1>3, <1>4 DEF LinkBecomes, ApiTypeOK
<1>. QED  BY <1>1, <1>2, <1>5, QuietStep DEF LinkBecomes

\* A user who turns on, stops or pauses.
LEMMA UserStep ==
    ASSUME PlayerInv, NEW e \in Targets,
           TurnOn(e) \/ MediaStop(e) \/ \E name \in {"pause", "resume"} : SetPaused(e, name)
    PROVE  PlayerInv'
<1>. USE DEF PlayerInv, PlayerTyped
<1>1. CASE TurnOn(e)
  <2>. DEFINE s == [player[e] EXCEPT !.enabled = TRUE]
  <2>1. /\ s \in PlayerType /\ s.queue = player[e].queue /\ s.worker = player[e].worker
        /\ s.current = player[e].current /\ s.wake = player[e].wake
    BY DEF PlayerType
  <2>2. player' = [player EXCEPT ![e] = s]
    BY <1>1 DEF TurnOn
  <2>. HIDE DEF s
  <2>3. player' \in [Targets -> PlayerType] /\ \A f \in Targets : SameWork(f)
    BY <2>1, <2>2 DEF SameWork
  <2>4. PlayerTyped'
    BY <1>1, <2>3 DEF TurnOn, apiVars, ApiTypeOK
  <2>. QED  BY <1>1, <2>3, <2>4, QuietStep DEF TurnOn
<1>2. ASSUME NEW name \in {"hangup", "pause", "resume"}, player[e].callId # NoCall,
             Ask(name, player[e].callId),
             UNCHANGED <<request, call, bus, registered, playerVars>>
      PROVE  PlayerInv'
  <2>1. player[e].callId \in CallIds
    BY <1>2 DEF PlayerType
  <2>2. ApiTypeOK'
    BY <1>2, <2>1, AskType
  <2>3. PlayerTyped' /\ \A f \in Targets : SameWork(f)
    BY <1>2, <2>2 DEF playerVars, SameWork
  <2>. QED  BY <1>2, <2>3, QuietStep DEF playerVars
<1>. QED  BY <1>1, <1>2 DEF MediaStop, Stops, SetPaused

\* The sidecar has no part in the queues.
LEMMA SidecarsStep ==
    ASSUME PlayerInv, Sidecar
    PROVE  PlayerInv'
<1>1. ApiTypeOK' /\ UNCHANGED playerVars
  BY SidecarType DEF Sidecar, PlayerInv, PlayerTyped
<1>2. PlayerTyped' /\ \A e \in Targets : SameWork(e)
  BY <1>1 DEF playerVars, PlayerInv, PlayerTyped, SameWork
<1>. QED  BY <1>1, <1>2, QuietStep DEF playerVars

(***************************************************************************)
(* Steps of one queue and its worker.                                      *)
(***************************************************************************)
\* Only one entity and its pages change: the others fit as before.
LEMMA OneEntity ==
    ASSUME PlayerInv, PlayerTyped', NEW e \in Targets,
           \A f \in Targets \ {e} : player'[f] = player[f],
           EntityFits(e)', LockOwned',
           \A p \in Pages :
              /\ page'[p] # page[p] => page[p].target = e \/ ~Waits(page[p].place)
              /\ page'[p].target = e => PageFits(p)'
              /\ page'[p].target # e => page'[p] = page[p] \/ ~Waits(page'[p].place)
    PROVE  PlayerInv'
<1>1. ASSUME NEW f \in Targets, f # e PROVE EntityFits(f)'
  <2>1. EntityFits(f) /\ player'[f] = player[f]
    BY <1>1 DEF PlayerInv
  <2>2. player[f].current \in Pages \cup {NoPage} /\ player[f].queue \in Seq(Pages)
    BY DEF PlayerInv, PlayerTyped, PlayerType
  <2>3. \A p \in Pages : page[p].target = f /\ Waits(page[p].place) => page'[p] = page[p]
    BY <1>1
  <2>4. WorkerFits(f)'
    BY <2>1, <2>2, <2>3 DEF EntityFits, WorkerFits, Waits
  <2>5. QueueFits(f)'
    <3>. DEFINE q == player[f].queue
    <3>1. player'[f].queue = q /\ \A i \in DOMAIN q : q[i] \in Pages
      BY <2>1, <2>2
    <3>2. \A i \in DOMAIN q : page'[q[i]] = page[q[i]]
      BY <2>1, <2>3, <3>1 DEF EntityFits, QueueFits, Waits
    <3>. QED  BY <2>1, <3>1, <3>2 DEF EntityFits, QueueFits, Urgent
  <2>. QED  BY <2>4, <2>5 DEF EntityFits
<1>2. ASSUME NEW p \in Pages PROVE PageFits(p)'
  <2>1. CASE page'[p].target = e
    BY <2>1
  <2>2. CASE ~Waits(page'[p].place)
    BY <2>2 DEF PageFits, Waits
  <2>3. CASE page'[p].target # e /\ page'[p] = page[p]
    <3>1. PageFits(p)
      BY DEF PlayerInv
    <3>. QED  BY <2>3, <3>1 DEF PageFits
  <2>. QED  BY <2>1, <2>2, <2>3
<1>. QED  BY <1>1, <1>2 DEF PlayerInv

\* An entity that was replaced by another record.
LEMMA NewEntity ==
    ASSUME player \in [Targets -> PlayerType], NEW e \in Targets, NEW s \in PlayerType,
           player' = [player EXCEPT ![e] = s]
    PROVE  /\ player' \in [Targets -> PlayerType] /\ player'[e] = s
           /\ \A f \in Targets \ {e} : player'[f] = player[f]
OBVIOUS

\* The worker wakes, or finds its queue empty.
LEMMA RestingStep ==
    ASSUME PlayerInv, NEW e \in Targets, WorkerWakes(e) \/ WorkerSleeps(e)
    PROVE  PlayerInv'
<1>. DEFINE old == player[e]
            s == player'[e]
<1>1. EntityFits(e) /\ old \in PlayerType /\ player \in [Targets -> PlayerType]
  BY DEF PlayerInv, PlayerTyped
<1>2. /\ s \in PlayerType /\ s.queue = old.queue /\ s.current = old.current
      /\ s.worker \in {"looking", "sleeping"}
      /\ s.worker = "sleeping" /\ s.queue # <<>> => s.wake
      /\ old.worker \in {"looking", "sleeping"}
      /\ player' = [player EXCEPT ![e] = s]
  <2>1. CASE WorkerWakes(e)
    <3>1. player' = [player EXCEPT ![e] = [player[e] EXCEPT !.worker = "looking"]]
      BY <2>1 DEF WorkerWakes
    <3>2. s = [player[e] EXCEPT !.worker = "looking"]
      BY <1>1, <3>1
    <3>. QED  BY <1>1, <2>1, <3>1, <3>2 DEF WorkerWakes, PlayerType
  <2>2. CASE WorkerSleeps(e)
    <3>1. player' = [player EXCEPT ![e] = [player[e] EXCEPT !.worker = "sleeping", !.wake = FALSE]]
      BY <1>1, <2>2 DEF WorkerSleeps
    <3>2. s = [player[e] EXCEPT !.worker = "sleeping", !.wake = FALSE]
      BY <1>1, <3>1
    <3>. QED  BY <1>1, <2>2, <3>1, <3>2 DEF WorkerSleeps, PlayerType
  <2>. QED  BY <2>1, <2>2
<1>3. UNCHANGED <<apiVars, options, page, lock, link>>
  BY DEF WorkerWakes, WorkerSleeps
<1>. HIDE DEF s
<1>4. player' \in [Targets -> PlayerType] /\ \A f \in Targets \ {e} : player'[f] = player[f]
  BY <1>1, <1>2, NewEntity
<1>5. PlayerTyped'
  BY <1>3, <1>4 DEF PlayerInv, PlayerTyped, apiVars, ApiTypeOK
<1>6. EntityFits(e)'
  BY <1>1, <1>2, <1>3 DEF EntityFits, WorkerFits, QueueFits, Urgent, s
<1>7. LockOwned'
  BY <1>1, <1>2, <1>3, <1>4 DEF PlayerInv, LockOwned, s
<1>8. \A p \in Pages : page'[p].target = e => PageFits(p)'
  BY <1>2, <1>3, <1>4 DEF PlayerInv, PageFits, s
<1>. QED  BY <1>3, <1>4, <1>5, <1>6, <1>7, <1>8, OneEntity

\* A page joins a queue and whoever makes room for it is told.
LEMMA EnqueueStep ==
    ASSUME PlayerInv, PlayerAssumption, NEW p \in Pages, NEW e \in Targets, Enqueue(p, e)
    PROVE  PlayerInv'
<1>. DEFINE old == player[e]
            q == old.queue
            r == QueueAfter(p, e)
            s == [old EXCEPT !.queue = r, !.wake = TRUE]
<1>1. EntityFits(e) /\ old \in PlayerType /\ player \in [Targets -> PlayerType]
  BY DEF PlayerInv, PlayerTyped
<1>2. q \in Seq(Pages) /\ Len(q) <= QueueDepth /\ QueueDepth \in Nat \ {0}
  BY <1>1 DEF PlayerType, EntityFits, QueueFits, PlayerAssumption
<1>3. page \in [Pages -> PageType] /\ page[p].place = "new"
  BY DEF PlayerInv, PlayerTyped, Enqueue, CanBeAsked
<1>4. \A i \in DOMAIN q : /\ q[i] \in Pages /\ q[i] # p
                          /\ page[q[i]].place = "queued" /\ page[q[i]].target = e
                          /\ Urgent(q[i]) => i = 1
  BY <1>1, <1>2, <1>3 DEF EntityFits, QueueFits
<1>5. \A i, j \in DOMAIN q : q[i] = q[j] => i = j
  BY <1>1 DEF EntityFits, QueueFits
<1>6. Urgent(p) => Policy(p) = "preempt"
  BY DEF Policy
\* The queue afterwards: p at its end, and of the others those not displaced.
<1>7. /\ r \in Seq(Pages) /\ Len(r) \in 1..QueueDepth /\ r[Len(r)] = p
      /\ Urgent(p) => Len(r) = 1
      /\ \A i \in DOMAIN r : i # Len(r) =>
            /\ r[i] \in Range(q) \ Displaced(p, e)
            /\ ~Urgent(r[i]) \/ i = 1
      /\ \A i, j \in DOMAIN r : r[i] = r[j] => i = j
      /\ \A x \in Range(q) \ Displaced(p, e) : \E i \in DOMAIN r : r[i] = x
  <2>1. CASE Policy(p) = "preempt"
    <3>1. r = <<p>> /\ Displaced(p, e) = Range(q)
      BY <2>1 DEF QueueAfter, Displaced
    <3>. HIDE DEF r, q
    <3>. QED  BY <1>2, <3>1
  <2>2. CASE Policy(p) # "preempt" /\ Len(q) = QueueDepth
    <3>1. r = Append(Tail(q), p) /\ Displaced(p, e) = {q[1]}
      BY <2>2 DEF QueueAfter, Displaced
    <3>. HIDE DEF r, q
    <3>2. /\ r \in Seq(Pages) /\ Len(r) = QueueDepth /\ r[Len(r)] = p
          /\ \A i \in DOMAIN r : i # Len(r) => i + 1 \in DOMAIN q /\ r[i] = q[i + 1]
      BY <1>2, <2>2, <3>1
    <3>3. \A i \in DOMAIN r : i # Len(r) =>
             /\ r[i] \in Range(q) \ Displaced(p, e)
             /\ ~Urgent(r[i]) \/ i = 1
      BY <1>2, <1>4, <1>5, <2>2, <3>1, <3>2 DEF Range
    <3>4. \A i, j \in DOMAIN r : r[i] = r[j] => i = j
      BY <1>2, <1>4, <1>5, <2>2, <3>2
    <3>5. ASSUME NEW x \in Range(q) \ Displaced(p, e) PROVE \E i \in DOMAIN r : r[i] = x
      <4>1. PICK j \in DOMAIN q : q[j] = x
        BY <3>5 DEF Range
      <4>2. j # 1 /\ j - 1 \in DOMAIN r /\ j - 1 # Len(r)
        BY <1>2, <2>2, <3>1, <3>2, <3>5, <4>1
      <4>3. r[j - 1] = q[j]
        BY <1>2, <3>2, <4>2
      <4>. QED  BY <4>1, <4>2, <4>3
    <3>. QED  BY <1>2, <1>6, <2>2, <3>2, <3>3, <3>4, <3>5
  <2>3. CASE Policy(p) # "preempt" /\ Len(q) # QueueDepth
    <3>1. r = Append(q, p) /\ Displaced(p, e) = {}
      BY <2>3 DEF QueueAfter, Displaced
    <3>. HIDE DEF r, q
    <3>2. /\ r \in Seq(Pages) /\ Len(r) = Len(q) + 1 /\ r[Len(r)] = p
          /\ \A i \in DOMAIN r : i # Len(r) => i \in DOMAIN q /\ r[i] = q[i]
          /\ \A i \in DOMAIN q : i \in DOMAIN r /\ i # Len(r)
      BY <1>2, <2>3, <3>1
    <3>3. \A i \in DOMAIN r : i # Len(r) =>
             /\ r[i] \in Range(q) \ Displaced(p, e)
             /\ ~Urgent(r[i]) \/ i = 1
      BY <1>4, <3>1, <3>2 DEF Range
    <3>4. \A i, j \in DOMAIN r : r[i] = r[j] => i = j
      BY <1>4, <1>5, <3>2
    <3>5. \A x \in Range(q) \ Displaced(p, e) : \E i \in DOMAIN r : r[i] = x
      BY <3>2 DEF Range
    <3>. QED  BY <1>2, <1>6, <2>3, <3>2, <3>3, <3>4, <3>5
  <2>. QED  BY <2>1, <2>2, <2>3
<1>8. Displaced(p, e) \subseteq Range(q)
  BY <1>2 DEF Displaced, Range
<1>9. player' = [player EXCEPT ![e] = s]
  BY <1>1 DEF Enqueue
<1>10. /\ s \in PlayerType /\ s.queue = r /\ s.wake = TRUE
       /\ s.worker = old.worker /\ s.current = old.current
  <2>. HIDE DEF r
  <2>. QED  BY <1>1, <1>7 DEF PlayerType
<1>. HIDE DEF s, r, q
<1>11. /\ page' = [x \in Pages |->
                     IF x = p THEN [place |-> "queued", target |-> e]
                     ELSE IF x \in Displaced(p, e)
                          THEN [page[x] EXCEPT !.place = "failed"] ELSE page[x]]
       /\ UNCHANGED <<apiVars, options, lock, link>>
  BY DEF Enqueue
<1>12. \A x \in Displaced(p, e) : page[x].place = "queued" /\ page[x].target = e /\ x # p
  BY <1>4, <1>8 DEF Range
<1>13. /\ page'[p].place = "queued" /\ page'[p].target = e
       /\ \A x \in Displaced(p, e) \cap Pages : page'[x].place = "failed"
       /\ \A x \in Pages : x # p /\ x \notin Displaced(p, e) => page'[x] = page[x]
       /\ page' \in [Pages -> PageType]
  BY <1>3, <1>11, <1>12 DEF PageType
<1>14. /\ player' \in [Targets -> PlayerType] /\ player'[e] = s
       /\ \A f \in Targets \ {e} : player'[f] = player[f]
  BY <1>1, <1>9, <1>10, NewEntity
<1>15. PlayerTyped'
  BY <1>11, <1>13, <1>14 DEF PlayerInv, PlayerTyped, apiVars, ApiTypeOK
<1>16. WorkerFits(e)'
  <2>1. old.current \in Pages \cup {NoPage} /\ WorkerFits(e)
    BY <1>1 DEF PlayerType, EntityFits
  <2>2. old.current # NoPage => old.current # p /\ old.current \notin Displaced(p, e)
    BY <1>3, <1>12, <2>1 DEF WorkerFits
  <2>. QED  BY <1>10, <1>13, <1>14, <2>1, <2>2 DEF WorkerFits
<1>17. QueueFits(e)'
  <2>1. \A i \in DOMAIN r : i # Len(r) =>
           /\ r[i] \in Pages /\ page'[r[i]] = page[r[i]]
           /\ page[r[i]].place = "queued" /\ page[r[i]].target = e
    BY <1>4, <1>7, <1>13 DEF Range
  <2>2. \A i \in DOMAIN r : /\ page'[r[i]].place = "queued" /\ page'[r[i]].target = e
                            /\ Urgent(r[i]) => i = 1
    BY <1>7, <1>13, <2>1
  <2>. QED  BY <1>7, <1>10, <1>14, <2>2 DEF QueueFits, Urgent
<1>18. LockOwned'
  BY <1>10, <1>11, <1>14 DEF PlayerInv, LockOwned
<1>19. ASSUME NEW x \in Pages, page'[x].target = e PROVE PageFits(x)'
  <2>1. CASE x = p
    <3>1. Len(r) \in DOMAIN r
      BY <1>7
    <3>. QED  BY <1>7, <1>10, <1>13, <1>14, <2>1, <3>1 DEF PageFits
  <2>2. CASE x # p /\ x \in Displaced(p, e)
    BY <1>13, <2>2 DEF PageFits
  <2>3. CASE x # p /\ x \notin Displaced(p, e)
    <3>1. page'[x] = page[x] /\ PageFits(x)
      BY <1>13, <2>3 DEF PlayerInv
    <3>2. page[x].place = "queued" => x \in Range(q)
      BY <1>19, <3>1 DEF PageFits, Range, q
    <3>3. page[x].place = "queued" => \E i \in DOMAIN r : r[i] = x
      BY <1>7, <2>3, <3>2
    <3>. QED  BY <1>10, <1>14, <1>19, <3>1, <3>3 DEF PageFits
  <2>. QED  BY <2>1, <2>2, <2>3
<1>20. \A x \in Pages :
          /\ page'[x] # page[x] => page[x].target = e \/ ~Waits(page[x].place)
          /\ page'[x].target # e => page'[x] = page[x] \/ ~Waits(page'[x].place)
  BY <1>3, <1>12, <1>13 DEF Waits
<1>. QED  BY <1>14, <1>15, <1>16, <1>17, <1>18, <1>19, <1>20, OneEntity DEF EntityFits

\* What is left of a queue without its head.
LEMMA TailFits ==
    ASSUME NEW q \in Seq(Pages), q # <<>>,
           \A i, j \in DOMAIN q : q[i] = q[j] => i = j
    PROVE  /\ Head(q) = q[1] /\ 1 \in DOMAIN q /\ Tail(q) \in Seq(Pages)
           /\ Len(Tail(q)) = Len(q) - 1
           /\ \A i \in DOMAIN Tail(q) : i + 1 \in DOMAIN q /\ Tail(q)[i] = q[i + 1]
           /\ \A i, j \in DOMAIN Tail(q) : Tail(q)[i] = Tail(q)[j] => i = j
           /\ \A i \in DOMAIN q : i # 1 => \E j \in DOMAIN Tail(q) : Tail(q)[j] = q[i]
<1>1. /\ Head(q) = q[1] /\ 1 \in DOMAIN q /\ Tail(q) \in Seq(Pages)
      /\ Len(Tail(q)) = Len(q) - 1
      /\ \A i \in DOMAIN Tail(q) : i + 1 \in DOMAIN q /\ Tail(q)[i] = q[i + 1]
  OBVIOUS
<1>2. \A i, j \in DOMAIN Tail(q) : Tail(q)[i] = Tail(q)[j] => i = j
  BY <1>1
<1>3. ASSUME NEW i \in DOMAIN q, i # 1 PROVE \E j \in DOMAIN Tail(q) : Tail(q)[j] = q[i]
  <2>1. i - 1 \in DOMAIN Tail(q) /\ Tail(q)[i - 1] = q[i]
    BY <1>1, <1>3
  <2>. QED  BY <2>1
<1>. QED  BY <1>1, <1>2, <1>3

\* The worker takes the first page, and sends it if the lock is there.
LEMMA TakeStep ==
    ASSUME PlayerInv, PlayerAssumption, NEW e \in Targets, TakePage(e)
    PROVE  PlayerInv'
<1>. DEFINE old == player[e]
            q == old.queue
            p == Head(q)
            s == player'[e]
<1>1. /\ EntityFits(e) /\ old \in PlayerType /\ player \in [Targets -> PlayerType]
      /\ page \in [Pages -> PageType] /\ NoPage \notin Pages
      /\ lock \in Targets \cup {Nobody} /\ Nobody \notin Targets
  BY DEF PlayerInv, PlayerTyped, PlayerAssumption, Pages
<1>2. /\ old.worker = "looking" /\ q # <<>> /\ page' = [page EXCEPT ![p].place = "working"]
      /\ UNCHANGED <<options, link>>
  BY DEF TakePage
<1>3. q \in Seq(Pages) /\ Len(q) <= QueueDepth /\ QueueDepth \in Nat \ {0}
  BY <1>1 DEF PlayerType, EntityFits, QueueFits, PlayerAssumption
<1>4. \A i \in DOMAIN q : /\ q[i] \in Pages /\ Urgent(q[i]) => i = 1
                          /\ page[q[i]].place = "queued" /\ page[q[i]].target = e
  BY <1>1, <1>3 DEF EntityFits, QueueFits
<1>5. \A i, j \in DOMAIN q : q[i] = q[j] => i = j
  BY <1>1 DEF EntityFits, QueueFits
<1>6. /\ p = q[1] /\ 1 \in DOMAIN q /\ Tail(q) \in Seq(Pages)
      /\ Len(Tail(q)) = Len(q) - 1
      /\ \A i \in DOMAIN Tail(q) : i + 1 \in DOMAIN q /\ Tail(q)[i] = q[i + 1]
      /\ \A i, j \in DOMAIN Tail(q) : Tail(q)[i] = Tail(q)[j] => i = j
      /\ \A i \in DOMAIN q : i # 1 => \E j \in DOMAIN Tail(q) : Tail(q)[j] = q[i]
  BY <1>2, <1>3, <1>5, TailFits
<1>. HIDE DEF p
<1>7. p \in Pages /\ page[p].place = "queued" /\ page[p].target = e
  BY <1>4, <1>6
<1>8. /\ ApiTypeOK'
      /\ s \in PlayerType /\ s.queue = Tail(q) /\ s.current = p
      /\ player' = [player EXCEPT ![e] = s]
      /\ \/ s.worker = "posting" /\ Granted(e) /\ LockTaken(e)
         \/ s.worker = "locking" /\ ~Granted(e) /\ lock' = lock
  <2>. DEFINE t == [old EXCEPT !.queue = Tail(q)]
  <2>1. t \in PlayerType /\ t.queue = Tail(q)
    BY <1>1, <1>6 DEF PlayerType
  <2>2. CASE /\ Granted(e) /\ LockTaken(e)
             /\ player' = [player EXCEPT ![e] = Sending(t, p)]
             /\ Sends(p, e, PostPolicy(p))
    <3>. HIDE DEF t
    <3>1. /\ Sending(t, p) \in PlayerType /\ Sending(t, p).queue = Tail(q)
          /\ Sending(t, p).current = p /\ Sending(t, p).worker = "posting"
      BY <1>7, <2>1 DEF Sending, PlayerType
    <3>2. ApiTypeOK'
      BY <1>7, <2>2, PostType DEF PlayerInv, PlayerTyped, PostPolicy, ApiPolicies, Pages
    <3>3. s = Sending(t, p)
      BY <1>1, <2>2
    <3>. QED  BY <2>2, <3>1, <3>2, <3>3
  <2>3. CASE /\ ~Granted(e) /\ UNCHANGED <<apiVars, lock>>
             /\ player' = [player EXCEPT ![e] = [t EXCEPT !.worker = "locking", !.current = p]]
    <3>. DEFINE w == [t EXCEPT !.worker = "locking", !.current = p]
    <3>. HIDE DEF t
    <3>1. w \in PlayerType /\ w.queue = Tail(q) /\ w.current = p /\ w.worker = "locking"
      BY <1>7, <2>1 DEF PlayerType
    <3>2. ApiTypeOK'
      BY <2>3 DEF PlayerInv, PlayerTyped, ApiTypeOK, apiVars
    <3>3. s = w
      BY <1>1, <2>3
    <3>. HIDE DEF w
    <3>4. player' = [player EXCEPT ![e] = w]
      BY <2>3 DEF w
    <3>. QED  BY <2>3, <3>1, <3>2, <3>3, <3>4
  <2>. QED  BY <2>2, <2>3 DEF TakePage, p
<1>. HIDE DEF s, q
<1>9. /\ player' \in [Targets -> PlayerType] /\ player'[e] = s
      /\ \A f \in Targets \ {e} : player'[f] = player[f]
  <2>1. player'[e] = s
    BY DEF s
  <2>. QED  BY <1>1, <1>8, <2>1, NewEntity
<1>10. /\ page'[p].place = "working" /\ page'[p].target = e
       /\ \A x \in Pages : x # p => page'[x] = page[x]
       /\ page' \in [Pages -> PageType]
  BY <1>1, <1>2, <1>7 DEF PageType
<1>11. lock' \in Targets \cup {Nobody}
  BY <1>1, <1>8 DEF LockTaken
<1>12. PlayerTyped'
  BY <1>2, <1>8, <1>9, <1>10, <1>11 DEF PlayerInv, PlayerTyped
<1>13. WorkerFits(e)'
  BY <1>1, <1>7, <1>8, <1>9, <1>10 DEF WorkerFits
<1>14. QueueFits(e)'
  <2>1. \A i \in DOMAIN Tail(q) :
           /\ Tail(q)[i] \in Pages /\ Tail(q)[i] # p
           /\ page[Tail(q)[i]].place = "queued" /\ page[Tail(q)[i]].target = e
           /\ ~Urgent(Tail(q)[i])
    BY <1>3, <1>4, <1>5, <1>6
  <2>2. Len(Tail(q)) <= QueueDepth
    BY <1>3, <1>6
  <2>3. s.worker # "sleeping"
    BY <1>8
  <2>. DEFINE t == Tail(q)
  <2>4. player'[e].queue = t /\ player'[e].worker # "sleeping"
    BY <1>8, <1>9, <2>3
  <2>5. \A i \in DOMAIN t : /\ page'[t[i]].place = "queued" /\ page'[t[i]].target = e
                            /\ Urgent(t[i]) => i = 1
    BY <1>10, <2>1
  <2>6. Len(t) <= QueueDepth /\ \A i, j \in DOMAIN t : t[i] = t[j] => i = j
    BY <1>6, <2>2
  <2>. HIDE DEF t
  <2>. QED  BY <2>4, <2>5, <2>6 DEF QueueFits, Urgent
<1>15. LockOwned'
  BY <1>1, <1>2, <1>8, <1>9 DEF PlayerInv, LockOwned, Granted, LockTaken
<1>16. ASSUME NEW x \in Pages, page'[x].target = e PROVE PageFits(x)'
  <2>1. CASE x = p
    BY <1>8, <1>9, <1>10, <2>1 DEF PageFits
  <2>2. CASE x # p
    <3>1. page'[x] = page[x] /\ PageFits(x) /\ page[x].target = e
      BY <1>10, <1>16, <2>2 DEF PlayerInv
    <3>2. page[x].place # "working"
      BY <1>1, <1>2, <3>1 DEF PageFits, EntityFits, WorkerFits
    <3>3. page[x].place = "queued" => \E i \in DOMAIN q : q[i] = x /\ i # 1
      BY <1>6, <2>2, <3>1 DEF PageFits, q
    <3>4. page[x].place = "queued" => \E j \in DOMAIN Tail(q) : Tail(q)[j] = x
      BY <1>6, <3>3
    <3>. QED  BY <1>8, <1>9, <3>1, <3>2, <3>4 DEF PageFits
  <2>. QED  BY <2>1, <2>2
<1>17. \A x \in Pages :
          /\ page'[x] # page[x] => page[x].target = e \/ ~Waits(page[x].place)
          /\ page'[x].target # e => page'[x] = page[x] \/ ~Waits(page'[x].place)
  BY <1>7, <1>10
<1>. QED  BY <1>9, <1>12, <1>13, <1>14, <1>15, <1>16, <1>17, OneEntity DEF EntityFits

\* The worker goes on with the page it has: the lock is there, or the answer.
LEMMA OnwardStep ==
    ASSUME PlayerInv, PlayerAssumption, NEW e \in Targets, GetLock(e) \/ PostAnswered(e)
    PROVE  PlayerInv'
<1>. DEFINE old == player[e]
            p == old.current
            s == player'[e]
<1>1. /\ EntityFits(e) /\ old \in PlayerType /\ player \in [Targets -> PlayerType]
      /\ lock \in Targets \cup {Nobody} /\ Nobody \notin Targets
      /\ old.worker \in {"locking", "posting"} /\ UNCHANGED <<options, page, link>>
  BY DEF PlayerInv, PlayerTyped, PlayerAssumption, GetLock, PostAnswered
<1>2. p \in Pages
  BY <1>1 DEF EntityFits, WorkerFits, PlayerType
<1>3. /\ ApiTypeOK'
      /\ s \in PlayerType /\ s.queue = old.queue /\ s.current = p
      /\ player' = [player EXCEPT ![e] = s]
      /\ \/ s.worker = "posting" /\ old.worker = "locking" /\ lock = Nobody /\ LockTaken(e)
         \/ s.worker = "holding" /\ old.worker = "posting" /\ lock' = lock
  <2>1. CASE GetLock(e)
    <3>1. /\ Sending(old, p) \in PlayerType /\ Sending(old, p).queue = old.queue
          /\ Sending(old, p).current = p /\ Sending(old, p).worker = "posting"
      BY <1>1, <1>2 DEF Sending, PlayerType
    <3>2. ApiTypeOK'
      BY <1>2, <2>1, PostType
      DEF GetLock, PlayerInv, PlayerTyped, PostPolicy, ApiPolicies, Pages
    <3>3. player' = [player EXCEPT ![e] = Sending(old, p)] /\ s = Sending(old, p)
      BY <1>1, <2>1 DEF GetLock
    <3>. QED  BY <2>1, <3>1, <3>2, <3>3 DEF GetLock
  <2>2. CASE PostAnswered(e)
    <3>. DEFINE c == request[p].call
    <3>1. c \in CallIds \cup {NoCall}
      BY <1>2 DEF PlayerInv, PlayerTyped, ApiTypeOK, RequestType, Pages
    <3>2. player' = [player EXCEPT ![e] = CallUp(old, c)] /\ s = CallUp(old, c)
      BY <1>1, <2>2 DEF PostAnswered
    <3>. HIDE DEF c
    <3>3. /\ CallUp(old, c) \in PlayerType /\ CallUp(old, c).queue = old.queue
          /\ CallUp(old, c).current = p /\ CallUp(old, c).worker = "holding"
      BY <1>1, <3>1 DEF CallUp, PlayerType, EventTypes
    <3>4. ApiTypeOK'
      BY <2>2 DEF PostAnswered, PlayerInv, PlayerTyped, ApiTypeOK, apiVars
    <3>. QED  BY <2>2, <3>2, <3>3, <3>4 DEF PostAnswered
  <2>. QED  BY <2>1, <2>2
<1>. HIDE DEF s, p
<1>4. /\ player' \in [Targets -> PlayerType] /\ player'[e] = s
      /\ \A f \in Targets \ {e} : player'[f] = player[f]
  <2>1. player'[e] = s
    BY DEF s
  <2>. QED  BY <1>1, <1>3, <2>1, NewEntity
<1>5. PlayerTyped'
  BY <1>1, <1>3, <1>4 DEF PlayerInv, PlayerTyped, LockTaken
<1>6. WorkerFits(e)'
  BY <1>1, <1>3, <1>4 DEF EntityFits, WorkerFits, p
<1>7. QueueFits(e)'
  BY <1>1, <1>3, <1>4 DEF EntityFits, QueueFits, Urgent
<1>8. LockOwned'
  BY <1>1, <1>3, <1>4 DEF PlayerInv, LockOwned, LockTaken
<1>9. \A x \in Pages : page'[x].target = e => PageFits(x)'
  BY <1>1, <1>3, <1>4 DEF PlayerInv, PageFits, p
<1>. QED  BY <1>1, <1>4, <1>5, <1>6, <1>7, <1>8, <1>9, OneEntity DEF EntityFits

\* The worker is done with its page, which failed or was played.
LEMMA FreedStep ==
    ASSUME PlayerInv, PlayerAssumption, NEW e \in Targets, PostFails(e) \/ HoldEnds(e)
    PROVE  PlayerInv'
<1>. DEFINE old == player[e]
            p == old.current
            s == player'[e]
<1>1. /\ EntityFits(e) /\ old \in PlayerType /\ player \in [Targets -> PlayerType]
      /\ page \in [Pages -> PageType] /\ NoPage \notin Pages
      /\ lock \in Targets \cup {Nobody} /\ Nobody \notin Targets
      /\ old.worker \in {"posting", "holding"} /\ UNCHANGED <<apiVars, options, link>>
      /\ lock' = Unlocked(e)
  BY DEF PlayerInv, PlayerTyped, PlayerAssumption, Pages, PostFails, HoldEnds
<1>2. p \in Pages /\ page[p].place = "working" /\ page[p].target = e
  BY <1>1 DEF EntityFits, WorkerFits, PlayerType
<1>3. /\ s \in PlayerType /\ s.queue = old.queue /\ s.current = NoPage /\ s.worker = "looking"
      /\ player' = [player EXCEPT ![e] = s]
  <2>1. CASE PostFails(e)
    <3>1. /\ player' = [player EXCEPT ![e] = [old EXCEPT !.worker = "looking", !.current = NoPage]]
          /\ s = [old EXCEPT !.worker = "looking", !.current = NoPage]
      BY <1>1, <2>1 DEF PostFails
    <3>. QED  BY <1>1, <3>1 DEF PlayerType
  <2>2. CASE HoldEnds(e)
    <3>. DEFINE t == [old EXCEPT !.worker = "looking", !.current = NoPage, !.finish = "none"]
    <3>1. player' = [player EXCEPT ![e] = t] /\ s = t
      BY <1>1, <2>2 DEF HoldEnds
    <3>2. t \in PlayerType /\ t.queue = old.queue /\ t.current = NoPage /\ t.worker = "looking"
      BY <1>1 DEF PlayerType
    <3>. HIDE DEF t
    <3>. QED  BY <3>1, <3>2
  <2>. QED  BY <2>1, <2>2
<1>4. /\ page' \in [Pages -> PageType]
      /\ page'[p].place \in {"failed", "played"} /\ page'[p].target = e
      /\ \A x \in Pages : x # p => page'[x] = page[x]
  <2>1. CASE PostFails(e)
    BY <1>1, <1>2, <2>1 DEF PostFails, Fail, PageType
  <2>2. CASE HoldEnds(e)
    BY <1>1, <1>2, <2>2 DEF HoldEnds, PageType
  <2>. QED  BY <2>1, <2>2
<1>. HIDE DEF s, p
<1>5. /\ player' \in [Targets -> PlayerType] /\ player'[e] = s
      /\ \A f \in Targets \ {e} : player'[f] = player[f]
  <2>1. player'[e] = s
    BY DEF s
  <2>. QED  BY <1>1, <1>3, <2>1, NewEntity
<1>6. PlayerTyped'
  <2>1. ApiTypeOK'
    BY <1>1 DEF PlayerInv, PlayerTyped, ApiTypeOK, apiVars
  <2>. QED  BY <1>1, <1>4, <1>5, <2>1 DEF PlayerInv, PlayerTyped, Unlocked
<1>7. WorkerFits(e)'
  BY <1>3, <1>5 DEF WorkerFits
<1>8. QueueFits(e)'
  <2>1. \A i \in DOMAIN old.queue : old.queue[i] \in Pages /\ old.queue[i] # p
    BY <1>1, <1>2 DEF EntityFits, QueueFits, PlayerType
  <2>. QED  BY <1>1, <1>3, <1>4, <1>5, <2>1 DEF EntityFits, QueueFits, Urgent
<1>9. LockOwned'
  BY <1>1, <1>3, <1>5 DEF PlayerInv, LockOwned, Unlocked
<1>10. ASSUME NEW x \in Pages, page'[x].target = e PROVE PageFits(x)'
  <2>1. CASE x = p
    BY <1>4, <2>1 DEF PageFits
  <2>2. CASE x # p
    <3>1. page'[x] = page[x] /\ PageFits(x) /\ page[x].target = e
      BY <1>4, <1>10, <2>2 DEF PlayerInv
    <3>2. page[x].place # "working"
      BY <2>2, <3>1 DEF PageFits, p
    <3>. QED  BY <1>3, <1>5, <3>1, <3>2 DEF PageFits
  <2>. QED  BY <2>1, <2>2
<1>11. \A x \in Pages :
          /\ page'[x] # page[x] => page[x].target = e \/ ~Waits(page[x].place)
          /\ page'[x].target # e => page'[x] = page[x] \/ ~Waits(page'[x].place)
  BY <1>2, <1>4
<1>. QED  BY <1>5, <1>6, <1>7, <1>8, <1>9, <1>10, <1>11, OneEntity DEF EntityFits

\* turn_off tells everybody in the queue.
LEMMA TurnOffStep ==
    ASSUME PlayerInv, PlayerAssumption, NEW e \in Targets, TurnOff(e)
    PROVE  PlayerInv'
<1>. DEFINE old == player[e]
            q == old.queue
            s == [old EXCEPT !.enabled = FALSE, !.queue = <<>>]
<1>1. /\ EntityFits(e) /\ old \in PlayerType /\ player \in [Targets -> PlayerType]
      /\ page \in [Pages -> PageType] /\ QueueDepth \in Nat
      /\ UNCHANGED <<request, call, bus, registered, options, lock, link>>
  BY DEF PlayerInv, PlayerTyped, PlayerAssumption, TurnOff
<1>2. /\ s \in PlayerType /\ s.queue = <<>> /\ s.worker = old.worker /\ s.current = old.current
  <2>. DEFINE t == [old EXCEPT !.enabled = FALSE]
  <2>1. t \in PlayerType /\ t.worker = old.worker /\ t.current = old.current
    BY <1>1 DEF PlayerType
  <2>2. s = [t EXCEPT !.queue = <<>>] /\ <<>> \in Seq(Pages)
    BY <1>1 DEF PlayerType
  <2>. HIDE DEF t, s
  <2>. QED  BY <2>1, <2>2 DEF PlayerType
<1>3. player' = [player EXCEPT ![e] = s]
  BY <1>1 DEF TurnOff
<1>4. q \in Seq(Pages)
  BY <1>1 DEF PlayerType
<1>5. page' = [x \in Pages |-> IF x \in Range(q) THEN [page[x] EXCEPT !.place = "failed"]
                               ELSE page[x]]
  BY DEF TurnOff, Fail
<1>. HIDE DEF s
<1>6. /\ player' \in [Targets -> PlayerType] /\ player'[e] = s
      /\ \A f \in Targets \ {e} : player'[f] = player[f]
  BY <1>1, <1>2, <1>3, NewEntity
<1>7. \A x \in Range(q) : x \in Pages /\ page[x].place = "queued" /\ page[x].target = e
  BY <1>1, <1>4 DEF EntityFits, QueueFits, Range
<1>. HIDE DEF q
<1>8. /\ page' \in [Pages -> PageType]
      /\ \A x \in Range(q) : page'[x].place = "failed" /\ page'[x].target = e
      /\ \A x \in Pages : x \notin Range(q) => page'[x] = page[x]
  BY <1>1, <1>5, <1>7 DEF PageType
<1>9. ApiTypeOK'
  <2>1. CASE player[e].callId = NoCall
    BY <1>1, <2>1 DEF TurnOff, Stops, PlayerInv, PlayerTyped, ApiTypeOK
  <2>2. CASE player[e].callId # NoCall
    <3>1. player[e].callId \in CallIds
      BY <1>1, <2>2 DEF PlayerType
    <3>. QED  BY <1>1, <2>2, <3>1, AskType DEF TurnOff, Stops, PlayerInv, PlayerTyped
  <2>. QED  BY <2>1, <2>2
<1>10. PlayerTyped'
  BY <1>1, <1>6, <1>8, <1>9 DEF PlayerInv, PlayerTyped
<1>11. WorkerFits(e)'
  <2>1. old.current \in Pages \cup {NoPage} /\ WorkerFits(e)
    BY <1>1 DEF PlayerType, EntityFits
  <2>2. old.current # NoPage => old.current \notin Range(q)
    BY <1>7, <2>1 DEF WorkerFits
  <2>. QED  BY <1>2, <1>6, <1>8, <2>1, <2>2 DEF WorkerFits
<1>12. QueueFits(e)'
  BY <1>1, <1>2, <1>6 DEF QueueFits
<1>13. LockOwned'
  BY <1>1, <1>2, <1>6 DEF PlayerInv, LockOwned
<1>14. ASSUME NEW x \in Pages, page'[x].target = e PROVE PageFits(x)'
  <2>1. CASE x \in Range(q)
    BY <1>8, <2>1 DEF PageFits
  <2>2. CASE x \notin Range(q)
    <3>1. page'[x] = page[x] /\ PageFits(x) /\ page[x].target = e
      BY <1>8, <1>14, <2>2 DEF PlayerInv
    <3>2. page[x].place # "queued"
      BY <1>4, <2>2, <3>1 DEF PageFits, Range, q
    <3>. QED  BY <1>2, <1>6, <3>1, <3>2 DEF PageFits
  <2>. QED  BY <2>1, <2>2
<1>15. \A x \in Pages :
          /\ page'[x] # page[x] => page[x].target = e \/ ~Waits(page[x].place)
          /\ page'[x].target # e => page'[x] = page[x] \/ ~Waits(page'[x].place)
  BY <1>7, <1>8
<1>. QED  BY <1>6, <1>10, <1>11, <1>12, <1>13, <1>14, <1>15, OneEntity DEF EntityFits

\* What every entity starts as.
LEMMA FreshFits ==
    ASSUME PlayerAssumption, NEW e \in Targets, player[e] = FreshPlayer
    PROVE  FreshPlayer \in PlayerType /\ EntityFits(e)
<1>1. FreshPlayer \in PlayerType
  BY DEF FreshPlayer, PlayerType
<1>2. WorkerFits(e) /\ QueueFits(e)
  BY DEF WorkerFits, QueueFits, FreshPlayer, PlayerAssumption
<1>. QED  BY <1>1, <1>2 DEF EntityFits

\* A reload fails the pages at work and leaves those that queue behind.
LEMMA ReloadStep ==
    ASSUME PlayerInv, PlayerAssumption, Reload
    PROVE  PlayerInv'
<1>1. /\ page \in [Pages -> PageType] /\ options' \in [policy: Policies, globalLock: LockChoices]
      /\ player' = [e \in Targets |-> FreshPlayer] /\ lock' = Nobody /\ link' = "down"
      /\ bus' = [stream |-> <<>>, subscribed |-> FALSE]
      /\ UNCHANGED <<request, call, command, registered>>
  BY DEF Reload, PlayerInv, PlayerTyped
<1>2. \A e \in Targets : FreshPlayer \in PlayerType /\ EntityFits(e)'
  <2>1. FreshPlayer \in PlayerType
    BY DEF FreshPlayer, PlayerType
  <2>. QED  BY <1>1, <2>1 DEF EntityFits, WorkerFits, QueueFits, FreshPlayer, PlayerAssumption
<1>3. ASSUME NEW x \in Pages
      PROVE  page'[x] \in PageType /\ ~Waits(page'[x].place)
  <2>1. page[x] \in PageType
    BY <1>1
  <2>2. page'[x] = CASE page[x].place = "working" -> [page[x] EXCEPT !.place = "failed"]
                     [] page[x].place = "queued" -> [page[x] EXCEPT !.place = "orphaned"]
                     [] OTHER -> [page[x] EXCEPT !.target = NoTarget]
    BY DEF Reload
  <2>3. CASE page[x].place = "working"
    BY <2>1, <2>2, <2>3 DEF PageType, Waits
  <2>4. CASE page[x].place = "queued"
    BY <2>1, <2>2, <2>4 DEF PageType, Waits
  <2>5. CASE page[x].place \notin {"working", "queued"}
    BY <2>1, <2>2, <2>5 DEF PageType, Waits
  <2>. QED  BY <2>3, <2>4, <2>5
<1>4. page' \in [Pages -> PageType]
  BY <1>3 DEF Reload
<1>5. ApiTypeOK'
  BY <1>1 DEF PlayerInv, PlayerTyped, ApiTypeOK
<1>6. player' \in [Targets -> PlayerType]
  BY <1>1, <1>2
<1>7. PlayerTyped'
  BY <1>1, <1>4, <1>5, <1>6 DEF PlayerTyped
<1>8. \A x \in Pages : PageFits(x)'
  BY <1>3 DEF PageFits, Waits
<1>9. LockOwned'
  BY <1>1 DEF LockOwned, FreshPlayer, PlayerAssumption
<1>. QED  BY <1>2, <1>7, <1>8, <1>9 DEF PlayerInv

(***************************************************************************)
(* The theorems.                                                           *)
(***************************************************************************)
LEMMA PlayerInitInv ==
    ASSUME Init, PlayerAssumption, ApiAssumption
    PROVE  PlayerInv
<1>1. ApiTypeOK
  BY DEF Init, ApiInit, ApiTypeOK, RequestType, ApiPolicies, CallType
<1>2. FreshPlayer \in PlayerType
  BY DEF FreshPlayer, PlayerType
<1>3. PlayerTyped
  BY <1>1, <1>2 DEF Init, PlayerTyped, PageType
<1>4. \A e \in Targets : EntityFits(e)
  BY FreshFits DEF Init
<1>5. \A p \in Pages : PageFits(p)
  BY DEF Init, PageFits
<1>6. LockOwned
  BY DEF Init, LockOwned, FreshPlayer, PlayerAssumption
<1>. QED  BY <1>3, <1>4, <1>5, <1>6 DEF PlayerInv

LEMMA PlayerStepInv ==
    ASSUME PlayerInv, [Next]_allVars, PlayerAssumption
    PROVE  PlayerInv'
<1>1. CASE UNCHANGED allVars
  BY <1>1 DEF allVars, apiVars, playerVars, PlayerInv, PlayerTyped, ApiTypeOK,
              EntityFits, WorkerFits, QueueFits, Urgent, PageFits, LockOwned
<1>2. ASSUME NEW p \in Pages, NEW e \in Targets, ReplaceNow(p, e) \/ Enqueue(p, e)
      PROVE  PlayerInv'
  BY <1>2, ReplacementStep, EnqueueStep
<1>3. ASSUME NEW p \in Pages, Replaced(p) \/ ReplaceFails(p)
      PROVE  PlayerInv'
  BY <1>3, ReplacementStep
<1>4. ASSUME NEW e \in Targets,
             \/ WorkerWakes(e) \/ WorkerSleeps(e) \/ TakePage(e) \/ GetLock(e)
             \/ PostAnswered(e) \/ PostFails(e) \/ HoldEnds(e)
             \/ TurnOn(e) \/ TurnOff(e) \/ MediaStop(e)
             \/ \E name \in {"pause", "resume"} : SetPaused(e, name)
      PROVE  PlayerInv'
  <2>1. CASE WorkerWakes(e) \/ WorkerSleeps(e)
    BY <2>1, RestingStep
  <2>2. CASE TakePage(e)
    BY <2>2, TakeStep
  <2>3. CASE GetLock(e) \/ PostAnswered(e)
    BY <2>3, OnwardStep
  <2>4. CASE PostFails(e) \/ HoldEnds(e)
    BY <2>4, FreedStep
  <2>5. CASE TurnOff(e)
    BY <2>5, TurnOffStep
  <2>6. CASE TurnOn(e) \/ MediaStop(e) \/ \E name \in {"pause", "resume"} : SetPaused(e, name)
    BY <2>6, UserStep
  <2>. QED  BY <1>4, <2>1, <2>2, <2>3, <2>4, <2>5, <2>6
<1>5. CASE Reload
  BY <1>5, ReloadStep
<1>6. CASE DeliverCallEvent
  BY <1>6, DeliverStep
<1>7. CASE DeliverRegistration \/ LinkBreaks \/ LinkReturns
  BY <1>7, LinkStep
<1>8. CASE Sidecar
  BY <1>8, SidecarsStep
<1>. QED  BY <1>1, <1>2, <1>3, <1>4, <1>5, <1>6, <1>7, <1>8 DEF Next

\* Queues, workers and pages agree at every moment, whatever fails.
THEOREM PlayerInvariance == Spec => []PlayerInv
<1>1. Init => PlayerInv
  BY PlayerInitInv, PlayerAssumption, ApiAssumption
<1>2. PlayerInv /\ [Next]_allVars => PlayerInv'
  BY PlayerStepInv, PlayerAssumption
<1>. QED  BY <1>1, <1>2, PTL DEF Spec

\* Every variable of the entities, and of the sidecar below them, keeps its
\* type, and no queue outgrows the limit of media_player.py:401-405.
THEOREM PlayersKeepTheirTypes == Spec => []PlayerTypeOK
<1>1. PlayerInv => PlayerTypeOK
  BY DEF PlayerInv, PlayerTyped, EntityFits, QueueFits, PlayerTypeOK
<1>. QED  BY <1>1, PlayerInvariance, PTL

\* A page whose caller waits is once in the queue of its target or with its
\* worker: an overflow, a preemption or turn_off tells whom it throws out
\* (media_player.py:401-405, 451, 511-513).
THEOREM PagesNeverLost == Spec => []PagesAccounted
<1>1. ASSUME PlayerInv, NEW p \in Pages, page[p].place = "queued"
      PROVE  Cardinality({i \in DOMAIN player[page[p].target].queue :
                             player[page[p].target].queue[i] = p}) = 1
  <2>. DEFINE q == player[page[p].target].queue
  <2>1. page[p].target \in Targets /\ \E i \in DOMAIN q : q[i] = p
    BY <1>1 DEF PlayerInv, PageFits
  <2>2. \A i, j \in DOMAIN q : q[i] = q[j] => i = j
    BY <1>1, <2>1 DEF PlayerInv, EntityFits, QueueFits
  <2>3. PICK i \in DOMAIN q : q[i] = p
    BY <2>1
  <2>4. {j \in DOMAIN q : q[j] = p} = {i}
    BY <2>2, <2>3
  <2>. QED  BY <2>4, FS_Singleton
<1>2. ASSUME PlayerInv, NEW e \in Targets, NEW p \in Range(player[e].queue)
      PROVE  page[p].place = "queued" /\ page[p].target = e
  BY <1>2 DEF PlayerInv, EntityFits, QueueFits, Range
<1>3. PlayerInv => PagesAccounted
  BY <1>1, <1>2 DEF PagesAccounted, PlayerInv, PageFits, EntityFits, WorkerFits
<1>. QED  BY <1>3, PlayerInvariance, PTL

\* No worker sleeps on a page without having been woken
\* (media_player.py:405-406, 446-449).
THEOREM WakeupsKept == Spec => []NoLostWakeup
<1>1. PlayerInv => NoLostWakeup
  BY DEF PlayerInv, EntityFits, QueueFits, NoLostWakeup
<1>. QED  BY <1>1, PlayerInvariance, PTL

\* Nothing waits in front of an urgent page, also when the queue overflows
\* (media_player.py:396-405).
THEOREM UrgentFirst == Spec => []UrgentSkipsQueue
<1>1. PlayerInv => UrgentSkipsQueue
  BY DEF PlayerInv, EntityFits, QueueFits, UrgentSkipsQueue
<1>. QED  BY <1>1, PlayerInvariance, PTL

\* The lock of the entry is with the worker whose page is out, and is given
\* back however that page ends (media_player.py:464-470, 496-504).
THEOREM LockNeverStuck == Spec => []LockOwned
<1>1. PlayerInv => LockOwned
  BY DEF PlayerInv
<1>. QED  BY <1>1, PlayerInvariance, PTL

(***************************************************************************)
(* One call per target.  Where no request times out under a page, no       *)
(* reload forgets one and no page replaces a clip, a target's requests     *)
(* come from its worker alone (SolePost), and the one that is about to     *)
(* dial has nobody left in its way (Cleared).                              *)
(***************************************************************************)
\* A request that was sent and is not answered yet.
Outstanding(r) ==
    request[r].stage \in {"resolving", "dialing", "replacing", "preempting"}

SolePost ==
    \A r \in Requests :
       Outstanding(r) =>
          /\ request[r].policy # "replace" /\ request[r].stage # "replacing"
          /\ request[r].target \in Targets
          /\ player[request[r].target].worker = "posting"
          /\ player[request[r].target].current = r

Cleared ==
    \A r \in Requests :
       request[r].stage = "dialing" =>
          \A c \in CallIds :
             Live(c) /\ call[c].target = request[r].target => call[c].hung

\* A page of an entry that never replaces is not on its way to a clip.
NothingReplaced == \A p \in Pages : page[p].place # "replacing"

SoleInv == SolePost /\ Cleared /\ OneCallPerTarget /\ NothingReplaced

LEMMA NeverReplaces ==
    ASSUME PlayerTyped, "replace" \notin Policies, NEW p \in Pages
    PROVE  Policy(p) # "replace"
BY DEF PlayerTyped, Policy

\* No handler gives a request another target or policy, or takes one up again.
LEMMA HandlersKeep ==
    ASSUME ApiTypeOK, SidecarStep
    PROVE  \A r \in Requests :
              /\ request'[r].target = request[r].target
              /\ request'[r].policy = request[r].policy
              /\ Outstanding(r)' => Outstanding(r)
              /\ request'[r].stage = "replacing" =>
                    request[r].stage = "replacing" \/ request[r].policy = "replace"
<1>1. request \in [Requests -> RequestType]
  BY DEF ApiTypeOK
<1>2. CASE UNCHANGED request
  BY <1>2 DEF Outstanding
<1>. SUFFICES ASSUME NEW r \in Requests,
                     \/ Decide(r) \/ HangUpTarget(r) \/ Replace(r) \/ Refuse(r)
                     \/ \E c \in CallIds : Dial(r, c) \/ DialFails(r, c)
              PROVE  \A s \in Requests :
                        /\ request'[s].target = request[s].target
                        /\ request'[s].policy = request[s].policy
                        /\ Outstanding(s)' => Outstanding(s)
                        /\ request'[s].stage = "replacing" =>
                              request[s].stage = "replacing" \/ request[s].policy = "replace"
  <2>1. ASSUME \/ \E cmd \in Commands : Obey(cmd)
               \/ \E c \in CallIds : CallMoves(c) \/ PlayerFails(c) \/ CallEnds(c)
               \/ RegistrationChanges
        PROVE  UNCHANGED request
    BY <2>1 DEF Obey, CallMoves, Moves, PlayerFails, CallEnds, RegistrationChanges
  <2>. QED  BY <1>2, <2>1 DEF SidecarStep
<1>3. \/ \E stage \in {"dialing", "refused", "preempting", "answered"} :
            request' = [request EXCEPT ![r].stage = stage]
      \/ \E c : request' = [request EXCEPT ![r].stage = "answered", ![r].call = c]
      \/ /\ request[r].policy = "replace"
         /\ \E c : request' = [request EXCEPT ![r].stage = "replacing", ![r].call = c]
  BY DEF Decide, HangUpTarget, Replace, Refuse, Dial, DialFails
<1>4. Outstanding(r)
  BY DEF Outstanding, Decide, HangUpTarget, Replace, Refuse, Dial, DialFails
<1>5. \A s \in Requests : s # r => request'[s] = request[s]
  BY <1>1, <1>3
<1>6. /\ request'[r].target = request[r].target
      /\ request'[r].policy = request[r].policy
      /\ request'[r].stage = "replacing" => request[r].policy = "replace"
  BY <1>1, <1>3 DEF RequestType
<1>. QED  BY <1>4, <1>5, <1>6 DEF Outstanding

\* Apart from a request that dials, nobody brings up a call, moves one to
\* another target or takes back that it was told to hang up.
LEMMA CallsKeep ==
    ASSUME ApiTypeOK, SidecarStep,
           \A r \in Requests : request[r].stage # "replacing",
           \A r \in Requests, c \in CallIds : ~Dial(r, c)
    PROVE  \A c \in CallIds :
              /\ Live(c)' => Live(c)
              /\ call'[c].target = call[c].target \/ ~Live(c)'
              /\ call[c].hung => call'[c].hung
<1>1. call \in [CallIds -> CallType]
  BY DEF ApiTypeOK
<1>2. CASE UNCHANGED call
  BY <1>2 DEF Live
<1>3. ASSUME NEW r \in Requests, HangUpTarget(r)
      PROVE  \A c \in CallIds : \/ call'[c] = call[c]
                                \/ call'[c] = [call[c] EXCEPT !.hung = TRUE]
  BY <1>3 DEF HangUpTarget
<1>4. ASSUME NEW r \in Requests, NEW c \in CallIds, DialFails(r, c)
      PROVE  /\ \A d \in CallIds : d # c => call'[d] = call[d]
             /\ call'[c].stage = "over" /\ call'[c].hung = call[c].hung
  <2>1. call' = [call EXCEPT ![c].stage = "over", ![c].target = request[r].target]
    BY <1>4 DEF DialFails
  <2>. QED  BY <1>1, <2>1 DEF CallType
<1>5. ASSUME NEW cmd \in Commands, Obey(cmd)
      PROVE  \A c \in CallIds : /\ call'[c].stage = call[c].stage
                                /\ call'[c].target = call[c].target
                                /\ call[c].hung => call'[c].hung
  <2>1. \/ call' = [call EXCEPT ![cmd.call].hung = TRUE]
        \/ call' = [call EXCEPT ![cmd.call].paused = ~@]
        \/ call' = call
    BY <1>5 DEF Obey
  <2>. QED  BY <1>1, <2>1 DEF CallType
<1>6. ASSUME NEW c \in CallIds, CallMoves(c)
      PROVE  /\ \A d \in CallIds : d # c => call'[d] = call[d]
             /\ Live(c) /\ call'[c].target = call[c].target /\ call'[c].hung = call[c].hung
  <2>1. PICK to : call' = [call EXCEPT ![c].stage = to, ![c].paused = FALSE]
    BY <1>6 DEF CallMoves, Moves
  <2>2. Live(c)
    BY <1>6 DEF CallMoves, Moves, Live
  <2>. QED  BY <1>1, <2>1, <2>2 DEF CallType
<1>7. ASSUME NEW c \in CallIds, CallEnds(c)
      PROVE  /\ \A d \in CallIds : d # c => call'[d] = call[d]
             /\ call'[c].stage = "over" /\ call'[c].hung = call[c].hung
  <2>1. call' = [call EXCEPT ![c].stage = "over", ![c].paused = FALSE]
    BY <1>7 DEF CallEnds
  <2>. QED  BY <1>1, <2>1 DEF CallType
<1>8. ASSUME NEW r \in Requests, Decide(r) \/ Refuse(r)
      PROVE  UNCHANGED call
  BY <1>8 DEF Decide, Refuse
<1>9. ASSUME NEW r \in Requests, Replace(r) PROVE FALSE
  BY <1>9 DEF Replace
<1>10. RegistrationChanges => UNCHANGED call
  BY DEF RegistrationChanges
<1>11. ASSUME NEW r \in Requests, HangUpTarget(r)
       PROVE  \A c \in CallIds :
                 /\ Live(c)' => Live(c)
                 /\ call'[c].target = call[c].target \/ ~Live(c)'
                 /\ call[c].hung => call'[c].hung
  <2>. SUFFICES ASSUME NEW c \in CallIds
                PROVE  /\ call'[c].stage = call[c].stage /\ call'[c].target = call[c].target
                       /\ call[c].hung => call'[c].hung
    BY DEF Live
  <2>1. call[c] \in CallType
    BY <1>1
  <2>2. call'[c] = call[c] \/ call'[c] = [call[c] EXCEPT !.hung = TRUE]
    BY <1>3, <1>11
  <2>3. /\ [call[c] EXCEPT !.hung = TRUE].stage = call[c].stage
        /\ [call[c] EXCEPT !.hung = TRUE].target = call[c].target
        /\ [call[c] EXCEPT !.hung = TRUE].hung
    BY <2>1 DEF CallType
  <2>4. CASE call'[c] = call[c]
    BY <2>4
  <2>5. CASE call'[c] = [call[c] EXCEPT !.hung = TRUE]
    BY <2>3, <2>5
  <2>. QED  BY <2>2, <2>4, <2>5
<1>12. ASSUME NEW r \in Requests, NEW c \in CallIds, DialFails(r, c)
       PROVE  \A d \in CallIds :
                 /\ Live(d)' => Live(d)
                 /\ call'[d].target = call[d].target \/ ~Live(d)'
                 /\ call[d].hung => call'[d].hung
  BY <1>4, <1>12 DEF Live
<1>15. ASSUME NEW c \in CallIds, PlayerFails(c)
       PROVE  /\ \A d \in CallIds : d # c => call'[d] = call[d]
              /\ Live(c) /\ call'[c].target = call[c].target /\ call'[c].hung
  <2>1. call' = [call EXCEPT ![c] = Unplayable(call[c])] /\ Live(c)
    BY <1>15 DEF PlayerFails, Live
  <2>. QED  BY <1>1, <2>1, UnplayableType
<1>13. ASSUME NEW c \in CallIds, CallMoves(c) \/ PlayerFails(c) \/ CallEnds(c)
       PROVE  \A d \in CallIds :
                 /\ Live(d)' => Live(d)
                 /\ call'[d].target = call[d].target \/ ~Live(d)'
                 /\ call[d].hung => call'[d].hung
  BY <1>6, <1>7, <1>13, <1>15 DEF Live
<1>14. ASSUME NEW cmd \in Commands, Obey(cmd)
       PROVE  \A d \in CallIds :
                 /\ Live(d)' => Live(d)
                 /\ call'[d].target = call[d].target \/ ~Live(d)'
                 /\ call[d].hung => call'[d].hung
  BY <1>5, <1>14 DEF Live
<1>. QED
  BY <1>2, <1>8, <1>9, <1>10, <1>11, <1>12, <1>13, <1>14 DEF SidecarStep

\* What the sidecar does of its own accord.
LEMMA SoleSidecar ==
    ASSUME ApiTypeOK, SoleInv, SidecarStep, UNCHANGED <<player, page>>
    PROVE  SoleInv'
<1>1. /\ request \in [Requests -> RequestType] /\ call \in [CallIds -> CallType]
      /\ \A r \in Requests : request[r].stage # "replacing"
  BY DEF ApiTypeOK, SoleInv, SolePost, Outstanding
<1>2. SolePost'
  BY HandlersKeep DEF SoleInv, SolePost, Outstanding
<1>3. NothingReplaced'
  BY DEF SoleInv, NothingReplaced
<1>4. CASE \A r \in Requests, c \in CallIds : ~Dial(r, c)
  <2>1. \A c \in CallIds :
           /\ Live(c)' => Live(c)
           /\ call'[c].target = call[c].target \/ ~Live(c)'
           /\ call[c].hung => call'[c].hung
    BY <1>1, <1>4, CallsKeep
  <2>2. OneCallPerTarget'
    BY <2>1 DEF SoleInv, OneCallPerTarget
  <2>3. ASSUME NEW r \in Requests, request'[r].stage = "dialing",
               NEW c \in CallIds, Live(c)', call'[c].target = request'[r].target
        PROVE  call'[c].hung
    <3>1. Live(c) /\ call[c].target = request[r].target
      BY <2>1, <2>3, HandlersKeep
    <3>2. CASE request[r].stage = "dialing"
      BY <2>1, <3>1, <3>2 DEF SoleInv, Cleared
    <3>3. CASE request[r].stage # "dialing"
      <4>1. ASSUME NEW s \in Requests, s # r,
                   \/ Decide(s) \/ HangUpTarget(s) \/ Refuse(s)
                   \/ \E d \in CallIds : DialFails(s, d)
            PROVE  FALSE
        <5>1. request'[r] = request[r]
          BY <1>1, <4>1 DEF Decide, HangUpTarget, Refuse, DialFails
        <5>. QED  BY <2>3, <3>3, <5>1
      <4>2. CASE Decide(r)
        <5>1. InFlight(request[r].target) = {}
          BY <1>1, <2>3, <4>2 DEF Decide, RequestType
        <5>. QED  BY <3>1, <5>1 DEF InFlight
      <4>3. CASE HangUpTarget(r)
        <5>1. c \in InFlight(request[r].target)
          BY <3>1 DEF InFlight
        <5>2. call'[c] = [call[c] EXCEPT !.hung = TRUE]
          BY <4>3, <5>1 DEF HangUpTarget
        <5>. QED  BY <1>1, <5>2 DEF CallType
      <4>4. CASE Refuse(r) \/ \E d \in CallIds : DialFails(r, d)
        BY <1>1, <2>3, <4>4 DEF Refuse, DialFails, RequestType
      <4>5. ASSUME NEW s \in Requests PROVE ~Replace(s)
        BY <1>1 DEF Replace
      <4>6. ASSUME \/ \E cmd \in Commands : Obey(cmd)
                   \/ \E d \in CallIds : CallMoves(d) \/ PlayerFails(d) \/ CallEnds(d)
                   \/ RegistrationChanges
            PROVE  FALSE
        <5>1. UNCHANGED request
          BY <4>6 DEF Obey, CallMoves, Moves, PlayerFails, CallEnds, RegistrationChanges
        <5>. QED  BY <2>3, <3>3, <5>1
      <4>. QED  BY <1>4, <4>1, <4>2, <4>3, <4>4, <4>5, <4>6 DEF SidecarStep
    <3>. QED  BY <3>2, <3>3
  <2>. QED  BY <1>2, <1>3, <2>2, <2>3 DEF SoleInv, Cleared
<1>5. ASSUME NEW r \in Requests, NEW c \in CallIds, Dial(r, c)
      PROVE  OneCallPerTarget' /\ Cleared'
  <2>1. /\ request[r].stage = "dialing" /\ request'[r].stage = "answered"
        /\ \A s \in Requests : s # r => request'[s] = request[s]
        /\ \A d \in CallIds : d # c => call'[d] = call[d]
        /\ call'[c].target = request[r].target
    BY <1>1, <1>5 DEF Dial, CallType, RequestType
  <2>2. ASSUME NEW d \in CallIds, d # c, Live(d)', call'[d].target = request[r].target
        PROVE  call'[d].hung
    BY <2>1, <2>2 DEF SoleInv, Cleared, Live
  <2>3. OneCallPerTarget'
    BY <2>1, <2>2 DEF SoleInv, OneCallPerTarget, Live
  <2>4. ASSUME NEW s \in Requests, request'[s].stage = "dialing"
        PROVE  request[s].stage = "dialing" /\ request[s].target # request[r].target
    BY <2>1, <2>4 DEF SoleInv, SolePost, Outstanding
  <2>5. Cleared'
    <3>. SUFFICES ASSUME NEW s \in Requests, request'[s].stage = "dialing",
                         NEW d \in CallIds, Live(d)', call'[d].target = request'[s].target
                  PROVE  call'[d].hung
      BY DEF Cleared
    <3>1. request'[s] = request[s]
      BY <2>1
    <3>2. d # c
      BY <2>1, <2>4, <3>1
    <3>. QED  BY <2>1, <2>4, <3>1, <3>2 DEF SoleInv, Cleared, Live
  <2>. QED  BY <2>3, <2>5
<1>. QED  BY <1>2, <1>3, <1>4, <1>5 DEF SoleInv

\* A worker sends its page while it has none on the way.
LEMMA SoleSends ==
    ASSUME ApiTypeOK, SoleInv, NEW e \in Targets, NEW p \in Pages,
           player[e].worker # "posting", Sends(p, e, PostPolicy(p)),
           \A f \in Targets \ {e} : player'[f] = player[f],
           player'[e].worker = "posting", player'[e].current = p,
           NothingReplaced'
    PROVE  SoleInv'
<1>1. /\ request \in [Requests -> RequestType] /\ UNCHANGED call
      /\ request' = [request EXCEPT ![p].stage = "resolving", ![p].target = e,
                                    ![p].policy = PostPolicy(p)]
  BY DEF ApiTypeOK, Sends, Post
<1>2. /\ request'[p].stage = "resolving" /\ request'[p].target = e
      /\ request'[p].policy = PostPolicy(p)
      /\ \A r \in Requests : r # p => request'[r] = request[r]
  BY <1>1 DEF RequestType, Pages
<1>3. PostPolicy(p) # "replace"
  BY DEF PostPolicy
<1>4. SolePost'
  BY <1>2, <1>3 DEF SoleInv, SolePost, Outstanding
<1>5. OneCallPerTarget'
  BY <1>1 DEF SoleInv, OneCallPerTarget, Live
<1>6. Cleared'
  BY <1>1, <1>2 DEF SoleInv, Cleared, Live
<1>. QED  BY <1>4, <1>5, <1>6 DEF SoleInv

\* Steps of Home Assistant that send nothing, and take no worker from its
\* request before it is answered.
LEMMA SoleQuiet ==
    ASSUME SoleInv, UNCHANGED <<request, call>>,
           \A p \in Pages : page'[p].place = "replacing" => page[p].place = "replacing",
           \A e \in Targets :
              \/ /\ player'[e].worker = player[e].worker
                 /\ player'[e].current = player[e].current
              \/ player[e].worker # "posting"
              \/ ~Outstanding(player[e].current)
    PROVE  SoleInv'
<1>1. SolePost'
  BY DEF SoleInv, SolePost, Outstanding
<1>2. Cleared' /\ OneCallPerTarget' /\ NothingReplaced'
  BY DEF SoleInv, Cleared, OneCallPerTarget, NothingReplaced, Live
<1>. QED  BY <1>1, <1>2 DEF SoleInv

\* The users and the worker.
LEMMA SoleWorker ==
    ASSUME PlayerInv, PlayerAssumption, SoleInv, ~PostsTimeOut, NEW e \in Targets,
           \/ WorkerWakes(e) \/ WorkerSleeps(e) \/ TakePage(e) \/ GetLock(e)
           \/ PostAnswered(e) \/ PostFails(e) \/ HoldEnds(e)
           \/ TurnOn(e) \/ TurnOff(e) \/ MediaStop(e)
           \/ \E name \in {"pause", "resume"} : SetPaused(e, name)
    PROVE  SoleInv'
<1>1. /\ player \in [Targets -> PlayerType] /\ page \in [Pages -> PageType] /\ ApiTypeOK
      /\ player[e].current \in Pages \cup {NoPage} /\ player[e].queue \in Seq(Pages)
  BY DEF PlayerInv, PlayerTyped, PlayerType
<1>2. player[e].worker \in {"locking", "posting", "holding"} => player[e].current \in Pages
  BY <1>1 DEF PlayerInv, EntityFits, WorkerFits
<1>3. CASE \/ MediaStop(e) \/ \E name \in {"pause", "resume"} : SetPaused(e, name)
  BY <1>3, SoleQuiet DEF MediaStop, SetPaused, playerVars
<1>4. CASE TurnOn(e) \/ TurnOff(e) \/ WorkerWakes(e) \/ WorkerSleeps(e)
  <2>1. UNCHANGED <<request, call>>
    BY <1>4 DEF TurnOn, TurnOff, WorkerWakes, WorkerSleeps, apiVars
  <2>2. \A f \in Targets : \/ /\ player'[f].worker = player[f].worker
                              /\ player'[f].current = player[f].current
                           \/ player[f].worker # "posting"
    <3>1. CASE TurnOn(e)
      BY <1>1, <3>1 DEF TurnOn, PlayerType
    <3>2. CASE TurnOff(e)
      <4>1. player' = [player EXCEPT ![e] = [player[e] EXCEPT !.enabled = FALSE, !.queue = <<>>]]
        BY <3>2 DEF TurnOff
      <4>2. \A f \in Targets : f # e => player'[f] = player[f]
        BY <1>1, <4>1
      <4>3. player'[e] = [player[e] EXCEPT !.enabled = FALSE, !.queue = <<>>]
        BY <1>1, <4>1
      <4>4. player'[e].worker = player[e].worker /\ player'[e].current = player[e].current
        BY <1>1, <4>3 DEF PlayerType
      <4>. QED  BY <4>2, <4>4
    <3>3. CASE WorkerWakes(e) \/ WorkerSleeps(e)
      <4>1. player[e].worker # "posting"
        BY <3>3 DEF WorkerWakes, WorkerSleeps
      <4>2. \A f \in Targets : f # e => player'[f] = player[f]
        BY <1>1, <3>3 DEF WorkerWakes, WorkerSleeps
      <4>. QED  BY <4>1, <4>2
    <3>. QED  BY <1>4, <3>1, <3>2, <3>3
  <2>3. \A p \in Pages : page'[p].place = "replacing" => page[p].place = "replacing"
    BY <1>1, <1>4 DEF TurnOn, TurnOff, WorkerWakes, WorkerSleeps, Fail, PageType
  <2>. QED  BY <2>1, <2>2, <2>3, SoleQuiet
<1>5. CASE PostAnswered(e) \/ PostFails(e) \/ HoldEnds(e)
  <2>1. UNCHANGED <<request, call>>
    BY <1>5 DEF PostAnswered, PostFails, HoldEnds, apiVars
  <2>2. \A f \in Targets : f # e => player'[f] = player[f]
    BY <1>1, <1>5 DEF PostAnswered, PostFails, HoldEnds
  <2>3. player[e].worker # "posting" \/ ~Outstanding(player[e].current)
    BY <1>5 DEF PostAnswered, PostFails, HoldEnds, Outstanding
  <2>4. \A p \in Pages : page'[p].place = "replacing" => page[p].place = "replacing"
    BY <1>1, <1>5 DEF PostAnswered, PostFails, HoldEnds, Fail, PageType
  <2>. QED  BY <2>1, <2>2, <2>3, <2>4, SoleQuiet
<1>6. CASE GetLock(e)
  <2>. DEFINE p == player[e].current
  <2>1. p \in Pages
    BY <1>2, <1>6 DEF GetLock
  <2>2. /\ player[e].worker # "posting" /\ Sends(p, e, PostPolicy(p)) /\ UNCHANGED page
        /\ player' = [player EXCEPT ![e] = Sending(player[e], p)]
    BY <1>6 DEF GetLock
  <2>3. player'[e].worker = "posting" /\ player'[e].current = p
    <3>1. player[e] \in PlayerType /\ player'[e] = Sending(player[e], p)
      BY <1>1, <2>2
    <3>. QED  BY <3>1 DEF Sending, PlayerType
  <2>4. NothingReplaced'
    BY <2>2 DEF SoleInv, NothingReplaced
  <2>. QED  BY <1>1, <2>1, <2>2, <2>3, <2>4, SoleSends
<1>7. CASE TakePage(e)
  <2>. DEFINE p == Head(player[e].queue)
              s == [player[e] EXCEPT !.queue = Tail(player[e].queue)]
  <2>1. p \in Pages /\ player[e].worker # "posting"
    BY <1>1, <1>7 DEF TakePage
  <2>2. page' = [page EXCEPT ![p].place = "working"]
    BY <1>7 DEF TakePage
  <2>3. NothingReplaced'
    BY <1>1, <2>2 DEF SoleInv, NothingReplaced, PageType
  <2>4. s.worker = player[e].worker
    BY <1>1 DEF PlayerType
  <2>5. CASE Sends(p, e, PostPolicy(p)) /\ player' = [player EXCEPT ![e] = Sending(s, p)]
    <3>. HIDE DEF s, p
    <3>1. Sending(s, p).worker = "posting" /\ Sending(s, p).current = p
      <4>0. player[e] \in PlayerType /\ Tail(player[e].queue) \in Seq(Pages)
        BY <1>1, <1>7 DEF TakePage
      <4>1. s \in PlayerType
        BY <4>0 DEF s, PlayerType
      <4>. QED  BY <4>1 DEF Sending, PlayerType
    <3>. QED  BY <1>1, <2>1, <2>3, <2>5, <3>1, SoleSends
  <2>6. CASE /\ player' = [player EXCEPT ![e] = [s EXCEPT !.worker = "locking",
                                                          !.current = p]]
             /\ UNCHANGED apiVars
    <3>1. UNCHANGED <<request, call>>
      BY <2>6 DEF apiVars
    <3>2. \A f \in Targets : f # e => player'[f] = player[f]
      BY <1>1, <2>6
    <3>3. \A q \in Pages : page'[q].place = "replacing" => page[q].place = "replacing"
      BY <1>1, <2>2 DEF PageType
    <3>. QED  BY <2>1, <3>1, <3>2, <3>3, SoleQuiet
  <2>. QED  BY <1>7, <2>5, <2>6 DEF TakePage
<1>. QED  BY <1>3, <1>4, <1>5, <1>6, <1>7

LEMMA SoleStep ==
    ASSUME PlayerInv, PlayerAssumption, SoleInv, [Next]_allVars,
           ~PostsTimeOut, ~Reloads, "replace" \notin Policies
    PROVE  SoleInv'
<1>1. /\ player \in [Targets -> PlayerType] /\ page \in [Pages -> PageType] /\ ApiTypeOK
  BY DEF PlayerInv, PlayerTyped
<1>2. ASSUME NEW p \in Pages, NEW e \in Targets PROVE ~ReplaceNow(p, e)
  BY NeverReplaces DEF PlayerInv, ReplaceNow
<1>3. ASSUME NEW p \in Pages PROVE ~Replaced(p) /\ ~ReplaceFails(p)
  BY DEF SoleInv, NothingReplaced, Replaced, ReplaceFails
<1>4. ASSUME NEW p \in Pages, NEW e \in Targets, Enqueue(p, e) PROVE SoleInv'
  <2>1. UNCHANGED <<request, call>>
    BY <1>4 DEF Enqueue, apiVars
  <2>2. \A f \in Targets : /\ player'[f].worker = player[f].worker
                           /\ player'[f].current = player[f].current
    BY <1>1, <1>4 DEF Enqueue, PlayerType
  <2>3. ASSUME NEW q \in Pages, page'[q].place = "replacing"
        PROVE  page[q].place = "replacing"
    <3>1. page'[q] = IF q = p THEN [place |-> "queued", target |-> e]
                     ELSE IF q \in Displaced(p, e)
                          THEN [page[q] EXCEPT !.place = "failed"]
                          ELSE page[q]
      BY <1>4 DEF Enqueue
    <3>. HIDE DEF Displaced
    <3>. QED  BY <1>1, <2>3, <3>1 DEF PageType
  <2>. QED  BY <2>1, <2>2, <2>3, SoleQuiet
<1>5. ~Reload
  BY DEF Reload
<1>6. ASSUME DeliverCallEvent PROVE SoleInv'
  <2>1. Head(bus.stream) \in Events
    BY <1>1, <1>6 DEF DeliverCallEvent, ApiTypeOK
  <2>2. \A f \in Targets : /\ player'[f].worker = player[f].worker
                           /\ player'[f].current = player[f].current
    <3>. SUFFICES ASSUME NEW f \in Targets
                  PROVE  /\ player'[f].worker = player[f].worker
                         /\ player'[f].current = player[f].current
      OBVIOUS
    <3>1. player'[f] = Handled(player[f], Head(bus.stream)) /\ player[f] \in PlayerType
      BY <1>1, <1>6 DEF DeliverCallEvent
    <3>. QED  BY <2>1, <3>1, HandledType
  <2>. QED  BY <1>6, <2>2, SoleQuiet DEF DeliverCallEvent
<1>7. ASSUME DeliverRegistration \/ LinkBreaks \/ LinkReturns PROVE SoleInv'
  <2>1. PICK status : LinkBecomes(status)
    BY <1>7 DEF DeliverRegistration, LinkBreaks, LinkReturns
  <2>2. \A f \in Targets : /\ player'[f].worker = player[f].worker
                           /\ player'[f].current = player[f].current
    <3>. SUFFICES ASSUME NEW f \in Targets
                  PROVE  /\ player'[f].worker = player[f].worker
                         /\ player'[f].current = player[f].current
      OBVIOUS
    <3>1. player[f] \in PlayerType
      BY <1>1
    <3>2. player'[f] = player[f] \/ player'[f] = Forgotten(player[f])
      BY <1>1, <2>1 DEF LinkBecomes
    <3>3. /\ Forgotten(player[f]).worker = player[f].worker
          /\ Forgotten(player[f]).current = player[f].current
      BY <3>1 DEF Forgotten, PlayerType
    <3>. QED  BY <3>2, <3>3
  <2>. QED  BY <2>1, <2>2, SoleQuiet DEF LinkBecomes
<1>8. ASSUME Sidecar PROVE SoleInv'
  BY <1>1, <1>8, SoleSidecar DEF Sidecar, playerVars
<1>9. ASSUME UNCHANGED allVars PROVE SoleInv'
  BY <1>9, SoleQuiet DEF allVars, apiVars, playerVars
<1>. QED
  BY <1>2, <1>3, <1>4, <1>5, <1>6, <1>7, <1>8, <1>9, SoleWorker DEF Next

\* Handsets are not rung twice: unless an HTTP request times out, the entry
\* is reloaded or its policy is to replace, there is one call per target
\* that nobody told to hang up, whatever else users, timeouts of holds and
\* the websocket do (media_player.py:442-443, main.py:148-152).
THEOREM NeverRungTwice ==
    ASSUME ~PostsTimeOut, ~Reloads, "replace" \notin Policies
    PROVE  Spec => []OneCallPerTarget
<1>1. Init => SoleInv
  BY DEF Init, ApiInit, SoleInv, SolePost, Outstanding, Cleared, OneCallPerTarget,
         NothingReplaced, Live
<1>2. PlayerInv /\ SoleInv /\ [Next]_allVars => SoleInv'
  BY SoleStep, PlayerAssumption
<1>3. SoleInv => OneCallPerTarget
  BY DEF SoleInv
<1>. QED  BY <1>1, <1>2, <1>3, PlayerInvariance, PTL DEF Spec

(***************************************************************************)
(* The hold of a page.  Where no hold times out and no page replaces a     *)
(* clip, an entity knows of a call only while it holds the page that       *)
(* brought it up (HoldFits), so what ends the hold is that call, and the   *)
(* stream tells of the end of calls that are over or cannot be played, and *)
(* of no other (Honest).                                                   *)
(***************************************************************************)
Ended == {c \in CallIds : call[c].stage = "over" \/ call[c].unplayable}

Honest(b, ended) ==
    \A i \in DOMAIN b.stream :
       b.stream[i].type = "disconnected" => b.stream[i].call \in ended

HoldFits(e) ==
    LET s == player[e]
    IN  /\ s.worker = "holding" => request[s.current].stage = "answered"
        /\ s.callId # NoCall => s.worker = "holding" /\ s.callId = request[s.current].call
        /\ s.finish = "done" => /\ s.worker = "holding" /\ s.callId = NoCall
                                /\ request[s.current].call \in Ended

HoldInv ==
    /\ \A e \in Targets : HoldFits(e)
    /\ Honest(bus, Ended)
    /\ NothingReplaced

\* What is published after the end of a call says so; nothing else does.
LEMMA PublishedHonest ==
    ASSUME NEW b \in [stream: Seq(Events), subscribed: BOOLEAN],
           NEW ended, NEW more, Honest(b, ended), ended \subseteq more,
           NEW type, NEW c, type = "disconnected" => c \in more
    PROVE  Honest(Published(b, type, c), more)
<1>. DEFINE ev == [type |-> type, call |-> c]
            stream == b.stream
<1>1. stream \in Seq(Events) /\ ev.type = type /\ ev.call = c
  OBVIOUS
<1>2. \A i \in DOMAIN stream : stream[i].type = "disconnected" => stream[i].call \in ended
  BY DEF Honest
<1>3. \/ Published(b, type, c).stream = Append(stream, ev)
      \/ Published(b, type, c).stream = stream
  BY DEF Published
<1>. HIDE DEF ev, stream
<1>4. \A i \in DOMAIN Append(stream, ev) :
         \/ i \in DOMAIN stream /\ Append(stream, ev)[i] = stream[i]
         \/ Append(stream, ev)[i] = ev
  BY <1>1
<1>5. CASE Published(b, type, c).stream = Append(stream, ev)
  BY <1>1, <1>2, <1>4, <1>5 DEF Honest
<1>6. CASE Published(b, type, c).stream = stream
  BY <1>2, <1>6 DEF Honest
<1>. QED  BY <1>3, <1>5, <1>6

\* An answer is final, and so is the end of a call, or that its player failed.
LEMMA SidecarSettles ==
    ASSUME ApiTypeOK, SidecarStep
    PROVE  /\ \A r \in Requests : request[r].stage = "answered" => request'[r] = request[r]
           /\ Ended \subseteq Ended'
<1>1. request \in [Requests -> RequestType] /\ call \in [CallIds -> CallType]
  BY DEF ApiTypeOK
<1>2. ASSUME \/ \E cmd \in Commands : Obey(cmd)
             \/ \E c \in CallIds : CallMoves(c) \/ PlayerFails(c) \/ CallEnds(c)
             \/ RegistrationChanges
      PROVE  /\ UNCHANGED request
             /\ Ended \subseteq Ended'
  <2>1. UNCHANGED request
    BY <1>2 DEF Obey, CallMoves, Moves, PlayerFails, CallEnds, RegistrationChanges
  <2>2. ASSUME NEW c \in CallIds, c \in Ended PROVE c \in Ended'
    <3>0. call[c] \in CallType
      BY <1>1
    <3>1. ASSUME NEW cmd \in Commands, Obey(cmd) PROVE c \in Ended'
      <4>1. \/ call' = [call EXCEPT ![cmd.call].hung = TRUE]
            \/ call' = [call EXCEPT ![cmd.call].paused = ~@]
            \/ call' = call
        BY <3>1 DEF Obey
      <4>2. call'[c].stage = call[c].stage /\ call'[c].unplayable = call[c].unplayable
        BY <1>1, <2>2, <4>1 DEF CallType
      <4>. QED  BY <2>2, <4>2 DEF Ended
    <3>2. ASSUME NEW d \in CallIds, CallMoves(d) PROVE c \in Ended'
      <4>1. PICK to : call' = [call EXCEPT ![d].stage = to, ![d].paused = FALSE]
        BY <3>2 DEF CallMoves, Moves
      <4>2. call[d].stage # "over"
        BY <3>2 DEF CallMoves, Moves
      <4>3. \/ call'[c] = call[c] /\ c # d
            \/ c = d /\ call'[c].unplayable = call[c].unplayable
        BY <1>1, <4>1 DEF CallType
      <4>. QED  BY <2>2, <4>2, <4>3 DEF Ended
    <3>3. ASSUME NEW d \in CallIds, PlayerFails(d) PROVE c \in Ended'
      <4>1. call' = [call EXCEPT ![d] = Unplayable(call[d])]
        BY <3>3 DEF PlayerFails
      <4>2. \/ call'[c] = call[c]
            \/ call'[c].unplayable
        BY <1>1, <3>0, <4>1, UnplayableType
      <4>. QED  BY <2>2, <4>2 DEF Ended
    <3>4. ASSUME NEW d \in CallIds, CallEnds(d) PROVE c \in Ended'
      <4>1. call' = [call EXCEPT ![d].stage = "over", ![d].paused = FALSE]
        BY <3>4 DEF CallEnds
      <4>2. \/ call'[c] = call[c]
            \/ call'[c].stage = "over"
        BY <1>1, <4>1 DEF CallType
      <4>. QED  BY <2>2, <4>2 DEF Ended
    <3>5. RegistrationChanges => c \in Ended'
      BY <2>2 DEF RegistrationChanges, Ended
    <3>. QED  BY <1>2, <3>1, <3>2, <3>3, <3>4, <3>5
  <2>. QED  BY <2>1, <2>2 DEF Ended
<1>3. ASSUME NEW r \in Requests,
             \/ Decide(r) \/ HangUpTarget(r) \/ Replace(r) \/ Refuse(r)
             \/ \E c \in CallIds : Dial(r, c) \/ DialFails(r, c)
      PROVE  /\ request[r].stage # "answered"
             /\ \A s \in Requests : s # r => request'[s] = request[s]
             /\ Ended \subseteq Ended'
  <2>1. request[r].stage # "answered" /\ \A s \in Requests : s # r => request'[s] = request[s]
    BY <1>1, <1>3 DEF Decide, HangUpTarget, Replace, Refuse, Dial, DialFails
  <2>2. ASSUME NEW c \in CallIds, c \in Ended PROVE c \in Ended'
    <3>0. call[c] \in CallType
      BY <1>1
    <3>1. ASSUME Decide(r) \/ Refuse(r) PROVE c \in Ended'
      BY <2>2, <3>1 DEF Decide, Refuse, Ended
    <3>2. ASSUME HangUpTarget(r) PROVE c \in Ended'
      <4>1. call'[c] = call[c] \/ call'[c] = [call[c] EXCEPT !.hung = TRUE]
        BY <3>2 DEF HangUpTarget
      <4>2. call'[c].stage = call[c].stage /\ call'[c].unplayable = call[c].unplayable
        BY <3>0, <4>1 DEF CallType
      <4>. QED  BY <2>2, <4>2 DEF Ended
    <3>3. ASSUME Replace(r) PROVE c \in Ended'
      <4>. DEFINE d == request[r].call
      <4>1. /\ Live(d)
            /\ \/ call' = call
               \/ call' = [call EXCEPT ![d].stage = "playback_started", ![d].paused = FALSE]
               \/ call' = [call EXCEPT ![d] = Unplayable(call[d])]
        BY <3>3 DEF Replace
      <4>. HIDE DEF d
      <4>2. CASE call' = call
        BY <2>2, <4>2 DEF Ended
      <4>3. CASE call' = [call EXCEPT ![d].stage = "playback_started", ![d].paused = FALSE]
        <5>1. \/ call'[c] = call[c]
              \/ c = d /\ call'[c].unplayable = call[c].unplayable
          BY <1>1, <4>3 DEF CallType
        <5>. QED  BY <2>2, <4>1, <5>1 DEF Ended, Live
      <4>4. CASE call' = [call EXCEPT ![d] = Unplayable(call[d])]
        <5>1. call'[c] = call[c] \/ call'[c].unplayable
          BY <1>1, <3>0, <4>4, UnplayableType
        <5>. QED  BY <2>2, <5>1 DEF Ended
      <4>. QED  BY <4>1, <4>2, <4>3, <4>4
    <3>4. ASSUME NEW d \in CallIds, Dial(r, d) \/ DialFails(r, d) PROVE c \in Ended'
      <4>1. \E stage \in {"calling", "over"} :
               call' = [call EXCEPT ![d].stage = stage, ![d].target = request[r].target]
        BY <3>4 DEF Dial, DialFails
      <4>2. call[d].stage = "unused"
        BY <3>4 DEF Dial, DialFails
      <4>3. \/ call'[c] = call[c]
            \/ c = d /\ call'[c].unplayable = call[c].unplayable
        BY <1>1, <4>1 DEF CallType
      <4>. QED  BY <2>2, <4>2, <4>3 DEF Ended
    <3>. QED  BY <1>3, <3>1, <3>2, <3>3, <3>4
  <2>. QED  BY <2>1, <2>2 DEF Ended
<1>. QED  BY <1>2, <1>3 DEF SidecarStep

LEMMA SidecarHonest ==
    ASSUME ApiTypeOK, SidecarStep, Honest(bus, Ended)
    PROVE  Honest(bus', Ended')
<1>1. /\ bus \in [stream: Seq(Events), subscribed: BOOLEAN]
      /\ call \in [CallIds -> CallType] /\ request \in [Requests -> RequestType]
      /\ Ended \subseteq Ended' /\ Honest(bus, Ended')
  BY SidecarSettles DEF ApiTypeOK, Honest
<1>2. CASE bus' = bus
  BY <1>1, <1>2
<1>3. ASSUME NEW type \in EventTypes \ {"disconnected"}, NEW c \in CallIds \cup {NoCall},
             bus' = Published(bus, type, c)
      PROVE  Honest(bus', Ended')
  BY <1>1, <1>3, PublishedHonest
<1>4. ASSUME NEW first \in EventTypes \ {"disconnected"}, NEW c \in CallIds \cup {NoCall},
             NEW type \in EventTypes, type = "disconnected" => c \in Ended',
             bus' = Published(Published(bus, first, c), type, c)
      PROVE  Honest(bus', Ended')
  <2>. DEFINE b == Published(bus, first, c)
  <2>1. b \in [stream: Seq(Events), subscribed: BOOLEAN] /\ Honest(b, Ended')
    BY <1>1, PublishedHonest, PublishedType
  <2>. HIDE DEF b
  <2>2. Honest(Published(b, type, c), Ended')
    BY <1>4, <2>1, PublishedHonest
  <2>. QED  BY <1>4, <2>2 DEF b
<1>5. ASSUME NEW c \in CallIds \cup {NoCall}, NEW type \in EventTypes,
             type = "disconnected" => c \in Ended',
             bus' = Published(bus, type, c)
      PROVE  Honest(bus', Ended')
  BY <1>1, <1>5, PublishedHonest
<1>6. ASSUME NEW r \in Requests, Replace(r) PROVE Honest(bus', Ended')
  <2>1. request[r].call \in CallIds \cup {NoCall}
    BY <1>1 DEF RequestType
  <2>2. \/ bus' = bus
        \/ bus' = Published(bus, "playback_started", request[r].call)
        \/ bus' = Published(Published(bus, "playback_finished", request[r].call),
                            "playback_started", request[r].call)
        \/ /\ call' = [call EXCEPT ![request[r].call] = Unplayable(call[request[r].call])]
           /\ \/ bus' = Published(bus, "disconnected", request[r].call)
              \/ bus' = Published(Published(bus, "playback_finished", request[r].call),
                                  "disconnected", request[r].call)
    BY <1>6 DEF Replace
  <2>3. ASSUME call' = [call EXCEPT ![request[r].call] = Unplayable(call[request[r].call])],
               request[r].call \in CallIds
        PROVE  request[r].call \in Ended'
    BY <1>1, <2>3, UnplayableType DEF Ended
  <2>4. request[r].call \in CallIds
    BY <1>6 DEF Replace, Live
  <2>. QED  BY <1>2, <1>3, <1>4, <1>5, <2>1, <2>2, <2>3, <2>4 DEF EventTypes
<1>7. ASSUME NEW r \in Requests, NEW c \in CallIds, DialFails(r, c) PROVE Honest(bus', Ended')
  <2>1. c \in Ended'
    BY <1>1, <1>7 DEF DialFails, Ended, CallType
  <2>. QED  BY <1>4, <1>7, <2>1 DEF DialFails, EventTypes
<1>8. ASSUME NEW c \in CallIds, CallEnds(c) PROVE Honest(bus', Ended')
  <2>1. c \in Ended'
    BY <1>1, <1>8 DEF CallEnds, Ended, CallType
  <2>. QED  BY <1>4, <1>5, <1>8, <2>1 DEF CallEnds, EventTypes
<1>14. ASSUME NEW c \in CallIds, PlayerFails(c) PROVE Honest(bus', Ended')
  <2>1. c \in Ended'
    BY <1>1, <1>14, UnplayableType DEF PlayerFails, Ended
  <2>. QED  BY <1>5, <1>14, <2>1 DEF PlayerFails, EventTypes
<1>9. ASSUME NEW r \in Requests, NEW c \in CallIds, Dial(r, c) PROVE Honest(bus', Ended')
  BY <1>3, <1>9 DEF Dial, EventTypes
<1>10. ASSUME NEW c \in CallIds, CallMoves(c) PROVE Honest(bus', Ended')
  BY <1>3, <1>10 DEF CallMoves, Moves, EventTypes
<1>11. ASSUME NEW cmd \in Commands, Obey(cmd) PROVE Honest(bus', Ended')
  <2>1. cmd.call \in CallIds
    BY DEF Commands
  <2>2. \/ bus' = bus
        \/ bus' = Published(bus, "playback_paused", cmd.call)
        \/ bus' = Published(bus, "playback_resumed", cmd.call)
    BY <1>11 DEF Obey
  <2>. QED  BY <1>2, <1>3, <2>1, <2>2 DEF EventTypes
<1>12. RegistrationChanges => Honest(bus', Ended')
  BY <1>3 DEF RegistrationChanges, EventTypes
<1>13. ASSUME NEW r \in Requests, Decide(r) \/ HangUpTarget(r) \/ Refuse(r)
       PROVE  Honest(bus', Ended')
  BY <1>2, <1>13 DEF Decide, HangUpTarget, Refuse
<1>. QED
  BY <1>6, <1>7, <1>8, <1>9, <1>10, <1>11, <1>12, <1>13, <1>14 DEF SidecarStep

\* What an entity knows of its call, and its worker of its page.
SameHold(e) ==
    /\ player'[e].worker = player[e].worker /\ player'[e].current = player[e].current
    /\ player'[e].callId = player[e].callId /\ player'[e].finish = player[e].finish

\* An entity the step leaves alone, or whose call the step makes it forget.
LEMMA HoldKept ==
    ASSUME PlayerInv, NEW e \in Targets, HoldFits(e),
           \A r \in Requests : request[r].stage = "answered" => request'[r] = request[r],
           Ended \subseteq Ended',
           player'[e].worker = player[e].worker, player'[e].current = player[e].current,
           player'[e].callId \in {player[e].callId, NoCall},
           player'[e].finish = player[e].finish
    PROVE  HoldFits(e)'
<1>1. CASE player[e].worker = "holding"
  <2>1. player[e].current \in Requests
    BY <1>1 DEF PlayerInv, PlayerTyped, PlayerType, EntityFits, WorkerFits, Pages
  <2>2. request'[player[e].current] = request[player[e].current]
    BY <1>1, <2>1 DEF HoldFits
  <2>. QED  BY <1>1, <2>1, <2>2 DEF HoldFits
<1>2. CASE player[e].worker # "holding"
  BY <1>2 DEF HoldFits
<1>. QED  BY <1>1, <1>2

\* A page that is sent leaves answers and calls alone.
LEMMA SendingSettles ==
    ASSUME ApiTypeOK, NEW p \in Pages, NEW e \in Targets, NEW policy, Sends(p, e, policy)
    PROVE  /\ \A r \in Requests : request[r].stage = "answered" => request'[r] = request[r]
           /\ Ended \subseteq Ended' /\ UNCHANGED <<call, bus>>
BY DEF ApiTypeOK, Sends, Post, Ended, Pages

\* The worker between two holds: it knows of no call, and waits for the end
\* of none.
LEMMA HoldBetween ==
    ASSUME NEW e \in Targets, HoldFits(e), player[e].worker # "holding",
           player'[e].worker # "holding", player'[e].callId = player[e].callId,
           player'[e].finish \in {player[e].finish, "waiting", "none"}
    PROVE  HoldFits(e)'
BY DEF HoldFits

LEMMA HoldWorker ==
    ASSUME PlayerInv, HoldInv, ~HoldsTimeOut, NEW e \in Targets,
           \/ WorkerWakes(e) \/ WorkerSleeps(e) \/ TakePage(e) \/ GetLock(e)
           \/ PostAnswered(e) \/ PostFails(e) \/ HoldEnds(e)
           \/ TurnOn(e) \/ TurnOff(e) \/ MediaStop(e)
           \/ \E name \in {"pause", "resume"} : SetPaused(e, name)
    PROVE  HoldInv'
<1>1. /\ player \in [Targets -> PlayerType] /\ page \in [Pages -> PageType] /\ ApiTypeOK
      /\ player[e] \in PlayerType
      /\ player[e].current \in Pages \cup {NoPage} /\ player[e].queue \in Seq(Pages)
  BY DEF PlayerInv, PlayerTyped, PlayerType
<1>2. player[e].worker \in {"locking", "posting", "holding"} => player[e].current \in Pages
  BY <1>1 DEF PlayerInv, EntityFits, WorkerFits
<1>3. \A f \in Targets : f # e => player'[f] = player[f]
  BY <1>1 DEF TurnOn, TurnOff, WorkerWakes, WorkerSleeps, TakePage, GetLock, PostAnswered,
         PostFails, HoldEnds, MediaStop, SetPaused, playerVars
<1>4. UNCHANGED <<request, call, bus>> \/ \E p \in Pages : Sends(p, e, PostPolicy(p))
  <2>1. CASE TakePage(e)
    BY <1>1, <2>1 DEF TakePage, apiVars
  <2>2. CASE GetLock(e)
    BY <1>2, <2>2 DEF GetLock
  <2>3. CASE ~TakePage(e) /\ ~GetLock(e)
    BY <2>3 DEF TurnOn, TurnOff, WorkerWakes, WorkerSleeps, PostAnswered, PostFails,
       HoldEnds, MediaStop, SetPaused, apiVars
  <2>. QED  BY <2>1, <2>2, <2>3
<1>5. /\ \A r \in Requests : request[r].stage = "answered" => request'[r] = request[r]
      /\ Ended \subseteq Ended' /\ Honest(bus', Ended')
  <2>1. CASE UNCHANGED <<request, call, bus>>
    BY <2>1 DEF HoldInv, Honest, Ended
  <2>2. CASE \E p \in Pages : Sends(p, e, PostPolicy(p))
    BY <1>1, <2>2, SendingSettles DEF HoldInv, Honest, Ended
  <2>. QED  BY <1>4, <2>1, <2>2
<1>6. NothingReplaced'
  <2>1. \/ UNCHANGED page
        \/ \E pages : Fail(pages)
        \/ \E p, place : place # "replacing" /\ page' = [page EXCEPT ![p].place = place]
    BY DEF TurnOn, TurnOff, WorkerWakes, WorkerSleeps, TakePage, GetLock, PostAnswered,
       PostFails, HoldEnds, MediaStop, SetPaused, playerVars
  <2>. QED  BY <1>1, <2>1 DEF HoldInv, NothingReplaced, Fail, PageType
<1>7. ASSUME NEW f \in Targets, f # e PROVE HoldFits(f)'
  BY <1>3, <1>5, <1>7, HoldKept DEF HoldInv
<1>8. HoldFits(e)
  BY DEF HoldInv
<1>9. HoldFits(e)'
  <2>1. CASE MediaStop(e) \/ \E name \in {"pause", "resume"} : SetPaused(e, name)
    <3>1. UNCHANGED player
      BY <2>1 DEF MediaStop, SetPaused, playerVars
    <3>. QED  BY <1>5, <1>8, <3>1, HoldKept
  <2>2. CASE TurnOn(e)
    <3>1. player'[e] = [player[e] EXCEPT !.enabled = TRUE]
      BY <1>1, <2>2 DEF TurnOn
    <3>2. SameHold(e)
      BY <1>1, <3>1 DEF SameHold, PlayerType
    <3>. QED  BY <1>5, <1>8, <3>2, HoldKept DEF SameHold
  <2>3. CASE TurnOff(e)
    <3>1. player' = [player EXCEPT ![e] = [player[e] EXCEPT !.enabled = FALSE, !.queue = <<>>]]
      BY <2>3 DEF TurnOff
    <3>2. player'[e] = [player[e] EXCEPT !.enabled = FALSE, !.queue = <<>>]
      BY <1>1, <3>1
    <3>3. SameHold(e)
      BY <1>1, <3>2 DEF SameHold, PlayerType
    <3>. QED  BY <1>5, <1>8, <3>3, HoldKept DEF SameHold
  <2>4. CASE WorkerWakes(e)
    <3>1. player[e].worker = "sleeping" /\ player'[e] = [player[e] EXCEPT !.worker = "looking"]
      BY <1>1, <2>4 DEF WorkerWakes
    <3>2. /\ player'[e].worker = "looking" /\ player'[e].callId = player[e].callId
          /\ player'[e].finish = player[e].finish
      BY <1>1, <3>1 DEF PlayerType
    <3>. QED  BY <1>8, <3>1, <3>2, HoldBetween
  <2>5. CASE WorkerSleeps(e)
    <3>1. /\ player[e].worker = "looking"
          /\ player' = [player EXCEPT ![e] = [player[e] EXCEPT !.worker = "sleeping",
                                                               !.wake = FALSE]]
      BY <2>5 DEF WorkerSleeps
    <3>2. player'[e] = [player[e] EXCEPT !.worker = "sleeping", !.wake = FALSE]
      BY <1>1, <3>1
    <3>3. /\ player'[e].worker = "sleeping" /\ player'[e].callId = player[e].callId
          /\ player'[e].finish = player[e].finish
      BY <1>1, <3>2 DEF PlayerType
    <3>. QED  BY <1>8, <3>1, <3>3, HoldBetween
  <2>6. CASE TakePage(e)
    <3>. DEFINE p == Head(player[e].queue)
                s == [player[e] EXCEPT !.queue = Tail(player[e].queue)]
    <3>1. player[e].worker = "looking" /\ p \in Pages /\ Tail(player[e].queue) \in Seq(Pages)
      BY <1>1, <2>6 DEF TakePage
    <3>2. /\ s \in PlayerType /\ s.callId = player[e].callId /\ s.finish = player[e].finish
      BY <1>1, <3>1 DEF PlayerType
    <3>3. player'[e] = Sending(s, p) \/ player'[e] = [s EXCEPT !.worker = "locking", !.current = p]
      BY <1>1, <2>6 DEF TakePage
    <3>. HIDE DEF s, p
    <3>4. /\ player'[e].worker # "holding" /\ player'[e].callId = s.callId
          /\ player'[e].finish \in {s.finish, "waiting"}
      BY <3>2, <3>3 DEF Sending, PlayerType
    <3>. QED  BY <1>8, <3>1, <3>2, <3>4, HoldBetween
  <2>7. CASE GetLock(e)
    <3>1. /\ player[e].worker = "locking"
          /\ player'[e] = Sending(player[e], player[e].current)
      BY <1>1, <2>7 DEF GetLock
    <3>2. /\ player'[e].worker # "holding" /\ player'[e].callId = player[e].callId
          /\ player'[e].finish = "waiting"
      BY <1>1, <3>1 DEF Sending, PlayerType
    <3>. QED  BY <1>8, <3>1, <3>2, HoldBetween
  <2>8. CASE PostAnswered(e)
    <3>. DEFINE c == request[player[e].current].call
    <3>1. /\ player[e].worker = "posting" /\ request[player[e].current].stage = "answered"
          /\ player'[e] = CallUp(player[e], c) /\ UNCHANGED request
      BY <1>1, <2>8 DEF PostAnswered, apiVars
    <3>. HIDE DEF c
    <3>2. /\ player'[e].worker = "holding" /\ player'[e].callId = c
          /\ player'[e].finish = player[e].finish /\ player'[e].current = player[e].current
      BY <1>1, <3>1 DEF CallUp, PlayerType
    <3>. QED  BY <1>8, <3>1, <3>2 DEF HoldFits, c
  <2>9. CASE PostFails(e)
    <3>1. /\ player[e].worker = "posting"
          /\ player' = [player EXCEPT ![e] = [player[e] EXCEPT !.worker = "looking",
                                                               !.current = NoPage]]
      BY <2>9 DEF PostFails
    <3>2. player'[e] = [player[e] EXCEPT !.worker = "looking", !.current = NoPage]
      BY <1>1, <3>1
    <3>3. /\ player'[e].worker # "holding" /\ player'[e].callId = player[e].callId
          /\ player'[e].finish = player[e].finish
      BY <1>1, <3>2 DEF PlayerType
    <3>. QED  BY <1>8, <3>1, <3>3, HoldBetween
  <2>10. CASE HoldEnds(e)
    <3>1. /\ player[e].finish = "done"
          /\ player' = [player EXCEPT ![e] = [player[e] EXCEPT !.worker = "looking",
                                                 !.current = NoPage, !.finish = "none"]]
      BY <2>10 DEF HoldEnds
    <3>2. player'[e] = [player[e] EXCEPT !.worker = "looking", !.current = NoPage,
                                         !.finish = "none"]
      BY <1>1, <3>1
    <3>3. /\ player'[e].worker = "looking" /\ player'[e].callId = player[e].callId
          /\ player'[e].finish = "none"
      BY <1>1, <3>2 DEF PlayerType
    <3>. QED  BY <1>8, <3>1, <3>3 DEF HoldFits
  <2>. QED  BY <2>1, <2>2, <2>3, <2>4, <2>5, <2>6, <2>7, <2>8, <2>9, <2>10
<1>. QED  BY <1>5, <1>6, <1>7, <1>9 DEF HoldInv

\* What the stream tells of the call of a held page.
LEMMA HoldDeliver ==
    ASSUME PlayerInv, HoldInv, DeliverCallEvent
    PROVE  HoldInv'
<1>. DEFINE ev == Head(bus.stream)
<1>1. /\ player \in [Targets -> PlayerType] /\ bus.stream \in Seq(Events)
      /\ bus.stream # <<>> /\ bus'.stream = Tail(bus.stream)
      /\ ev \in Events /\ ev.call # NoCall
      /\ UNCHANGED <<request, call, page>>
  BY DEF PlayerInv, PlayerTyped, ApiTypeOK, DeliverCallEvent
<1>2. ev.type = "disconnected" => ev.call \in Ended
  BY <1>1 DEF HoldInv, Honest
<1>3. Honest(bus', Ended')
  <2>. SUFFICES ASSUME NEW i \in DOMAIN Tail(bus.stream)
                PROVE  i + 1 \in DOMAIN bus.stream /\ Tail(bus.stream)[i] = bus.stream[i + 1]
    BY <1>1 DEF HoldInv, Honest, Ended
  <2>. QED  BY <1>1
<1>4. NothingReplaced'
  BY <1>1 DEF HoldInv, NothingReplaced
<1>5. ASSUME NEW e \in Targets PROVE HoldFits(e)'
  <2>. DEFINE s == player[e]
  <2>1. s \in PlayerType /\ HoldFits(e) /\ player'[e] = Handled(s, ev)
    BY <1>1 DEF HoldInv, DeliverCallEvent
  <2>. HIDE DEF ev
  <2>2. CASE ev.call # s.callId
    <3>1. player'[e] = s
      BY <2>1, <2>2 DEF Handled
    <3>. QED  BY <1>1, <2>1, <3>1 DEF HoldFits, Ended
  <2>3. CASE ev.call = s.callId /\ ev.type # "disconnected"
    <3>1. SameHold(e)
      <4>1. \/ player'[e] = [s EXCEPT !.paused = TRUE]
            \/ player'[e] = [s EXCEPT !.paused = FALSE]
            \/ player'[e] = [s EXCEPT !.callState = ev.type]
        BY <2>1, <2>3 DEF Handled
      <4>. QED  BY <2>1, <4>1 DEF SameHold, PlayerType
    <3>. QED  BY <1>1, <2>1, <3>1 DEF SameHold, HoldFits, Ended
  <2>4. CASE ev.call = s.callId /\ ev.type = "disconnected"
    <3>1. player'[e] = [Forgotten(s) EXCEPT !.finish = Finished(s)]
      BY <2>1, <2>4 DEF Handled
    <3>2. /\ player'[e].worker = s.worker /\ player'[e].current = s.current
          /\ player'[e].callId = NoCall
          /\ player'[e].finish \in {"done", s.finish}
      BY <2>1, <3>1 DEF Forgotten, Finished, PlayerType
    <3>3. s.worker = "holding" /\ s.callId = request[s.current].call
      BY <1>1, <2>1, <2>4 DEF HoldFits
    <3>. QED  BY <1>1, <1>2, <2>1, <2>4, <3>2, <3>3 DEF HoldFits, Ended
  <2>. QED  BY <2>2, <2>3, <2>4
<1>. QED  BY <1>3, <1>4, <1>5 DEF HoldInv

LEMMA HoldStep ==
    ASSUME PlayerInv, HoldInv, [Next]_allVars, ~HoldsTimeOut, "replace" \notin Policies
    PROVE  HoldInv'
<1>1. /\ player \in [Targets -> PlayerType] /\ page \in [Pages -> PageType] /\ ApiTypeOK
      /\ \A e \in Targets : HoldFits(e)
  BY DEF PlayerInv, PlayerTyped, HoldInv
<1>2. ASSUME NEW p \in Pages, NEW e \in Targets PROVE ~ReplaceNow(p, e)
  BY NeverReplaces DEF PlayerInv, ReplaceNow
<1>3. ASSUME NEW p \in Pages PROVE ~Replaced(p) /\ ~ReplaceFails(p)
  BY DEF HoldInv, NothingReplaced, Replaced, ReplaceFails
<1>4. ASSUME NEW p \in Pages, NEW e \in Targets, Enqueue(p, e) PROVE HoldInv'
  <2>1. UNCHANGED <<request, call, bus>>
    BY <1>4 DEF Enqueue, apiVars
  <2>2. ASSUME NEW f \in Targets PROVE SameHold(f)
    <3>1. \/ player'[f] = player[f]
          \/ player'[f] = [player[f] EXCEPT !.queue = QueueAfter(p, e), !.wake = TRUE]
      <4>1. player' = [player EXCEPT ![e] = [player[e] EXCEPT !.queue = QueueAfter(p, e),
                                                              !.wake = TRUE]]
        BY <1>4 DEF Enqueue
      <4>. HIDE DEF QueueAfter
      <4>. QED  BY <1>1, <4>1
    <3>. QED  BY <1>1, <3>1 DEF SameHold, PlayerType
  <2>3. NothingReplaced'
    <3>. SUFFICES ASSUME NEW q \in Pages PROVE page'[q].place # "replacing"
      BY DEF NothingReplaced
    <3>1. page'[q] = IF q = p THEN [place |-> "queued", target |-> e]
                     ELSE IF q \in Displaced(p, e)
                          THEN [page[q] EXCEPT !.place = "failed"]
                          ELSE page[q]
      BY <1>4 DEF Enqueue
    <3>. HIDE DEF Displaced
    <3>. QED  BY <1>1, <3>1 DEF HoldInv, NothingReplaced, PageType
  <2>. QED  BY <2>1, <2>2, <2>3 DEF HoldInv, HoldFits, SameHold, Honest, Ended
<1>5. ASSUME Reload PROVE HoldInv'
  <2>1. ASSUME NEW e \in Targets PROVE HoldFits(e)'
    <3>1. player'[e] = FreshPlayer
      BY <1>5 DEF Reload
    <3>. QED  BY <3>1 DEF FreshPlayer, HoldFits
  <2>2. Honest(bus', Ended')
    BY <1>5 DEF Reload, Honest
  <2>3. ASSUME NEW p \in Pages PROVE page'[p].place # "replacing"
    <3>1. \/ page'[p] = [page[p] EXCEPT !.place = "failed"]
          \/ page'[p] = [page[p] EXCEPT !.place = "orphaned"]
          \/ page'[p] = [page[p] EXCEPT !.target = NoTarget]
      BY <1>5 DEF Reload
    <3>. QED  BY <1>1, <3>1 DEF HoldInv, NothingReplaced, PageType
  <2>. QED  BY <2>1, <2>2, <2>3 DEF HoldInv, NothingReplaced
<1>6. ASSUME DeliverRegistration \/ LinkBreaks \/ LinkReturns PROVE HoldInv'
  <2>1. PICK status : LinkBecomes(status)
    BY <1>6 DEF DeliverRegistration, LinkBreaks, LinkReturns
  <2>2. ASSUME NEW e \in Targets PROVE HoldFits(e)'
    <3>1. player[e] \in PlayerType /\ UNCHANGED <<request, call>>
      BY <1>1, <2>1 DEF LinkBecomes
    <3>2. player'[e] = player[e] \/ player'[e] = Forgotten(player[e])
      BY <1>1, <2>1 DEF LinkBecomes
    <3>3. /\ player'[e].worker = player[e].worker /\ player'[e].current = player[e].current
          /\ player'[e].callId \in {player[e].callId, NoCall}
          /\ player'[e].finish = player[e].finish
      BY <3>1, <3>2 DEF Forgotten, PlayerType
    <3>4. Ended \subseteq Ended'
      BY <3>1 DEF Ended
    <3>. QED  BY <1>1, <3>1, <3>3, <3>4, HoldKept
  <2>3. Honest(bus', Ended')
    <3>1. bus.stream \in Seq(Events) /\ bus \in [stream: Seq(Events), subscribed: BOOLEAN]
          /\ UNCHANGED call
      BY <1>1, <2>1 DEF ApiTypeOK, LinkBecomes
    <3>2. CASE DeliverRegistration
      <4>1. bus.stream # <<>> /\ bus'.stream = Tail(bus.stream)
        BY <3>1, <3>2 DEF DeliverRegistration
      <4>2. ASSUME NEW i \in DOMAIN Tail(bus.stream)
            PROVE  i + 1 \in DOMAIN bus.stream /\ Tail(bus.stream)[i] = bus.stream[i + 1]
        BY <3>1, <4>1
      <4>. QED  BY <3>1, <4>1, <4>2 DEF HoldInv, Honest, Ended
    <3>3. CASE LinkBreaks
      BY <3>3 DEF LinkBreaks, Honest
    <3>4. CASE LinkReturns
      BY <3>1, <3>4 DEF LinkReturns, HoldInv, Honest, Ended
    <3>. QED  BY <1>6, <3>2, <3>3, <3>4
  <2>4. NothingReplaced'
    BY <2>1 DEF LinkBecomes, HoldInv, NothingReplaced
  <2>. QED  BY <2>2, <2>3, <2>4 DEF HoldInv
<1>7. ASSUME Sidecar PROVE HoldInv'
  <2>1. SidecarStep /\ UNCHANGED <<page, player>>
    BY <1>7 DEF Sidecar, playerVars
  <2>2. Honest(bus', Ended')
    BY <1>1, <2>1, SidecarHonest DEF HoldInv
  <2>3. ASSUME NEW e \in Targets PROVE HoldFits(e)'
    BY <1>1, <2>1, SidecarSettles, HoldKept
  <2>. QED  BY <2>1, <2>2, <2>3 DEF HoldInv, NothingReplaced
<1>8. ASSUME UNCHANGED allVars PROVE HoldInv'
  BY <1>8 DEF allVars, apiVars, playerVars, HoldInv, HoldFits, Honest, Ended, NothingReplaced
<1>. QED
  BY <1>2, <1>3, <1>4, <1>5, <1>6, <1>7, <1>8, HoldWorker, HoldDeliver DEF Next

\* The queue slot is held until the call ends: unless holds time out or
\* pages replace clips, no hold ends before its own call is over or its
\* player could not be opened, in whatever order responses and events come, though requests time out and
\* the websocket breaks in between (media_player.py:494-504, 526-544).
THEOREM SlotsHeld ==
    ASSUME ~HoldsTimeOut, "replace" \notin Policies
    PROVE  Spec => HeldUntilTheEnd
<1>1. Init => HoldInv
  BY DEF Init, ApiInit, FreshPlayer, HoldInv, HoldFits, Honest, NothingReplaced
<1>2. PlayerInv /\ HoldInv /\ [Next]_allVars => HoldInv'
  BY HoldStep
<1>3. HoldInv => (\A e \in Targets :
                    LET c == request[player[e].current].call
                    IN  /\ player[e].worker = "holding" /\ player'[e].worker = "looking"
                        /\ player[e].finish = "done"
                        => ~Live(c) \/ call[c].unplayable)
  BY DEF HoldInv, HoldFits, Ended, Live
<1>. QED  BY <1>1, <1>2, <1>3, PlayerInvariance, PTL DEF Spec, HeldUntilTheEnd
=============================================================================
