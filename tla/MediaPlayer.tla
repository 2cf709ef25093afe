---------------------------- MODULE MediaPlayer ----------------------------
(***************************************************************************)
(* The media player entities of one config entry                           *)
(* (custom_components/media2sip/media_player.py): one per paging target,   *)
(* each with a bounded queue of pages and a worker that places one at a    *)
(* time, all on the event loop of Home Assistant.  What runs between two   *)
(* awaits is one action.                                                   *)
(*                                                                         *)
(* Below them is the sidecar of ControlApi, reached by HTTP requests and   *)
(* heard through the events of one websocket: two connections, so that a   *)
(* response and the events of its call come in any order.  A page is its   *)
(* own request: Requests are the pages, and a page that waits in a queue   *)
(* is a request not sent yet.                                              *)
(***************************************************************************)
EXTENDS ControlApi, Functions

CONSTANTS
    Policies,         \* the policies an entry may be set to
    LockChoices,      \* whether its targets are serialised, BOOLEAN or less
    QueueDepth,       \* QUEUE_DEPTH
    UrgentPages,      \* the pages asked for with priority urgent
    PostsTimeOut,     \* may an HTTP request time out?
    HoldsTimeOut,     \* may a call outlast the time its page is held?
    LinkFails,        \* may the websocket break, or the registration be lost?
    Interferes,       \* do users stop, pause, turn off?
    Reloads           \* may the entry be reloaded?

NoPage == "no page"
Nobody == "nobody"

ASSUME PlayerAssumption ==
    /\ NoPage \notin Requests /\ Nobody \notin Targets
    /\ Policies \subseteq {"replace", "queue", "preempt", "reject"}
    /\ LockChoices \subseteq BOOLEAN
    /\ QueueDepth \in Nat \ {0}
    /\ UrgentPages \subseteq Requests
    /\ {PostsTimeOut, HoldsTimeOut, LinkFails, Interferes, Reloads}
          \subseteq BOOLEAN

VARIABLES
    options,          \* policy and global_lock of the entry
    page,             \* per page: where it is, and the entity it is for
    player,           \* per target: its entity
    lock,             \* who holds global_lock
    link              \* the client's: up and registered, up, or down

playerVars == <<options, page, player, lock, link>>
allVars == <<apiVars, playerVars>>

Pages == Requests

(***************************************************************************)
(* A page: asked for, in the queue, with the worker (waiting for the lock, *)
(* for the response, or held until its call ends), replacing the clip of   *)
(* the call that is up; then its caller is told that it was played, or     *)
(* that it was not.  An orphaned page is one whose queue is gone.          *)
(***************************************************************************)
PageType ==
    [place: {"new", "queued", "working", "replacing", "played", "failed",
             "orphaned"},
     target: Targets \cup {NoTarget}]

(***************************************************************************)
(* An entity.  `worker' is where _run_queue is: about to look at the       *)
(* queue, waiting for _wake, for global_lock, for the response to its      *)
(* request, or for the call to end.  `finish' is _pending_finish.          *)
(***************************************************************************)
PlayerType ==
    [enabled: BOOLEAN, callId: CallIds \cup {NoCall},
     callState: EventTypes \cup {"none"}, paused: BOOLEAN,
     queue: Seq(Pages), wake: BOOLEAN,
     worker: {"looking", "sleeping", "locking", "posting", "holding"},
     current: Pages \cup {NoPage}, finish: {"none", "waiting", "done"}]

Urgent(p) == p \in UrgentPages

FreshPlayer ==
    [enabled |-> TRUE, callId |-> NoCall, callState |-> "none",
     paused |-> FALSE, queue |-> <<>>, wake |-> FALSE, worker |-> "looking",
     current |-> NoPage, finish |-> "none"]

Fail(pages) ==
    page' = [p \in Pages |->
                IF p \in pages THEN [page[p] EXCEPT !.place = "failed"]
                ELSE page[p]]

Sends(p, target, policy) ==
    Post(p, target, policy) /\ UNCHANGED <<call, command, bus, registered>>

(***************************************************************************)
(* async_page, called by play_media, select_source and the page service.   *)
(* One that raises (turned off, busy) changes nothing and is no step.      *)
(***************************************************************************)
Policy(p) == IF Urgent(p) THEN "preempt" ELSE options.policy

CanBeAsked(p, e) == page[p].place = "new" /\ player[e].enabled

ReplaceNow(p, e) ==
    /\ CanBeAsked(p, e)
    /\ Policy(p) = "replace" /\ player[e].callId # NoCall
    /\ page' = [page EXCEPT ![p] = [place |-> "replacing", target |-> e]]
    /\ Sends(p, e, "replace")
    /\ UNCHANGED <<options, player, lock, link>>

\* Mutant: deque drops the oldest page by itself.
DisplacedByPreemption(p, e) ==
    IF Policy(p) = "preempt" THEN Range(player[e].queue) ELSE {}

\* Who has to make room: all that wait, when a preempting page arrives, or
\* the oldest one, when the queue is full.
Displaced(p, e) ==
    LET q == player[e].queue
    IN  IF Policy(p) = "preempt" THEN Range(q)
        ELSE IF Len(q) = QueueDepth THEN {q[1]} ELSE {}

\* Mutant: an urgent page waits behind the others.
QueueAfterAppend(p, e) ==
    LET q == player[e].queue
    IN  IF Len(q) = QueueDepth THEN Append(Tail(q), p) ELSE Append(q, p)

\* Mutant: the queue has no bound.
QueueAfterUnbounded(p, e) ==
    IF Policy(p) = "preempt" THEN <<p>> ELSE Append(player[e].queue, p)

QueueAfter(p, e) ==
    LET q == player[e].queue
    IN  IF Policy(p) = "preempt" THEN <<p>>
        ELSE IF Len(q) = QueueDepth THEN Append(Tail(q), p) ELSE Append(q, p)

\* Mutant: the worker is not woken.
EnqueueSilently(p, e) ==
    /\ CanBeAsked(p, e)
    /\ page' = [page EXCEPT ![p] = [place |-> "queued", target |-> e]]
    /\ player' = [player EXCEPT ![e].queue = Append(@, p)]
    /\ UNCHANGED <<apiVars, options, lock, link>>

Enqueue(p, e) ==
    /\ CanBeAsked(p, e)
    /\ ~(Policy(p) = "replace" /\ player[e].callId # NoCall)
    /\ Policy(p) = "reject" =>
          player[e].callId = NoCall /\ player[e].queue = <<>>
    /\ page' = [q \in Pages |->
                   IF q = p THEN [place |-> "queued", target |-> e]
                   ELSE IF q \in Displaced(p, e)
                        THEN [page[q] EXCEPT !.place = "failed"]
                        ELSE page[q]]
    /\ player' = [player EXCEPT ![e].queue = QueueAfter(p, e),
                                ![e].wake = TRUE]
    /\ UNCHANGED <<apiVars, options, lock, link>>

\* _replace, when its response is there.
Replaced(p) ==
    /\ page[p].place = "replacing" /\ request[p].stage = "answered"
    /\ page' = [page EXCEPT ![p].place = "played"]
    /\ player' = [e \in Targets |->
                     IF e = page[p].target
                     THEN [player[e] EXCEPT !.callId = request[p].call,
                                            !.paused = FALSE]
                     ELSE player[e]]
    /\ UNCHANGED <<apiVars, options, lock, link>>

ReplaceFails(p) ==
    /\ page[p].place = "replacing"
    /\ request[p].stage = "refused" \/ PostsTimeOut
    /\ Fail({p})
    /\ UNCHANGED <<apiVars, options, player, lock, link>>

(***************************************************************************)
(* The worker of a queue: _run_queue, _place, _place_locked.               *)
(***************************************************************************)
WorkerWakes(e) ==
    /\ player[e].worker = "sleeping" /\ player[e].wake
    /\ player' = [player EXCEPT ![e].worker = "looking"]
    /\ UNCHANGED <<apiVars, options, page, lock, link>>

WorkerSleeps(e) ==
    /\ player[e].worker = "looking" /\ player[e].queue = <<>>
    /\ player' = [player EXCEPT ![e].worker = "sleeping", ![e].wake = FALSE]
    /\ UNCHANGED <<apiVars, options, page, lock, link>>

\* The lock is there for this worker, or not asked for; asyncio.Lock lets
\* nobody past those who wait for it.
Granted(e) ==
    options.globalLock =>
       lock = Nobody /\ \A f \in Targets : player[f].worker # "locking"

\* The page goes out; from here _pending_finish is its own.
Sending(s, p) == [s EXCEPT !.worker = "posting", !.current = p,
                           !.finish = "waiting"]

PostPolicy(p) == IF Urgent(p) THEN "preempt" ELSE "reject"

LockTaken(e) == lock' = IF options.globalLock THEN e ELSE lock

TakePage(e) ==
    /\ player[e].worker = "looking" /\ player[e].queue # <<>>
    /\ LET p == Head(player[e].queue)
           s == [player[e] EXCEPT !.queue = Tail(@)]
       IN  /\ page' = [page EXCEPT ![p].place = "working"]
           /\ \/ /\ Granted(e)
                 /\ LockTaken(e)
                 /\ player' = [player EXCEPT ![e] = Sending(s, p)]
                 /\ Sends(p, e, PostPolicy(p))
              \/ /\ ~Granted(e)
                 /\ player' = [player EXCEPT
                                  ![e] = [s EXCEPT !.worker = "locking",
                                                   !.current = p]]
                 /\ UNCHANGED <<apiVars, lock>>
    /\ UNCHANGED <<options, link>>

GetLock(e) ==
    /\ player[e].worker = "locking" /\ lock = Nobody
    /\ LockTaken(e)
    /\ player' = [player EXCEPT ![e] = Sending(@, player[e].current)]
    /\ Sends(player[e].current, e, PostPolicy(player[e].current))
    /\ UNCHANGED <<options, page, link>>

Unlocked(e) == IF lock = e THEN Nobody ELSE lock

CallUp(s, c) == [s EXCEPT !.worker = "holding", !.callId = c,
                          !.callState = "calling"]

\* The response with the call id.
PostAnswered(e) ==
    /\ player[e].worker = "posting"
    /\ request[player[e].current].stage = "answered"
    /\ LET c == request[player[e].current].call
       IN  player' = [player EXCEPT ![e] = CallUp(@, c)]
    /\ UNCHANGED <<apiVars, options, page, lock, link>>

\* 409, another error, or none in time; _pending_finish is left behind.
PostFails(e) ==
    /\ player[e].worker = "posting"
    /\ request[player[e].current].stage = "refused" \/ PostsTimeOut
    /\ Fail({player[e].current})
    /\ player' = [player EXCEPT ![e].worker = "looking", ![e].current = NoPage]
    /\ lock' = Unlocked(e)
    /\ UNCHANGED <<apiVars, options, link>>

\* Mutant: the worker waits for the event alone.
HoldEndsWhenTold(e) ==
    /\ player[e].worker = "holding" /\ player[e].finish = "done"
    /\ page' = [page EXCEPT ![player[e].current].place = "played"]
    /\ player' = [player EXCEPT ![e].worker = "looking", ![e].current = NoPage,
                                ![e].finish = "none"]
    /\ lock' = Unlocked(e)
    /\ UNCHANGED <<apiVars, options, link>>

\* The call ended, or was waited for long enough; both resolve the page.
HoldEnds(e) ==
    /\ player[e].worker = "holding"
    /\ player[e].finish = "done" \/ HoldsTimeOut
    /\ page' = [page EXCEPT ![player[e].current].place = "played"]
    /\ player' = [player EXCEPT ![e].worker = "looking", ![e].current = NoPage,
                                ![e].finish = "none"]
    /\ lock' = Unlocked(e)
    /\ UNCHANGED <<apiVars, options, link>>

(***************************************************************************)
(* The services that users call.                                           *)
(***************************************************************************)
TurnOn(e) ==
    /\ Interferes
    /\ ~player[e].enabled
    /\ player' = [player EXCEPT ![e].enabled = TRUE]
    /\ UNCHANGED <<apiVars, options, page, lock, link>>

Stops(e) ==
    IF player[e].callId = NoCall THEN UNCHANGED command
    ELSE Ask("hangup", player[e].callId)

TurnOff(e) ==
    /\ Interferes
    /\ Fail(Range(player[e].queue))
    /\ player' = [player EXCEPT ![e].enabled = FALSE, ![e].queue = <<>>]
    /\ Stops(e)
    /\ UNCHANGED <<request, call, bus, registered, options, lock, link>>

MediaStop(e) ==
    /\ Interferes
    /\ player[e].callId # NoCall
    /\ Stops(e)
    /\ UNCHANGED <<request, call, bus, registered, playerVars>>

SetPaused(e, name) ==
    /\ Interferes
    /\ player[e].callId # NoCall
    /\ Ask(name, player[e].callId)
    /\ UNCHANGED <<request, call, bus, registered, playerVars>>

\* Mutant: the entities start anew, the lock does not.
ReloadKeepingLock ==
    /\ Reloads
    /\ options' \in [policy: Policies, globalLock: LockChoices]
    /\ page' = [p \in Pages |->
                   IF page[p].place = "queued"
                   THEN [page[p] EXCEPT !.place = "orphaned"]
                   ELSE [page[p] EXCEPT !.target = NoTarget]]
    /\ player' = [e \in Targets |-> FreshPlayer]
    /\ link' = "down"
    /\ bus' = [stream |-> <<>>, subscribed |-> FALSE]
    /\ UNCHANGED <<request, call, command, registered, lock>>

\* New options reload the entry: every worker is cancelled and fails the
\* page it has, what is in the queues is forgotten with them, and new
\* entities start, with a new client and a new lock.  Calls stay up.
Reload ==
    /\ Reloads
    /\ options' \in [policy: Policies, globalLock: LockChoices]
    /\ page' = [p \in Pages |->
                   CASE page[p].place = "working" ->
                           [page[p] EXCEPT !.place = "failed"]
                     [] page[p].place = "queued" ->
                           [page[p] EXCEPT !.place = "orphaned"]
                     [] OTHER -> [page[p] EXCEPT !.target = NoTarget]]
    /\ player' = [e \in Targets |-> FreshPlayer]
    /\ lock' = Nobody
    /\ link' = "down"
    /\ bus' = [stream |-> <<>>, subscribed |-> FALSE]
    /\ UNCHANGED <<request, call, command, registered>>

(***************************************************************************)
(* _handle_event.                                                          *)
(***************************************************************************)
Forgotten(s) == [s EXCEPT !.callId = NoCall, !.callState = "none",
                          !.paused = FALSE]

Finished(s) == IF s.finish = "waiting" THEN "done" ELSE s.finish

\* Mutant: the page is over when its clip is.
HandledClip(s, ev) ==
    IF ev.call # s.callId THEN s
    ELSE CASE ev.type = "playback_paused" -> [s EXCEPT !.paused = TRUE]
           [] ev.type = "playback_resumed" -> [s EXCEPT !.paused = FALSE]
           [] ev.type = "playback_finished" -> [s EXCEPT !.finish = Finished(s)]
           [] ev.type = "disconnected" ->
                 [Forgotten(s) EXCEPT !.finish = Finished(s)]
           [] OTHER -> [s EXCEPT !.callState = ev.type]

Handled(s, ev) ==
    IF ev.call # s.callId THEN s
    ELSE CASE ev.type = "playback_paused" -> [s EXCEPT !.paused = TRUE]
           [] ev.type = "playback_resumed" -> [s EXCEPT !.paused = FALSE]
           [] ev.type = "disconnected" ->
                 [Forgotten(s) EXCEPT !.finish = Finished(s)]
           [] OTHER -> [s EXCEPT !.callState = ev.type]

DeliverCallEvent ==
    /\ bus.stream # <<>> /\ Head(bus.stream).call # NoCall
    /\ bus' = [bus EXCEPT !.stream = Tail(@)]
    /\ player' = [e \in Targets |-> Handled(player[e], Head(bus.stream))]
    /\ UNCHANGED <<request, call, command, registered, options, page, lock,
                   link>>

\* Entities are unavailable while the link is not up and registered; each
\* change is told to them.
LinkBecomes(status) ==
    /\ link' = status
    /\ player' = IF status = "up" THEN player
                 ELSE [e \in Targets |-> Forgotten(player[e])]
    /\ UNCHANGED <<request, call, command, registered, options, page, lock>>

DeliverRegistration ==
    /\ bus.stream # <<>> /\ Head(bus.stream).call = NoCall
    /\ bus' = [bus EXCEPT !.stream = Tail(@)]
    /\ LinkBecomes(IF Head(bus.stream).type = "registered"
                   THEN "up" ELSE "unregistered")

\* What the websocket had still to deliver is gone.
LinkBreaks ==
    /\ LinkFails
    /\ link # "down"
    /\ bus' = [stream |-> <<>>, subscribed |-> FALSE]
    /\ LinkBecomes("down")

\* The reconnect of PbxPageClient, with /health and hello.
LinkReturns ==
    /\ link = "down"
    /\ bus' = [bus EXCEPT !.subscribed = TRUE]
    /\ LinkBecomes(IF registered THEN "up" ELSE "unregistered")

\* What the sidecar does meanwhile.
Sidecar ==
    /\ SidecarStep
    /\ LinkFails \/ UNCHANGED registered
    /\ UNCHANGED playerVars

Init ==
    /\ ApiInit
    /\ options \in [policy: Policies, globalLock: LockChoices]
    /\ page = [p \in Pages |-> [place |-> "new", target |-> NoTarget]]
    /\ player = [e \in Targets |-> FreshPlayer]
    /\ lock = Nobody
    /\ link = "up"

Next ==
    \/ \E p \in Pages, e \in Targets : ReplaceNow(p, e) \/ Enqueue(p, e)
    \/ \E p \in Pages : Replaced(p) \/ ReplaceFails(p)
    \/ \E e \in Targets :
          \/ WorkerWakes(e) \/ WorkerSleeps(e) \/ TakePage(e) \/ GetLock(e)
          \/ PostAnswered(e) \/ PostFails(e) \/ HoldEnds(e)
          \/ TurnOn(e) \/ TurnOff(e) \/ MediaStop(e)
          \/ \E name \in {"pause", "resume"} : SetPaused(e, name)
    \/ Reload
    \/ DeliverCallEvent \/ DeliverRegistration \/ LinkBreaks \/ LinkReturns
    \/ Sidecar

Spec == Init /\ [][Next]_allVars

(***************************************************************************)
(* The event loop gets to every coroutine.  An HTTP request ends after 30  *)
(* seconds at the latest and a hold after its timeout (`_call_timeout'),   *)
(* asyncio.Lock hands itself to its waiters in their order.  Nothing is    *)
(* assumed of the sidecar, its calls or the websocket.                     *)
(***************************************************************************)
LoopProgress ==
    /\ \A p \in Pages : WF_allVars(Replaced(p) \/ ReplaceFails(p))
    /\ \A e \in Targets :
          /\ WF_allVars(WorkerWakes(e) \/ WorkerSleeps(e) \/ TakePage(e))
          /\ SF_allVars(GetLock(e))
          /\ WF_allVars(PostAnswered(e) \/ PostFails(e))
          /\ WF_allVars(HoldEnds(e))

FairSpec == Spec /\ LoopProgress

(***************************************************************************)
(* Properties.                                                             *)
(***************************************************************************)
\* Every variable holds a value of the kind the code gives it, and a queue
\* is never longer than QUEUE_DEPTH.
PlayerTypeOK ==
    /\ ApiTypeOK
    /\ options \in [policy: Policies, globalLock: LockChoices]
    /\ page \in [Pages -> PageType]
    /\ player \in [Targets -> PlayerType]
    /\ \A e \in Targets : Len(player[e].queue) <= QueueDepth
    /\ lock \in Targets \cup {Nobody}
    /\ link \in {"up", "unregistered", "down"}

\* A page whose caller waits is in exactly one place: once in the queue of
\* its target, or with its worker (media_player.py:401-405, 451, 511-513).
\* A page that overflow, preemption or turn_off takes out of the queue
\* without telling its caller would be in none.
PagesAccounted ==
    /\ \A p \in Pages :
          /\ page[p].place = "queued" =>
                Cardinality({i \in DOMAIN player[page[p].target].queue :
                                player[page[p].target].queue[i] = p}) = 1
          /\ page[p].place = "working" => player[page[p].target].current = p
    /\ \A e \in Targets :
          /\ \A p \in Range(player[e].queue) :
                page[p].place = "queued" /\ page[p].target = e
          /\ player[e].current # NoPage =>
                /\ page[player[e].current].place = "working"
                /\ page[player[e].current].target = e

\* A worker that sleeps on a queue with a page in it has been woken
\* (media_player.py:405-406, 446-449).
NoLostWakeup ==
    \A e \in Targets :
       player[e].worker = "sleeping" /\ player[e].queue # <<>> => player[e].wake

\* global_lock is with the worker whose page is sent or held, and with no
\* other: no failure, timeout or reload leaves it taken, which would silence
\* every target of the entry (media_player.py:464-470, 496-504).
LockOwned ==
    /\ lock # Nobody => options.globalLock
    /\ options.globalLock =>
          \A e \in Targets :
             lock = e <=> player[e].worker \in {"posting", "holding"}

\* An urgent page "skips the queue" (docs/user/usage.md:71): nothing waits
\* in front of it.
UrgentSkipsQueue ==
    \A e \in Targets :
       \A i \in DOMAIN player[e].queue : Urgent(player[e].queue[i]) => i = 1

\* Never wait on the sidecar forever (media_player.py:508): whoever asks for
\* a page is told how it ended, though the sidecar, its calls or the
\* websocket fail at any moment.  Only a reload leaves callers behind: those
\* of the pages it finds in a queue, and of no other.
EveryCallerIsTold ==
    \A p \in Pages :
       page[p].place \in {"queued", "replacing"}
          ~> page[p].place \in {"played", "failed", "orphaned"}

\* "Urgent preempts whatever is playing" (services.yaml:38,
\* docs/user/usage.md:71): an urgent page does not wait for the call of a
\* routine one that nobody asked to hang up.
UrgentPreempts ==
    \A e \in Targets :
       LET s == player[e]
       IN  /\ s.queue # <<>> /\ Urgent(Head(s.queue))
           /\ s.worker = "holding" /\ ~Urgent(s.current)
           /\ s.callId # NoCall /\ Live(s.callId)
           => \/ call[s.callId].hung
              \/ [name |-> "hangup", call |-> s.callId] \in command

\* "Hold the queue slot until the call really ends" (media_player.py:494):
\* where no hold times out, each ends after its call, and not with the event
\* of another.  The one exception are calls whose player could not be opened:
\* the sidecar tells of their end before they are down (sip.py:656).
HeldUntilTheEnd ==
    [][\A e \in Targets :
          LET c == request[player[e].current].call
          IN  /\ player[e].worker = "holding" /\ player'[e].worker = "looking"
              /\ player[e].finish = "done"
              => ~Live(c) \/ call[c].unplayable]_allVars
=============================================================================
