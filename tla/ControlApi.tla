----------------------------- MODULE ControlApi -----------------------------
(***************************************************************************)
(* The control API of the sidecar (sidecar/app/main.py) with the event bus *)
(* behind its websocket (sidecar/app/events.py): HTTP requests handled     *)
(* side by side on the asyncio thread, each one interrupted at every       *)
(* await, commands that the SIP thread runs one at a time, and the stream  *)
(* of events on its way to the one client.                                 *)
(*                                                                         *)
(* A call is seen here as its clients see it; SipWorker is the detailed    *)
(* model of what ends it and when its clip sounds.  Left to SipWorker are  *)
(* ringing and clips on early media; the playback_finished of a call that  *)
(* is hung up may come a little later here than there.                     *)
(***************************************************************************)
EXTENDS Integers, Sequences, FiniteSets

CONSTANTS
    Requests,        \* POST /call requests, each one sent at most once
    CallIds,         \* ids of the calls placed (uuids: never used twice)
    Targets,         \* paging extensions
    StreamDepth,     \* how many events a subscriber may be behind
    DropsSubscriber, \* whether the client may fall behind that far
    PlayerMayFail,   \* whether a clip may turn out not to open
    MaxCommands      \* bound: so many hangups and pauses are on their way

ASSUME ApiAssumption ==
    /\ StreamDepth \in Nat /\ StreamDepth > 1
    /\ DropsSubscriber \in BOOLEAN /\ PlayerMayFail \in BOOLEAN
    /\ MaxCommands \in Nat

VARIABLES
    request,         \* per request: how far its handler is
    call,            \* per call id: the call, as its clients see it
    command,         \* hangups and pauses asked for and not yet carried out
    bus,             \* the events not yet received, and whether more will come
    registered       \* is the SIP account registered?

apiVars == <<request, call, command, bus, registered>>

NoCall == "no call"
NoTarget == "no target"

ApiPolicies == {"reject", "replace", "preempt"}

(***************************************************************************)
(* The awaits of place_call at which a request can be: its media is being  *)
(* resolved, or a command of its own is with the SIP thread.               *)
(***************************************************************************)
RequestType ==
    [stage: {"unused", "resolving", "dialing", "replacing", "preempting",
             "answered", "refused"},
     target: Targets \cup {NoTarget}, policy: ApiPolicies,
     call: CallIds \cup {NoCall}]

\* `hung' is a call that was told to hang up, `unplayable' one whose player
\* once could not be opened.
CallType ==
    [stage: {"unused", "calling", "confirmed", "playback_started",
             "playback_finished", "over"},
     target: Targets \cup {NoTarget}, paused: BOOLEAN, hung: BOOLEAN,
     unplayable: BOOLEAN]

Commands == [name: {"hangup", "pause", "resume"}, call: CallIds]

EventTypes == {"calling", "confirmed", "playback_started",
               "playback_finished", "playback_paused", "playback_resumed",
               "disconnected", "registered", "unregistered"}

Events == [type: EventTypes, call: CallIds \cup {NoCall}]

\* active_calls: a session is in _sessions until DISCONNECTED.
Live(c) == c \in CallIds /\ call[c].stage \notin {"unused", "over"}

InFlight(target) == {c \in CallIds : Live(c) /\ call[c].target = target}

(***************************************************************************)
(* EventBus.publish.  A subscriber whose queue is full is dropped for good *)
(* and reads what it still has.  StreamDepth stands for the 256 of the     *)
(* code; unless DropsSubscriber it is a bound of the model instead, and    *)
(* whoever publishes waits for room.                                       *)
(***************************************************************************)
Published(b, type, c) ==
    IF ~b.subscribed THEN b
    ELSE IF Len(b.stream) < StreamDepth
         THEN [b EXCEPT !.stream = Append(@, [type |-> type, call |-> c])]
         ELSE [b EXCEPT !.subscribed = FALSE]

Room(n) == DropsSubscriber \/ Len(bus.stream) + n <= StreamDepth

(***************************************************************************)
(* POST /call.                                                             *)
(***************************************************************************)
Post(r, target, policy) ==
    /\ request[r].stage = "unused"
    /\ request' = [request EXCEPT ![r].stage = "resolving",
                                  ![r].target = target, ![r].policy = policy]

\* Mutant: policy reject does not look at the calls in flight.
DecideUnlessBusy(r) ==
    /\ request[r].stage = "resolving"
    /\ request' = [request EXCEPT ![r].stage = "dialing"]
    /\ UNCHANGED <<call, command, bus, registered>>

\* The media is there: from the look at active_calls to the next await
\* nothing else runs.  Which of several calls is in_flight[0] is left open.
Decide(r) ==
    /\ request[r].stage = "resolving"
    /\ LET busy == InFlight(request[r].target)
           policy == request[r].policy
       IN  \/ /\ busy = {}
              /\ request' = [request EXCEPT ![r].stage = "dialing"]
           \/ /\ busy # {} /\ policy = "reject"
              /\ request' = [request EXCEPT ![r].stage = "refused"]
           \/ /\ busy # {} /\ policy = "replace"
              /\ \E c \in busy :
                    request' = [request EXCEPT ![r].stage = "replacing",
                                               ![r].call = c]
           \/ /\ busy # {} /\ policy = "preempt"
              /\ request' = [request EXCEPT ![r].stage = "preempting"]
    /\ UNCHANGED <<call, command, bus, registered>>

\* _cmd_hangup_target.
HangUpTarget(r) ==
    /\ request[r].stage = "preempting"
    /\ call' = [c \in CallIds |->
                   IF c \in InFlight(request[r].target)
                   THEN [call[c] EXCEPT !.hung = TRUE] ELSE call[c]]
    /\ request' = [request EXCEPT ![r].stage = "dialing"]
    /\ UNCHANGED <<command, bus, registered>>

\* _cmd_place_call.
Dial(r, c) ==
    /\ request[r].stage = "dialing"
    /\ registered
    /\ call[c].stage = "unused"
    /\ Room(1)
    /\ call' = [call EXCEPT ![c].stage = "calling",
                            ![c].target = request[r].target]
    /\ bus' = Published(bus, "calling", c)
    /\ request' = [request EXCEPT ![r].stage = "answered", ![r].call = c]
    /\ UNCHANGED <<command, registered>>

\* _cmd_place_call, when makeCall raises.
DialFails(r, c) ==
    /\ request[r].stage = "dialing"
    /\ registered
    /\ call[c].stage = "unused"
    /\ Room(2)
    /\ call' = [call EXCEPT ![c].stage = "over",
                            ![c].target = request[r].target]
    /\ bus' = Published(Published(bus, "calling", c), "disconnected", c)
    /\ request' = [request EXCEPT ![r].stage = "refused"]
    /\ UNCHANGED <<command, registered>>

\* _start_playback, when the player raises: DISCONNECTED is published at once,
\* and _teardown asks for a hangup that completes later.
Unplayable(s) == [s EXCEPT !.stage = "confirmed", !.paused = FALSE,
                           !.hung = TRUE, !.unplayable = TRUE]

\* _cmd_replace_media: the new clip sounds at once if the media is up.
Replace(r) ==
    /\ request[r].stage = "replacing"
    /\ LET c == request[r].call
           stopped == IF call[c].stage = "playback_started"
                      THEN Published(bus, "playback_finished", c) ELSE bus
       IN  /\ Live(c)
           /\ Room(2)
           /\ \/ /\ call[c].stage # "calling"
                 /\ call' = [call EXCEPT ![c].stage = "playback_started",
                                         ![c].paused = FALSE]
                 /\ bus' = Published(stopped, "playback_started", c)
              \/ /\ PlayerMayFail /\ call[c].stage # "calling"
                 /\ call' = [call EXCEPT ![c] = Unplayable(@)]
                 /\ bus' = Published(stopped, "disconnected", c)
              \/ /\ call[c].stage \in {"calling", "confirmed"}
                 /\ UNCHANGED <<call, bus>>
    /\ request' = [request EXCEPT ![r].stage = "answered"]
    /\ UNCHANGED <<command, registered>>

\* Mutant: nobody answers for a call that is gone.
RefuseDialOnly(r) ==
    /\ request[r].stage \in {"resolving", "dialing"}
    /\ request' = [request EXCEPT ![r].stage = "refused"]
    /\ UNCHANGED <<call, command, bus, registered>>

\* A MediaError, or a command that raised SipError.
Refuse(r) ==
    /\ \/ request[r].stage \in {"resolving", "dialing"}
       \/ request[r].stage = "replacing" /\ ~Live(request[r].call)
    /\ request' = [request EXCEPT ![r].stage = "refused"]
    /\ UNCHANGED <<call, command, bus, registered>>

(***************************************************************************)
(* DELETE /call/{id} and POST /call/{id}/pause.                            *)
(***************************************************************************)
Ask(name, c) ==
    /\ Cardinality(command) < MaxCommands
    /\ command' = command \cup {[name |-> name, call |-> c]}

Obey(cmd) ==
    /\ cmd \in command
    /\ command' = command \ {cmd}
    /\ LET c == cmd.call
       IN  \/ /\ cmd.name = "hangup" /\ Live(c)
              /\ call' = [call EXCEPT ![c].hung = TRUE]
              /\ UNCHANGED bus
           \/ /\ cmd.name # "hangup" /\ call[c].stage = "playback_started"
              /\ call[c].paused # (cmd.name = "pause")
              /\ ~call[c].hung
              /\ Room(1)
              /\ call' = [call EXCEPT ![c].paused = ~@]
              /\ bus' = Published(bus, IF cmd.name = "pause"
                                       THEN "playback_paused"
                                       ELSE "playback_resumed", c)
           \* It raises or has nothing to do; or the request was lost.
           \/ UNCHANGED <<call, bus>>
    /\ UNCHANGED <<request, registered>>

(***************************************************************************)
(* What the SIP worker tells of a call.                                    *)
(***************************************************************************)
Moves(c, from, to) ==
    /\ call[c].stage = from
    /\ Room(1)
    /\ call' = [call EXCEPT ![c].stage = to, ![c].paused = FALSE]
    /\ bus' = Published(bus, to, c)
    /\ UNCHANGED <<request, command, registered>>

CallMoves(c) ==
    \/ Moves(c, "calling", "confirmed")
    \/ Moves(c, "confirmed", "playback_started")
    \/ Moves(c, "playback_started", "playback_finished")

\* The timers find the lead-in over, and do so again at every turn until the
\* call is down.
PlayerFails(c) ==
    /\ PlayerMayFail /\ call[c].stage = "confirmed"
    /\ Room(1)
    /\ call' = [call EXCEPT ![c] = Unplayable(@)]
    /\ bus' = Published(bus, "disconnected", c)
    /\ UNCHANGED <<request, command, registered>>

CallEnds(c) ==
    /\ Live(c)
    /\ Room(2)
    /\ call' = [call EXCEPT ![c].stage = "over", ![c].paused = FALSE]
    /\ bus' = Published(IF call[c].stage = "playback_started"
                        THEN Published(bus, "playback_finished", c) ELSE bus,
                        "disconnected", c)
    /\ UNCHANGED <<request, command, registered>>

RegistrationChanges ==
    /\ Room(1)
    /\ registered' = ~registered
    /\ LET type == IF registered THEN "unregistered" ELSE "registered"
       IN  bus' = Published(bus, type, NoCall)
    /\ UNCHANGED <<request, call, command>>

ApiInit ==
    /\ request = [r \in Requests |->
                     [stage |-> "unused", target |-> NoTarget,
                      policy |-> "reject", call |-> NoCall]]
    /\ call = [c \in CallIds |->
                  [stage |-> "unused", target |-> NoTarget, paused |-> FALSE,
                   hung |-> FALSE, unplayable |-> FALSE]]
    /\ command = {}
    /\ bus = [stream |-> <<>>, subscribed |-> TRUE]
    /\ registered = TRUE

\* A step of the sidecar, whoever its clients are.
SidecarStep ==
    \/ \E r \in Requests : \/ Decide(r) \/ HangUpTarget(r)
                           \/ \E c \in CallIds : Dial(r, c) \/ DialFails(r, c)
                           \/ Replace(r) \/ Refuse(r)
    \/ \E cmd \in Commands : Obey(cmd)
    \/ \E c \in CallIds : CallMoves(c) \/ PlayerFails(c) \/ CallEnds(c)
    \/ RegistrationChanges

(***************************************************************************)
(* The sidecar on its own, with clients that post, hang up, pause and read *)
(* as they like; to ask anything of a call that is over changes nothing.   *)
(***************************************************************************)
PostCall(r, target, policy) ==
    Post(r, target, policy) /\ UNCHANGED <<call, command, bus, registered>>

AskCall(name, c) ==
    /\ Live(c)
    /\ Ask(name, c)
    /\ UNCHANGED <<request, call, bus, registered>>

Receive ==
    /\ bus.stream # <<>>
    /\ bus' = [bus EXCEPT !.stream = Tail(@)]
    /\ UNCHANGED <<request, call, command, registered>>

ApiNext ==
    \/ SidecarStep
    \/ \E r \in Requests, t \in Targets, policy \in ApiPolicies :
           PostCall(r, t, policy)
    \/ \E cmd \in Commands : AskCall(cmd.name, cmd.call)
    \/ Receive

ApiSpec == ApiInit /\ [][ApiNext]_apiVars

(***************************************************************************)
(* The media of a request is resolved or the attempt times out, and the    *)
(* SIP thread gets to every command; the client reads its events.          *)
(***************************************************************************)
HandlersProgress ==
    /\ \A r \in Requests :
          /\ WF_apiVars(Decide(r))
          /\ WF_apiVars(HangUpTarget(r))
          /\ WF_apiVars(Replace(r) \/ Refuse(r)
                           \/ \E c \in CallIds : Dial(r, c))
    /\ WF_apiVars(Receive)

FairApiSpec == ApiSpec /\ HandlersProgress

(***************************************************************************)
(* Properties.                                                             *)
(***************************************************************************)
\* Every variable holds a value of the kind the code gives it.
ApiTypeOK ==
    /\ request \in [Requests -> RequestType]
    /\ call \in [CallIds -> CallType]
    /\ command \subseteq Commands
    /\ bus \in [stream: Seq(Events), subscribed: BOOLEAN]
    /\ registered \in BOOLEAN

\* A target is one set of handsets: apart from calls that were told to hang
\* up there is at most one call to it (media_player.py:442-443; "a second
\* page to a busy target is rejected", sidecar/tests/integration/
\* test_e2e.py:272, sidecar/README.md:66).
OneCallPerTarget ==
    \A c, d \in CallIds :
       /\ Live(c) /\ ~call[c].hung
       /\ Live(d) /\ ~call[d].hung
       /\ call[c].target = call[d].target
       => c = d

\* Every request gets an answer, also when the call it was to replace ended
\* under it (main.py:136-195, sip.py:484-486).
EveryRequestAnswered ==
    \A r \in Requests :
       request[r].stage = "resolving"
          ~> request[r].stage \in {"answered", "refused"}
=============================================================================
