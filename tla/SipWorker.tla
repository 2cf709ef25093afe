----------------------------- MODULE SipWorker -----------------------------
(***************************************************************************)
(* The SIP thread of the sidecar (sidecar/app/sip.py): one loop that pumps *)
(* pjsua2, drains the command queue and services the timers of every page  *)
(* in flight.  Everything that touches a CallSession runs on this thread,  *)
(* so each callback, each command and each iteration of the timer loop is  *)
(* one action.                                                             *)
(*                                                                         *)
(* A handler of the code is a function of the session it works on.  Here   *)
(* it is an operator from a session to a session, or to the SET of         *)
(* sessions it may leave behind where pjsua2 decides (a hangup accepted or *)
(* refused, a player that opens or fails).                                 *)
(*                                                                         *)
(* Time is counted in pumps of the loop: libHandleEvents blocks for at     *)
(* most one pump, and nothing else on the thread takes time.  As in the    *)
(* code, a time or a deadline of 0 means "not set".                        *)
(***************************************************************************)
EXTENDS Integers

CONSTANTS
    CallIds,        \* ids of the calls placed (uuids: never used twice)
    Targets,        \* paging extensions
    Accounts,       \* SIP accounts
    Commands,       \* the commands clients issue, a subset of CommandNames
    Durations,      \* clip durations
    LeadIns,        \* lead-ins a page may ask for
    AnswerTimeout,  \* config.answer_timeout
    MaxCall,        \* config.max_call_seconds
    Tail,           \* _PLAYBACK_TAIL
    EofSlack,       \* how early pjsua2 may report the end of a clip
    PlayerMayFail,  \* whether opening a clip or placing a call can fail
    LastStart,      \* bound: no call is placed after this time
    MaxTime         \* bound: the clock stops here

CommandNames == {"place_call", "hangup", "hangup_target", "replace_media",
                 "set_paused", "stop"}

ASSUME ConstantsAssumption ==
    /\ Commands \subseteq CommandNames
    /\ Durations \subseteq Nat
    /\ LeadIns \subseteq Nat
    /\ AnswerTimeout \in Nat /\ MaxCall \in Nat
    /\ Tail \in Nat /\ EofSlack \in Nat /\ EofSlack <= Tail
    /\ PlayerMayFail \in BOOLEAN
    /\ LastStart \in Nat /\ MaxTime \in Nat

VARIABLES
    now,            \* time.monotonic(), in pumps
    pc,             \* where the loop of _run is
    todo,           \* the sessions a for-loop of the code has still to visit
    registration,   \* per account: is it registered?
    session         \* per call id: its CallSession

vars == <<now, pc, todo, registration, session>>

NoTarget == "no target"

(***************************************************************************)
(* What _publish handed to the bus last, per call.                         *)
(***************************************************************************)
EventTypes == {"none", "calling", "early", "confirmed", "playback_started",
               "playback_finished", "playback_paused", "playback_resumed",
               "disconnected"}

EndReasons == {"", "requested", "preempted", "shutdown", "disconnected",
               "answer_timeout", "max_duration", "playback_complete",
               "playback_failed"}

(***************************************************************************)
(* A CallSession, with the fields of the code under their names.  Beside   *)
(* them: `call' is session.call together with what pjsua2 knows of it      *)
(* ("none" is None, "hanging" is a call whose hangup it accepted and whose *)
(* DISCONNECTED callback is still to come); and three observations, never  *)
(* read by the code: `event', the last event published; `filed', how many  *)
(* history records were appended; `heard', for how long the clip now set   *)
(* was sent to the call.                                                   *)
(***************************************************************************)
SessionType ==
    [target: Targets \cup {NoTarget}, duration: Nat, lead_in: Nat,
     state: {"unused", "new", "early", "confirmed", "playback_started",
             "disconnected"},
     call: {"none", "active", "hanging"},
     player: BOOLEAN, media_ready: BOOLEAN, playback_started: BOOLEAN,
     paused: BOOLEAN, started_at: Nat, confirmed_at: Nat, playback_at: Nat,
     playback_origin: Int, played: Int, answer_deadline: Nat,
     playback_deadline: Nat, hangup_deadline: Int, end_reason: EndReasons,
     event: EventTypes, filed: Nat, heard: Nat]

UnusedSession ==
    [target |-> NoTarget, duration |-> 0, lead_in |-> 0, state |-> "unused",
     call |-> "none", player |-> FALSE, media_ready |-> FALSE,
     playback_started |-> FALSE, paused |-> FALSE, started_at |-> 0,
     confirmed_at |-> 0, playback_at |-> 0, playback_origin |-> 0,
     played |-> 0, answer_deadline |-> 0, playback_deadline |-> 0,
     hangup_deadline |-> 0, end_reason |-> "", event |-> "none", filed |-> 0,
     heard |-> 0]

\* The keys of _sessions: a session is there from makeCall to _finish.
InFlight == {c \in CallIds : session[c].call # "none"}

\* The clip is reaching the call: a player is attached and not paused.
Transmitting(s) == s.player /\ ~s.paused

\* Mutant: the last cause wins.
LastReason(s, reason) == reason

FirstReason(s, reason) == IF s.end_reason = "" THEN reason ELSE s.end_reason

(***************************************************************************)
(* Handlers.                                                               *)
(***************************************************************************)
Publish(s, type) == [s EXCEPT !.event = type]

\* Mutant: the player is dropped without telling anyone.
StopPlayerQuietly(s) == [s EXCEPT !.player = FALSE]

StopPlayer(s) ==
    IF ~s.player THEN s
    ELSE Publish([s EXCEPT !.player = FALSE],
                 IF s.playback_started THEN "playback_finished" ELSE s.event)

\* Mutant: whether the session is still in _sessions is not looked at.
FinishAgain(s, reason) ==
    Publish([StopPlayer(s) EXCEPT !.state = "disconnected",
                                  !.end_reason = FirstReason(s, reason),
                                  !.filed = @ + 1,
                                  !.call = "none"],
            "disconnected")

Finish(s, reason) ==
    IF s.call = "none" THEN s
    ELSE Publish([StopPlayer(s) EXCEPT !.state = "disconnected",
                                       !.end_reason = FirstReason(s, reason),
                                       !.filed = @ + 1,
                                       !.call = "none"],
                 "disconnected")

Hung(s, reason) ==
    StopPlayer([s EXCEPT !.end_reason = FirstReason(s, reason)])

\* Either pjsua2 takes the hangup and DISCONNECTED finishes the job later,
\* or there is nothing left to hang up and the session ends here.
Teardown(s, reason) ==
    LET h == Hung(s, reason)
    IN  {Finish(h, reason)}
        \cup {[h EXCEPT !.call = "hanging"] : call \in {s.call} \ {"none"}}

\* Published here, and a second time when the session does finish.
PlaybackFailed(s) ==
    Teardown(Publish(s, "disconnected"), "playback_failed")

StartedPlayback(s) ==
    Publish([s EXCEPT !.player = TRUE, !.playback_started = TRUE,
                      !.playback_origin = now, !.played = 0, !.paused = FALSE,
                      !.playback_at = IF @ = 0 THEN now ELSE @,
                      !.state = "playback_started", !.heard = 0,
                      !.hangup_deadline = now + s.duration + Tail],
            "playback_started")

StartPlayback(s) ==
    {StartedPlayback(s)} \cup (IF PlayerMayFail THEN PlaybackFailed(s) ELSE {})

\* Mutant: the answer deadline is set in the past.
PlacedCallOverdue(target, duration, lead_in) ==
    {[UnusedSession EXCEPT !.target = target, !.duration = duration,
                           !.lead_in = lead_in, !.state = "new",
                           !.started_at = now, !.call = "active",
                           !.answer_deadline = now - AnswerTimeout]}

\* What makeCall leaves: a call that is up, or, when it raises, an event and
\* nothing in _sessions.
PlacedCall(target, duration, lead_in) ==
    LET s == [UnusedSession EXCEPT !.target = target, !.duration = duration,
                                   !.lead_in = lead_in, !.state = "new",
                                   !.started_at = now,
                                   !.answer_deadline = now + AnswerTimeout]
    IN  {Publish([s EXCEPT !.call = "active"], "calling")}
        \cup (IF PlayerMayFail
               THEN {Publish([s EXCEPT !.call = "none"], "disconnected")}
               ELSE {})

\* Mutant: a new clip clears every deadline of the session.
WithNewClipNoDeadlines(s, duration) ==
    [StopPlayer(s) EXCEPT !.duration = duration, !.playback_started = FALSE,
                          !.played = 0, !.paused = FALSE, !.heard = 0,
                          !.hangup_deadline = 0, !.answer_deadline = 0]

WithNewClip(s, duration) ==
    [StopPlayer(s) EXCEPT !.duration = duration, !.playback_started = FALSE,
                          !.played = 0, !.paused = FALSE,
                          !.hangup_deadline = 0, !.heard = 0]

ReplacedMedia(s, duration) ==
    LET r == WithNewClip(s, duration)
    IN  IF r.media_ready
        THEN StartPlayback(r)
        ELSE {[r EXCEPT !.playback_deadline =
                            IF @ = 0 THEN now + s.lead_in ELSE @]}

Paused(s) ==
    Publish([s EXCEPT !.played = now - s.playback_origin, !.paused = TRUE,
                      !.hangup_deadline = 0],
            "playback_paused")

\* Mutant: the suspended playback timer is not armed again.
ResumedUntimed(s) ==
    Publish([s EXCEPT !.paused = FALSE, !.playback_origin = now - s.played],
            "playback_resumed")

\* Mutant: the pause counts as played time.
ResumedUnshifted(s) ==
    Publish([s EXCEPT !.paused = FALSE,
                      !.hangup_deadline = now - s.played + s.duration + Tail],
            "playback_resumed")

Resumed(s) ==
    Publish([s EXCEPT !.paused = FALSE, !.playback_origin = now - s.played,
                      !.hangup_deadline = now - s.played + s.duration + Tail],
            "playback_resumed")

DuePlayback(s) ==
    IF ~s.playback_started /\ s.media_ready
       /\ s.playback_deadline # 0 /\ now >= s.playback_deadline
    THEN StartPlayback(s)
    ELSE {s}

Unanswered(s) == s.answer_deadline # 0 /\ now >= s.answer_deadline

PlayedOut(s) == ~s.paused /\ s.hangup_deadline # 0 /\ now >= s.hangup_deadline

OverCap(s) == now - s.started_at > MaxCall

\* Mutant: a paused call is left alone.
CheckDeadlinesUnlessPaused(s) ==
    IF s.paused THEN {s}
    ELSE IF PlayedOut(s) THEN Teardown(s, "playback_complete")
    ELSE IF OverCap(s) THEN Teardown(s, "max_duration")
    ELSE {s}

\* Mutant: nothing but its own clip ends an answered call.
CheckDeadlinesUncapped(s) ==
    IF PlayedOut(s) THEN Teardown(s, "playback_complete") ELSE {s}

CheckDeadlines(s) ==
    IF PlayedOut(s) THEN Teardown(s, "playback_complete")
    ELSE IF OverCap(s) THEN Teardown(s, "max_duration")
    ELSE {s}

\* One iteration of _service_timers.  A playback that fails here does not
\* end the iteration: the deadlines of the session are still looked at.
Serviced(s) ==
    IF Unanswered(s) THEN Teardown(s, "answer_timeout")
    ELSE UNION {CheckDeadlines(r) : r \in DuePlayback(s)}

\* The session of c becomes one of those a handler may leave.
Becomes(c, results) == \E s \in results : session' = [session EXCEPT ![c] = s]

(***************************************************************************)
(* Callbacks, made by pjsua2 inside libHandleEvents.  A call is known to   *)
(* pjsua2 until _finish drops it.  Ringing, the answer and the media may   *)
(* still arrive after a hangup was accepted: the 200 crosses the CANCEL.   *)
(***************************************************************************)
OnRegState(a, registered) ==
    /\ pc = "events"
    /\ registration[a] # registered
    /\ registration' = [registration EXCEPT ![a] = registered]
    /\ UNCHANGED <<now, pc, todo, session>>

CallBack(c) ==
    /\ pc = "events"
    /\ c \in InFlight
    /\ UNCHANGED <<now, pc, todo, registration>>

OnEarly(c) ==
    /\ CallBack(c)
    /\ session[c].confirmed_at = 0
    /\ session[c].state # "early"
    /\ Becomes(c, {Publish([session[c] EXCEPT !.state = "early"], "early")})

\* Mutant: playback is due as soon as the call is answered.
OnConfirmedNoLeadIn(c) ==
    /\ CallBack(c)
    /\ session[c].confirmed_at = 0
    /\ Becomes(c, {Publish([session[c] EXCEPT !.state = "confirmed",
                                              !.confirmed_at = now,
                                              !.answer_deadline = 0,
                                              !.playback_deadline = now],
                           "confirmed")})

OnConfirmed(c) ==
    /\ CallBack(c)
    /\ session[c].confirmed_at = 0
    /\ LET s == session[c]
       IN  Becomes(c, {Publish([s EXCEPT !.state = "confirmed",
                                         !.confirmed_at = now,
                                         !.answer_deadline = 0,
                                         !.playback_deadline = now + s.lead_in],
                               "confirmed")})

OnDisconnected(c) ==
    /\ CallBack(c)
    /\ Becomes(c, {Finish(session[c], "disconnected")})

OnMediaActive(c) ==
    /\ CallBack(c)
    /\ ~session[c].media_ready
    /\ Becomes(c, {[session[c] EXCEPT !.media_ready = TRUE]})

\* Mutant: the call is hung up as soon as the end is reported.
OnEofWithoutTail(c) ==
    /\ CallBack(c)
    /\ Transmitting(session[c])
    /\ session[c].heard + EofSlack >= session[c].duration
    /\ Becomes(c, {[session[c] EXCEPT !.hangup_deadline = now]})

\* _on_playback_eof: pjsua2 reports the end while the last of the clip is
\* still in its buffers, at most EofSlack early.
OnEof(c) ==
    /\ CallBack(c)
    /\ Transmitting(session[c])
    /\ session[c].playback_started
    /\ session[c].heard + EofSlack >= session[c].duration
    /\ LET s == session[c]
       IN  Becomes(c, {[s EXCEPT !.hangup_deadline =
                           IF @ = 0 \/ now + Tail < @ THEN now + Tail ELSE @]})

(***************************************************************************)
(* Commands, taken from the queue between two pumps.  One that raises      *)
(* (an unknown call, nothing to pause) changes nothing and is no step.     *)
(***************************************************************************)
Command(name) ==
    /\ pc = "commands"
    /\ name \in Commands
    /\ UNCHANGED <<now, registration>>

PlaceCall(c, target, duration, lead_in) ==
    /\ Command("place_call")
    /\ now <= LastStart
    /\ session[c].state = "unused"
    /\ \E a \in Accounts : registration[a]
    /\ Becomes(c, PlacedCall(target, duration, lead_in))
    /\ UNCHANGED <<pc, todo>>

Hangup(c) ==
    /\ Command("hangup")
    /\ c \in InFlight
    /\ Becomes(c, Teardown(session[c], "requested"))
    /\ UNCHANGED <<pc, todo>>

ReplaceMedia(c, duration) ==
    /\ Command("replace_media")
    /\ c \in InFlight
    /\ Becomes(c, ReplacedMedia(session[c], duration))
    /\ UNCHANGED <<pc, todo>>

SetPaused(c, paused) ==
    /\ Command("set_paused")
    /\ c \in InFlight
    /\ session[c].player /\ session[c].playback_started
    /\ session[c].paused # paused
    /\ Becomes(c, {IF paused THEN Paused(session[c]) ELSE Resumed(session[c])})
    /\ UNCHANGED <<pc, todo>>

\* Mutant: the loop ends at the first call it finds.
HangupTargetFirst(target) ==
    /\ Command("hangup_target")
    /\ \E c \in InFlight : session[c].target = target /\ todo' = {c}
    /\ pc' = "preempting"
    /\ UNCHANGED session

HangupTarget(target) ==
    /\ Command("hangup_target")
    /\ todo' = {c \in InFlight : session[c].target = target}
    /\ todo' # {}
    /\ pc' = "preempting"
    /\ UNCHANGED session

Preempt(c) ==
    /\ pc = "preempting"
    /\ c \in todo
    /\ todo' = todo \ {c}
    /\ pc' = IF todo' = {} THEN "commands" ELSE pc
    /\ Becomes(c, Teardown(session[c], "preempted"))
    /\ UNCHANGED <<now, registration>>

(***************************************************************************)
(* The loop of _run.                                                       *)
(***************************************************************************)
EventsHandled ==
    /\ pc = "events"
    /\ pc' = "commands"
    /\ UNCHANGED <<now, todo, registration, session>>

CommandsDrained ==
    /\ pc = "commands"
    /\ pc' = "timers"
    /\ todo' = InFlight
    /\ UNCHANGED <<now, registration, session>>

ServiceTimers(c) ==
    /\ pc = "timers"
    /\ c \in todo
    /\ todo' = todo \ {c}
    /\ Becomes(c, Serviced(session[c]))
    /\ UNCHANGED <<now, pc, registration>>

\* The time a pump takes is when the players send.
Heard(s) ==
    [s EXCEPT !.heard = IF Transmitting(s) /\ now < MaxTime THEN @ + 1 ELSE @]

Pump ==
    /\ pc = "timers" /\ todo = {}
    /\ pc' = "events"
    /\ now' = IF now < MaxTime THEN now + 1 ELSE now
    /\ session' = [c \in CallIds |-> Heard(session[c])]
    /\ UNCHANGED <<todo, registration>>

\* _stopping is read once per turn of the loop, and _shutdown_endpoint
\* follows.
Stop ==
    /\ pc = "timers" /\ todo = {}
    /\ "stop" \in Commands
    /\ pc' = "shutdown"
    /\ todo' = InFlight
    /\ UNCHANGED <<now, registration, session>>

ShutDownCall(c) ==
    /\ pc = "shutdown"
    /\ c \in todo
    /\ todo' = todo \ {c}
    /\ Becomes(c, Teardown(session[c], "shutdown"))
    /\ UNCHANGED <<now, pc, registration>>

\* libDestroy: a DISCONNECTED that had not arrived by now never will.
Stopped ==
    /\ pc = "shutdown" /\ todo = {}
    /\ pc' = "stopped"
    /\ UNCHANGED <<now, todo, registration, session>>

Init ==
    /\ now = 1
    /\ pc = "events"
    /\ todo = {}
    /\ registration = [a \in Accounts |-> FALSE]
    /\ session = [c \in CallIds |-> UnusedSession]

Next ==
    \/ \E a \in Accounts, registered \in BOOLEAN : OnRegState(a, registered)
    \/ \E c \in CallIds : OnEarly(c)
    \/ \E c \in CallIds : OnConfirmed(c)
    \/ \E c \in CallIds : OnDisconnected(c)
    \/ \E c \in CallIds : OnMediaActive(c)
    \/ \E c \in CallIds : OnEof(c)
    \/ \E c \in CallIds, t \in Targets, d \in Durations, l \in LeadIns :
           PlaceCall(c, t, d, l)
    \/ \E c \in CallIds : Hangup(c)
    \/ \E c \in CallIds, d \in Durations : ReplaceMedia(c, d)
    \/ \E c \in CallIds, paused \in BOOLEAN : SetPaused(c, paused)
    \/ \E t \in Targets : HangupTarget(t)
    \/ \E c \in CallIds : Preempt(c)
    \/ EventsHandled
    \/ CommandsDrained
    \/ \E c \in CallIds : ServiceTimers(c)
    \/ Pump
    \/ Stop
    \/ \E c \in CallIds : ShutDownCall(c)
    \/ Stopped

Spec == Init /\ [][Next]_vars

(***************************************************************************)
(* The thread keeps turning: callbacks cannot keep libHandleEvents busy    *)
(* for ever, nor clients _drain_commands (each command is an HTTP request  *)
(* that waits for its answer, so the queue runs empty again and again,     *)
(* hence the strong fairness).  And a hangup that pjsua2 accepted ends in  *)
(* DISCONNECTED, by the timer of its BYE or CANCEL transaction if not by   *)
(* an answer.  Nothing else is assumed: no far end has to answer, hang up  *)
(* or open its media, and no player has to report its end.                 *)
(***************************************************************************)
LoopProgress ==
    /\ WF_vars(EventsHandled)
    /\ SF_vars(CommandsDrained)
    /\ WF_vars(Pump)
    /\ WF_vars(Stopped)
    /\ \A c \in CallIds : /\ WF_vars(ServiceTimers(c))
                          /\ WF_vars(Preempt(c))
                          /\ WF_vars(ShutDownCall(c))

HangupsComplete ==
    \A c \in CallIds : SF_vars(session[c].call = "hanging" /\ OnDisconnected(c))

FairSpec == Spec /\ LoopProgress /\ HangupsComplete
(***************************************************************************)
(* Properties.                                                             *)
(***************************************************************************)
\* Every variable holds a value of the kind the code gives it.
TypeOK ==
    /\ now \in Nat
    /\ pc \in {"events", "commands", "preempting", "timers", "shutdown",
              "stopped"}
    /\ todo \subseteq CallIds
    /\ registration \in [Accounts -> BOOLEAN]
    /\ session \in [CallIds -> SessionType]

\* max_call_seconds is a hard cap (sip.py:635-646): one turn of the loop
\* after it every call was told to hang up, a paused one, one whose clip was
\* replaced and one that was never answered as well.
HardCap ==
    \A c \in CallIds :
       session[c].call = "active" => now - session[c].started_at <= MaxCall + 1

\* A call nobody answers does not outlive its answer_timeout
\* (sip.py:449, 624-627), however its media is replaced meanwhile.
AnswerCap ==
    \A c \in CallIds :
       session[c].call = "active" /\ session[c].confirmed_at = 0
          => now - session[c].started_at <= AnswerTimeout

\* The duration timer is a backstop for an end of file that is never
\* reported (sip.py:668-669): no player goes on sending for longer than the
\* tail after its clip, through pauses, resumes and replaces.
NoLinger ==
    \A c \in CallIds :
       Transmitting(session[c])
          => session[c].heard <= session[c].duration + Tail

\* The clock arithmetic of pause and resume (sip.py:521-537) counts exactly
\* the time the clip was sent.
ClipAccounting ==
    \A c \in CallIds :
       LET s == session[c]
       IN  s.player => s.heard = IF s.paused THEN s.played
                                 ELSE now - s.playback_origin

\* A call that was placed leaves one history record, with a reason, when it
\* ends, and none before (sip.py:732-741), whatever the order in which
\* hangups, timers and DISCONNECTED meet.
HistoryExplains ==
    \A c \in CallIds :
       LET s == session[c]
       IN  /\ s.filed = IF s.state = "disconnected" THEN 1 ELSE 0
           /\ s.filed = 1 => s.call = "none" /\ s.end_reason # ""
           /\ s.call = "none" => s.state \in {"unused", "new", "disconnected"}

\* A client that follows the events knows whether the clip is heard: the
\* last one says so (sip.py:530, 538, 670, 698, 741).
EventsTellTheTruth ==
    \A c \in CallIds :
       LET s == session[c]
       IN  /\ s.event \in {"playback_started", "playback_resumed"}
                 => Transmitting(s)
           /\ s.event = "playback_paused" => s.player /\ s.paused
           /\ s.player => s.event \notin {"playback_finished", "disconnected"}

\* A clip is never clipped by its own hangup (sip.py:41-43): a call whose
\* reason becomes playback_complete has sent the whole clip now set.
CompleteOnlyWhenHeard ==
    [][\A c \in CallIds :
          /\ session'[c].end_reason = "playback_complete"
          /\ session[c].end_reason # "playback_complete"
          => session[c].heard >= session[c].duration]_vars

\* When hangup_target returns, every call to its target was hung up
\* (sip.py:543-549): the preempting call is not placed beside one that
\* nobody has ended yet.
PreemptClearsTarget ==
    [][pc = "preempting" /\ pc' = "commands" =>
          \A c \in todo, d \in CallIds :
             session[d].target = session[c].target
                => session'[d].call # "active"]_vars

\* Playback starts a lead-in after the answer, never before it
\* (sidecar/tests/integration/test_e2e.py:296, sip.py:592-595).
LeadInHonoured ==
    \A c \in CallIds :
       LET s == session[c]
       IN  s.playback_at # 0 =>
              s.confirmed_at # 0 /\ s.playback_at >= s.confirmed_at + s.lead_in

\* No call wedges its target: each one ends, or the sidecar stops.
EveryCallEnds ==
    \A c \in CallIds : c \in InFlight ~> (c \notin InFlight \/ pc = "stopped")

(***************************************************************************)
(* The promise that this module keeps.                                     *)
(***************************************************************************)
Stage(s) ==
    CASE s.state = "unused" -> "none"
      [] s.state # "unused" /\ s.call = "none" -> "over"
      [] s.call # "none" /\ s.confirmed_at = 0 -> "ringing"
      [] OTHER -> "answered"

Audio(s) ==
    IF ~s.player THEN "silent" ELSE IF s.paused THEN "held" ELSE "sounding"

Page(s) ==
    [stage |-> Stage(s), audio |-> Audio(s), cause |-> s.end_reason]

Pages == [c \in CallIds |-> Page(session[c])]

Promise ==
    INSTANCE CallPromise WITH Causes <- EndReasons \ {""}, page <- Pages

\* Whatever pjsua2, the timers and the clients do, in any order, a page is
\* placed once, ends once, keeps the first cause of its end and is silent
\* when it is over.
KeepsCallPromise == Promise!Spec
=============================================================================
