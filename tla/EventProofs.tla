----------------------------- MODULE EventProofs -----------------------------
(***************************************************************************)
(* What a client can tell from the events of a call, what a preempting     *)
(* client finds when hangup_target returns, and when a clip may start, for *)
(* any number of calls, any clips and any timeouts.                        *)
(*                                                                         *)
(* All three rest on the invariant of SipWorkerProofs: a player is         *)
(* attached to a playback that was started, so whatever drops the player   *)
(* says so; and _teardown leaves no call that was not told to end.         *)
(***************************************************************************)
EXTENDS SipWorkerProofs

\* EventsTellTheTruth, for one session.
Tells(s) ==
    /\ s.event \in {"playback_started", "playback_resumed"} => Transmitting(s)
    /\ s.event = "playback_paused" => s.player /\ s.paused
    /\ s.player => s.event \notin {"playback_finished", "disconnected"}

\* Nothing sounds, and nothing claims to.
Silent(s) ==
    /\ ~s.player
    /\ s.event \notin {"playback_started", "playback_resumed",
                       "playback_paused"}

\* While hangup_target walks its copy of the sessions, every call to its
\* target that nobody told to end is still to be visited.
Hunt ==
    pc = "preempting" =>
       \A c \in todo, d \in CallIds :
          /\ d \in todo => session[d].target = session[c].target
          /\ session[d].target = session[c].target
             /\ session[d].call = "active" => d \in todo

(***************************************************************************)
(* What each handler leaves to be told.                                    *)
(***************************************************************************)
LEMMA SilentTells ==
    ASSUME NEW s, Silent(s)
    PROVE  Tells(s)
BY DEF Silent, Tells

LEMMA QuietWithoutPlayer ==
    ASSUME NEW s, Tells(s), ~s.player
    PROVE  Silent(s)
BY DEF Silent, Tells, Transmitting

\* Who drops the player publishes that the clip is over.
LEMMA StopPlayerSilent ==
    ASSUME NEW s \in SessionType, Tells(s), s.player => s.playback_started
    PROVE  Silent(StopPlayer(s))
<1>1. CASE s.player
  <2>1. StopPlayer(s) = [s EXCEPT !.player = FALSE,
                                  !.event = "playback_finished"]
    BY <1>1 DEF StopPlayer, Publish, SessionType
  <2>. QED  BY <2>1 DEF Silent, SessionType
<1>2. CASE ~s.player
  BY <1>2, QuietWithoutPlayer DEF StopPlayer
<1>. QED  BY <1>1, <1>2

LEMMA HungSilent ==
    ASSUME NEW s, Sound(s), Tells(s), NEW reason \in EndReasons \ {""}
    PROVE  Hung(s, reason) \in SessionType /\ Silent(Hung(s, reason))
<1>. DEFINE why == FirstReason(s, reason)
            r == [s EXCEPT !.end_reason = why]
<1>1. s \in SessionType /\ (s.player => s.playback_started)
  BY DEF Sound, Clip
<1>2. why \in EndReasons
  BY <1>1, FirstReasonType
<1>3. Hung(s, reason) = StopPlayer(r)
  BY DEF Hung
<1>. HIDE DEF why
<1>4. /\ r \in SessionType /\ r.player = s.player /\ r.event = s.event
      /\ r.paused = s.paused /\ r.playback_started = s.playback_started
  BY <1>1, <1>2 DEF SessionType
<1>. HIDE DEF r
<1>5. Tells(r)
  BY <1>4 DEF Tells, Transmitting
<1>6. PICK e \in EventTypes : StopPlayer(r) = [r EXCEPT !.player = FALSE, !.event = e]
  BY <1>4, StopPlayerFields
<1>7. StopPlayer(r) \in SessionType
  BY <1>4, <1>6 DEF SessionType
<1>. QED  BY <1>1, <1>3, <1>4, <1>5, <1>7, StopPlayerSilent

LEMMA FinishSilent ==
    ASSUME NEW s \in SessionType, NEW reason, Silent(s) \/ s.call # "none",
           s.call # "none" => s.filed = 0
    PROVE  Silent(Finish(s, reason))
<1>1. CASE s.call = "none"
  BY <1>1 DEF Finish
<1>2. CASE s.call # "none"
  <2>. DEFINE r == FirstReason(s, reason)
  <2>1. Finish(s, reason) =
          [s EXCEPT !.player = FALSE, !.event = "disconnected",
                    !.state = "disconnected", !.filed = 1,
                    !.end_reason = r, !.call = "none"]
    BY <1>2, FinishFields
  <2>. HIDE DEF r
  <2>. QED  BY <2>1 DEF Silent, SessionType
<1>. QED  BY <1>1, <1>2

\* _teardown leaves silence, whichever way pjsua2 takes the hangup.
LEMMA TeardownSilent ==
    ASSUME NEW s, Sound(s), Tells(s), NEW reason \in EndReasons \ {""},
           NEW t \in Teardown(s, reason)
    PROVE  Silent(t)
<1>. DEFINE h == Hung(s, reason)
<1>1. h \in SessionType /\ Silent(h)
  BY HungSilent
<1>2. t = Finish(h, reason) \/ t = [h EXCEPT !.call = "hanging"]
  BY DEF Teardown
<1>3. h.call = s.call /\ h.filed = s.filed
  <2>1. s \in SessionType
    BY DEF Sound
  <2>. DEFINE r == FirstReason(s, reason)
  <2>2. PICK e \in EventTypes :
           h = [s EXCEPT !.player = FALSE, !.event = e, !.end_reason = r,
                         !.call = s.call]
    BY <2>1, HungFields
  <2>. HIDE DEF r, h
  <2>. QED  BY <2>1, <2>2 DEF SessionType
<1>4. h.call # "none" => h.filed = 0
  BY <1>3 DEF Sound, Life
<1>. HIDE DEF h
<1>5. CASE t = Finish(h, reason)
  BY <1>1, <1>4, <1>5, FinishSilent
<1>6. CASE t = [h EXCEPT !.call = "hanging"]
  BY <1>1, <1>6 DEF Silent, SessionType
<1>. QED  BY <1>2, <1>5, <1>6

\* A clip that starts is told of, and one that fails leaves silence.
LEMMA StartPlaybackTells ==
    ASSUME NEW s, Sound(s), ~s.player, s.call # "none",
           now \in Nat, now >= 1, NEW t \in StartPlayback(s)
    PROVE  Tells(t)
<1>1. CASE t = StartedPlayback(s)
  <2>1. Transmitting(t)
    BY <1>1, StartedPlaybackSound
  <2>2. t.event = "playback_started"
    BY <1>1 DEF StartedPlayback, Publish, Sound, SessionType
  <2>. QED  BY <2>1, <2>2 DEF Tells
<1>2. CASE t \in PlaybackFailed(s)
  <2>. DEFINE p == Publish(s, "disconnected")
  <2>1. Sound(p)
    BY PublishSound DEF EventTypes
  <2>2. Silent(p)
    BY DEF Publish, Silent, Sound, SessionType
  <2>3. t \in Teardown(p, "playback_failed") /\ "playback_failed" \in EndReasons \ {""}
    BY <1>2 DEF PlaybackFailed, EndReasons
  <2>. HIDE DEF p
  <2>. QED  BY <2>1, <2>2, <2>3, SilentTells, TeardownSilent
<1>. QED  BY <1>1, <1>2 DEF StartPlayback

LEMMA ReplacedMediaTells ==
    ASSUME NEW s, Sound(s), Tells(s), s.call # "none", NEW d \in Nat,
           now \in Nat, now >= 1, NEW t \in ReplacedMedia(s, d)
    PROVE  Tells(t)
<1>. DEFINE r == WithNewClip(s, d)
            p == StopPlayer(s)
<1>1. Sound(r) /\ SameCall(s, r) /\ ~r.player
  BY WithNewClipSound
<1>2. Silent(r)
  <2>1. s \in SessionType /\ (s.player => s.playback_started)
    BY DEF Sound, Clip
  <2>2. Silent(p)
    BY <2>1, StopPlayerSilent
  <2>3. PICK e \in EventTypes : p = [s EXCEPT !.player = FALSE, !.event = e]
    BY <2>1, StopPlayerFields
  <2>4. p \in SessionType
    BY <2>1, <2>3 DEF SessionType
  <2>5. r = [p EXCEPT !.duration = d, !.playback_started = FALSE,
                      !.played = 0, !.paused = FALSE, !.hangup_deadline = 0,
                      !.heard = 0]
    BY DEF WithNewClip
  <2>. HIDE DEF p, r
  <2>6. r.player = p.player /\ r.event = p.event
    BY <2>4, <2>5 DEF SessionType
  <2>. QED  BY <2>2, <2>6 DEF Silent
<1>3. \/ t \in StartPlayback(r)
      \/ t = [r EXCEPT !.playback_deadline =
                 IF r.playback_deadline = 0 THEN now + s.lead_in
                 ELSE r.playback_deadline]
  BY DEF ReplacedMedia
<1>. HIDE DEF r
<1>4. CASE t \in StartPlayback(r)
  <2>1. r.call # "none"
    BY <1>1 DEF SameCall
  <2>. QED  BY <1>1, <1>4, <2>1, StartPlaybackTells
<1>5. CASE t = [r EXCEPT !.playback_deadline =
                   IF r.playback_deadline = 0 THEN now + s.lead_in
                   ELSE r.playback_deadline]
  <2>1. t.player = r.player /\ t.event = r.event
    BY <1>1, <1>5 DEF Sound, SessionType
  <2>. QED  BY <1>2, <2>1, SilentTells DEF Silent
<1>. QED  BY <1>3, <1>4, <1>5

LEMMA PausedTells ==
    ASSUME NEW s \in SessionType, s.player
    PROVE  Tells(Paused(s)) /\ Tells(Resumed(s))
<1>1. /\ Paused(s).player /\ Paused(s).paused
      /\ Paused(s).event = "playback_paused"
  BY DEF Paused, Publish, SessionType
<1>2. /\ Resumed(s).player /\ ~Resumed(s).paused
      /\ Resumed(s).event = "playback_resumed"
  BY DEF Resumed, Publish, SessionType
<1>. QED  BY <1>1, <1>2 DEF Tells, Transmitting

LEMMA ServicedTells ==
    ASSUME NEW s, Good(s), Tells(s), s.call # "none", now \in Nat, now >= 1,
           NEW t \in Serviced(s)
    PROVE  Tells(t)
<1>1. {"answer_timeout", "playback_complete", "max_duration"}
         \subseteq EndReasons \ {""}
  BY DEF EndReasons
<1>2. CASE Unanswered(s)
  <2>1. t \in Teardown(s, "answer_timeout")
    BY <1>2 DEF Serviced
  <2>. QED  BY <1>1, <2>1, TeardownSilent, SilentTells DEF Good
<1>3. CASE ~Unanswered(s)
  <2>1. PICK r \in DuePlayback(s) : t \in CheckDeadlines(r)
    BY <1>3 DEF Serviced
  <2>2. Sound(r) /\ Tells(r)
    <3>1. CASE r = s
      BY <3>1 DEF Good
    <3>2. CASE r # s
      <4>1. r \in StartPlayback(s) /\ ~s.playback_started
        BY <2>1, <3>2 DEF DuePlayback
      <4>2. ~s.player
        BY <4>1 DEF Good, Sound, Clip
      <4>. QED  BY <4>1, <4>2, StartPlaybackSound, StartPlaybackTells DEF Good
    <3>. QED  BY <3>1, <3>2
  <2>3. \/ t = r
        \/ \E reason \in {"playback_complete", "max_duration"} :
              t \in Teardown(r, reason)
    BY <2>1 DEF CheckDeadlines
  <2>. QED  BY <1>1, <2>2, <2>3, TeardownSilent, SilentTells
<1>. QED  BY <1>2, <1>3

LEMMA PlacedTells ==
    ASSUME NEW target, NEW d, NEW l, NEW t \in PlacedCall(target, d, l)
    PROVE  Tells(t)
<1>. DEFINE deadline == now + AnswerTimeout
            r == [UnusedSession EXCEPT !.target = target, !.duration = d,
                                       !.lead_in = l, !.state = "new",
                                       !.started_at = now,
                                       !.answer_deadline = deadline]
<1>1. \/ t = [r EXCEPT !.call = "active", !.event = "calling"]
      \/ t = [r EXCEPT !.call = "none", !.event = "disconnected"]
  BY DEF PlacedCall, Publish
<1>. HIDE DEF deadline
<1>2. ~t.player /\ t.event \in {"calling", "disconnected"}
  <2>1. CASE t = [r EXCEPT !.call = "active", !.event = "calling"]
    BY <2>1 DEF UnusedSession
  <2>2. CASE t = [r EXCEPT !.call = "none", !.event = "disconnected"]
    BY <2>2 DEF UnusedSession
  <2>. QED  BY <1>1, <2>1, <2>2
<1>3. Silent(t)
  BY <1>2 DEF Silent
<1>. QED  BY <1>3, SilentTells

(***************************************************************************)
(* Steps.                                                                  *)
(***************************************************************************)
AllTell == \A c \in CallIds : Tells(session[c])

LEMMA BecomesTells ==
    ASSUME IInv, AllTell, NEW c \in CallIds, NEW results,
           Becomes(c, results), \A t \in results : Tells(t)
    PROVE  AllTell'
<1>1. PICK t \in results : session' = [session EXCEPT ![c] = t]
  BY DEF Becomes
<1>2. session \in [CallIds -> SessionType] /\ Tells(t)
  BY <1>1 DEF IInv
<1>3. \A d \in CallIds : session'[d] = IF d = c THEN t ELSE session[d]
  BY <1>1, <1>2
<1>4. \A d \in CallIds : Tells(session'[d])
  BY <1>2, <1>3 DEF AllTell
<1>. QED  BY <1>4 DEF AllTell, Tells, Transmitting

\* A callback tells what it does not change, or that the call is over.
LEMMA CallBacksTell ==
    ASSUME IInv, AllTell, NEW c \in CallIds,
           \/ OnEarly(c) \/ OnConfirmed(c) \/ OnDisconnected(c)
           \/ OnMediaActive(c) \/ OnEof(c)
    PROVE  AllTell'
<1>. DEFINE s == session[c]
<1>1. Good(s) /\ Tells(s) /\ s.call # "none"
  BY DEF CallBack, InFlight, OnEarly, OnConfirmed, OnDisconnected,
         OnMediaActive, OnEof, IInv, AllTell
<1>2. s \in SessionType
  BY <1>1 DEF Good, Sound
<1>3. CASE OnEarly(c)
  <2>. DEFINE t == Publish([s EXCEPT !.state = "early"], "early")
  <2>1. Becomes(c, {t})
    BY <1>3 DEF OnEarly
  <2>2. t.event = "early"
    BY <1>2 DEF Publish, SessionType
  <2>3. Tells(t)
    BY <2>2 DEF Tells
  <2>. HIDE DEF t
  <2>. QED  BY <2>1, <2>3, BecomesTells
<1>4. CASE OnConfirmed(c)
  <2>. DEFINE t == Publish([s EXCEPT !.state = "confirmed",
                                     !.confirmed_at = now,
                                     !.answer_deadline = 0,
                                     !.playback_deadline = now + s.lead_in],
                           "confirmed")
  <2>1. Becomes(c, {t})
    BY <1>4 DEF OnConfirmed
  <2>2. t.event = "confirmed"
    BY <1>2 DEF Publish, SessionType
  <2>3. Tells(t)
    BY <2>2 DEF Tells
  <2>. HIDE DEF t
  <2>. QED  BY <2>1, <2>3, BecomesTells
<1>5. CASE OnDisconnected(c)
  <2>1. Becomes(c, {Finish(s, "disconnected")})
    BY <1>5 DEF OnDisconnected
  <2>2. Silent(Finish(s, "disconnected"))
    BY <1>1, <1>2, FinishSilent DEF Good, Sound, Life
  <2>. QED  BY <2>1, <2>2, SilentTells, BecomesTells
<1>6. CASE OnMediaActive(c)
  <2>. DEFINE t == [s EXCEPT !.media_ready = TRUE]
  <2>1. Becomes(c, {t})
    BY <1>6 DEF OnMediaActive
  <2>2. t.player = s.player /\ t.paused = s.paused /\ t.event = s.event
    BY <1>2 DEF SessionType
  <2>. HIDE DEF t
  <2>3. Tells(t)
    BY <1>1, <2>2 DEF Tells, Transmitting
  <2>. QED  BY <2>1, <2>3, BecomesTells
<1>7. CASE OnEof(c)
  <2>. DEFINE hd == IF s.hangup_deadline = 0 \/ now + Tail < s.hangup_deadline
                    THEN now + Tail ELSE s.hangup_deadline
              t == [s EXCEPT !.hangup_deadline = hd]
  <2>1. Becomes(c, {t})
    BY <1>7 DEF OnEof
  <2>. HIDE DEF hd
  <2>2. t.player = s.player /\ t.paused = s.paused /\ t.event = s.event
    BY <1>2 DEF SessionType
  <2>. HIDE DEF t
  <2>3. Tells(t)
    BY <1>1, <2>2 DEF Tells, Transmitting
  <2>. QED  BY <2>1, <2>3, BecomesTells
<1>. QED  BY <1>3, <1>4, <1>5, <1>6, <1>7

LEMMA CommandsTell ==
    ASSUME IInv, AllTell, NEW c \in CallIds,
           \/ \E t \in Targets, d \in Durations, l \in LeadIns : PlaceCall(c, t, d, l)
           \/ Hangup(c)
           \/ \E d \in Durations : ReplaceMedia(c, d)
           \/ \E paused \in BOOLEAN : SetPaused(c, paused)
    PROVE  AllTell'
<1>. DEFINE s == session[c]
<1>1. Good(s) /\ Tells(s) /\ Sound(s) /\ s \in SessionType
      /\ now \in Nat /\ now >= 1
  BY DEF IInv, AllTell, Good, Sound
<1>2. ASSUME NEW t \in Targets, NEW d \in Durations, NEW l \in LeadIns,
             PlaceCall(c, t, d, l)
      PROVE  AllTell'
  <2>1. Becomes(c, PlacedCall(t, d, l))
    BY <1>2 DEF PlaceCall
  <2>2. \A u \in PlacedCall(t, d, l) : Tells(u)
    BY PlacedTells
  <2>. QED  BY <2>1, <2>2, BecomesTells
<1>3. CASE Hangup(c)
  <2>1. Becomes(c, Teardown(s, "requested")) /\ "requested" \in EndReasons \ {""}
    BY <1>3 DEF Hangup, EndReasons
  <2>2. \A t \in Teardown(s, "requested") : Tells(t)
    BY <1>1, <2>1, TeardownSilent, SilentTells
  <2>. QED  BY <2>1, <2>2, BecomesTells
<1>4. ASSUME NEW d \in Durations, ReplaceMedia(c, d)
      PROVE  AllTell'
  <2>1. s.call # "none" /\ d \in Nat /\ Becomes(c, ReplacedMedia(s, d))
    BY <1>4, ConstantsAssumption DEF ReplaceMedia, InFlight
  <2>2. \A t \in ReplacedMedia(s, d) : Tells(t)
    BY <1>1, <2>1, ReplacedMediaTells
  <2>. QED  BY <2>1, <2>2, BecomesTells
<1>5. ASSUME NEW paused \in BOOLEAN, SetPaused(c, paused)
      PROVE  AllTell'
  <2>. DEFINE t == IF paused THEN Paused(s) ELSE Resumed(s)
  <2>1. s.player /\ Becomes(c, {t})
    BY <1>5 DEF SetPaused
  <2>2. Tells(t)
    BY <1>1, <2>1, PausedTells
  <2>. HIDE DEF t
  <2>. QED  BY <2>1, <2>2, BecomesTells
<1>. QED  BY <1>2, <1>3, <1>4, <1>5

LEMMA VisitsTell ==
    ASSUME IInv, AllTell, NEW c \in CallIds,
           Preempt(c) \/ ShutDownCall(c) \/ ServiceTimers(c)
    PROVE  AllTell'
<1>. DEFINE s == session[c]
<1>1. Good(s) /\ Sound(s) /\ Tells(s) /\ now \in Nat /\ now >= 1
  BY DEF IInv, AllTell, Good
<1>2. CASE ServiceTimers(c)
  <2>1. s.call # "none" /\ Becomes(c, Serviced(s))
    BY <1>2 DEF ServiceTimers, IInv
  <2>2. \A t \in Serviced(s) : Tells(t)
    BY <1>1, <2>1, ServicedTells
  <2>. QED  BY <2>1, <2>2, BecomesTells
<1>3. CASE Preempt(c) \/ ShutDownCall(c)
  <2>1. PICK reason \in {"preempted", "shutdown"} : Becomes(c, Teardown(s, reason))
    BY <1>3 DEF Preempt, ShutDownCall
  <2>2. reason \in EndReasons \ {""}
    BY DEF EndReasons
  <2>3. \A t \in Teardown(s, reason) : Tells(t)
    BY <1>1, <2>2, TeardownSilent, SilentTells
  <2>. QED  BY <2>1, <2>3, BecomesTells
<1>. QED  BY <1>2, <1>3

LEMMA ElsewhereTells ==
    ASSUME IInv, AllTell, UNCHANGED session \/ Pump
    PROVE  AllTell'
<1>1. CASE UNCHANGED session
  BY <1>1 DEF AllTell, Tells, Transmitting
<1>2. CASE Pump
  <2>1. ASSUME NEW c \in CallIds
        PROVE  Tells(session'[c])
    <3>1. session[c] \in SessionType /\ Tells(session[c])
      BY DEF IInv, AllTell
    <3>2. PICK h : Heard(session[c]) = [session[c] EXCEPT !.heard = h]
      BY DEF Heard
    <3>3. session'[c] = Heard(session[c])
      BY <1>2 DEF Pump
    <3>. QED  BY <3>1, <3>2, <3>3 DEF Tells, Transmitting, SessionType
  <2>. QED  BY <2>1 DEF AllTell, Tells, Transmitting
<1>. QED  BY <1>1, <1>2

LEMMA NextTells ==
    ASSUME IInv, AllTell, [Next]_vars
    PROVE  AllTell'
<1>1. CASE \E c \in CallIds : \/ OnEarly(c) \/ OnConfirmed(c) \/ OnDisconnected(c)
                             \/ OnMediaActive(c) \/ OnEof(c)
  BY <1>1, CallBacksTell
<1>2. CASE \E c \in CallIds :
              \/ \E t \in Targets, d \in Durations, l \in LeadIns : PlaceCall(c, t, d, l)
              \/ Hangup(c)
              \/ \E d \in Durations : ReplaceMedia(c, d)
              \/ \E paused \in BOOLEAN : SetPaused(c, paused)
  BY <1>2, CommandsTell
<1>3. CASE \E c \in CallIds : Preempt(c) \/ ShutDownCall(c) \/ ServiceTimers(c)
  BY <1>3, VisitsTell
<1>4. CASE Pump
  BY <1>4, ElsewhereTells
<1>5. CASE \/ EventsHandled \/ CommandsDrained \/ Stop \/ Stopped
           \/ \E a \in Accounts, registered \in BOOLEAN : OnRegState(a, registered)
           \/ \E t \in Targets : HangupTarget(t)
           \/ UNCHANGED vars
  <2>1. UNCHANGED session
    BY <1>5 DEF EventsHandled, CommandsDrained, Stop, Stopped, OnRegState,
                HangupTarget, vars
  <2>. QED  BY <2>1, ElsewhereTells
<1>. QED  BY <1>1, <1>2, <1>3, <1>4, <1>5 DEF Next

(***************************************************************************)
(* hangup_target.                                                          *)
(***************************************************************************)

\* One visit leaves its call told to end, and every other as it was.
LEMMA PreemptVisits ==
    ASSUME IInv, NEW c \in CallIds, Preempt(c)
    PROVE  /\ session'[c].call # "active"
           /\ \A d \in CallIds \ {c} : session'[d] = session[d]
<1>1. Sound(session[c]) /\ session \in [CallIds -> SessionType]
  BY DEF IInv, Good
<1>2. PICK t \in Teardown(session[c], "preempted") :
         session' = [session EXCEPT ![c] = t]
  BY DEF Preempt, Becomes
<1>3. "preempted" \in EndReasons \ {""}
  BY DEF EndReasons
<1>4. t.call # "active"
  BY <1>1, <1>3, TeardownSound
<1>. QED  BY <1>1, <1>2, <1>4

\* Nothing else runs between two visits.
LEMMA OnlyVisitsWhilePreempting ==
    ASSUME pc = "preempting", [Next]_vars
    PROVE  (\E c \in CallIds : Preempt(c)) \/ UNCHANGED vars
BY DEF Next, OnRegState, OnEarly, OnConfirmed, OnDisconnected, OnMediaActive,
       OnEof, CallBack, PlaceCall, Hangup, ReplaceMedia, SetPaused,
       HangupTarget, Command, EventsHandled, CommandsDrained, ServiceTimers,
       Pump, Stop, ShutDownCall, Stopped

LEMMA NextHunt ==
    ASSUME IInv, Hunt, [Next]_vars
    PROVE  Hunt'
<1>1. CASE pc = "preempting"
  <2>1. ASSUME NEW c \in CallIds, Preempt(c)
        PROVE  Hunt'
    <3>1. todo' = todo \ {c}
      BY <2>1 DEF Preempt
    <3>2. /\ session'[c].call # "active"
          /\ \A d \in CallIds \ {c} : session'[d] = session[d]
      BY <2>1, PreemptVisits
    <3>. QED  BY <1>1, <3>1, <3>2 DEF Hunt, IInv
  <2>2. CASE UNCHANGED vars
    BY <2>2 DEF vars, Hunt
  <2>. QED  BY <1>1, <2>1, <2>2, OnlyVisitsWhilePreempting
<1>2. CASE pc # "preempting"
  <2>1. ASSUME NEW target \in Targets, HangupTarget(target)
        PROVE  Hunt'
    <3>1. /\ todo' = {c \in InFlight : session[c].target = target}
          /\ session' = session
      BY <2>1 DEF HangupTarget
    <3>. QED  BY <3>1 DEF Hunt, InFlight
  <2>2. CASE pc' # "preempting"
    BY <2>2 DEF Hunt
  <2>3. pc' = "preempting" => \E t \in Targets : HangupTarget(t)
    BY <1>2 DEF Next, OnRegState, OnEarly, OnConfirmed, OnDisconnected,
           OnMediaActive, OnEof, CallBack, PlaceCall, Hangup, ReplaceMedia,
           SetPaused, Command, EventsHandled, CommandsDrained, ServiceTimers,
           Preempt, Pump, Stop, ShutDownCall, Stopped, vars
  <2>. QED  BY <2>1, <2>2, <2>3
<1>. QED  BY <1>1, <1>2

\* What PreemptClearsTarget says of one step.
Cleared ==
    pc = "preempting" /\ pc' = "commands" =>
       \A c \in todo, d \in CallIds :
          session[d].target = session[c].target
             => session'[d].call # "active"

LEMMA NextCleared ==
    ASSUME IInv, Hunt, [Next]_vars
    PROVE  Cleared
<1>. SUFFICES ASSUME pc = "preempting", pc' = "commands"
              PROVE  Cleared
  BY DEF Cleared
<1>1. PICK c \in CallIds : Preempt(c)
  BY OnlyVisitsWhilePreempting DEF vars
<1>2. todo = {c}
  BY <1>1 DEF Preempt
<1>3. /\ session'[c].call # "active"
      /\ \A d \in CallIds \ {c} : session'[d] = session[d]
  BY <1>1, PreemptVisits
<1>. QED  BY <1>2, <1>3 DEF Hunt, Cleared

(***************************************************************************)
(* The lead-in.                                                            *)
(***************************************************************************)

\* LeadInHonoured, and the deadline it rests on, for one session.
Leads(s) ==
    /\ s.playback_deadline # 0 =>
          s.confirmed_at # 0 /\ s.playback_deadline >= s.confirmed_at + s.lead_in
    /\ s.playback_at # 0 =>
          s.confirmed_at # 0 /\ s.playback_at >= s.confirmed_at + s.lead_in

SameTimes(s, t) ==
    /\ t.playback_deadline = s.playback_deadline
    /\ t.confirmed_at = s.confirmed_at
    /\ t.lead_in = s.lead_in /\ t.playback_at = s.playback_at

LEMMA SameTimesLead ==
    ASSUME NEW s, NEW t, SameTimes(s, t), Leads(s)
    PROVE  Leads(t)
BY DEF SameTimes, Leads

\* Ending a call changes none of these times.
LEMMA TeardownTimes ==
    ASSUME NEW s, Sound(s), NEW reason \in EndReasons \ {""},
           NEW t \in Teardown(s, reason)
    PROVE  SameTimes(s, t)
<1>. DEFINE h == Hung(s, reason)
            r == FirstReason(s, reason)
            q == FirstReason(h, reason)
<1>1. s \in SessionType /\ r \in EndReasons
  BY FirstReasonType DEF Sound
<1>2. PICK e \in EventTypes :
         h = [s EXCEPT !.player = FALSE, !.event = e, !.end_reason = r,
                       !.call = s.call]
  BY <1>1, HungFields
<1>3. t = Finish(h, reason) \/ t = [h EXCEPT !.call = "hanging"]
  BY DEF Teardown
<1>4. h \in SessionType
  <2>. HIDE DEF h, r
  <2>1. s.call \in {"none", "active", "hanging"}
    BY <1>1 DEF SessionType
  <2>. QED  BY <1>1, <1>2, <2>1, HungType
<1>5. h.call # "none" => t = [h EXCEPT !.call = "hanging"]
         \/ t = [h EXCEPT !.player = FALSE, !.event = "disconnected",
                          !.state = "disconnected", !.filed = 1,
                          !.end_reason = q, !.call = "none"]
  <2>. HIDE DEF r
  <2>1. h.call = s.call /\ h.filed = s.filed
    BY <1>1, <1>2 DEF SessionType
  <2>2. h.call # "none" => h.filed = 0
    BY <2>1 DEF Sound, Life
  <2>. QED  BY <1>3, <1>4, <2>2, FinishFields
<1>6. h.call = "none" => t = h \/ t = [h EXCEPT !.call = "hanging"]
  BY <1>3 DEF Finish
<1>. HIDE DEF r, q
<1>7. SameTimes(s, h)
  <2>. HIDE DEF h
  <2>. QED  BY <1>1, <1>2 DEF SameTimes, SessionType
<1>. HIDE DEF h
<1>8. SameTimes(h, t)
  <2>1. CASE t = h
    BY <2>1 DEF SameTimes
  <2>2. CASE t = [h EXCEPT !.call = "hanging"]
    BY <1>4, <2>2 DEF SameTimes, SessionType
  <2>3. CASE t = [h EXCEPT !.player = FALSE, !.event = "disconnected",
                           !.state = "disconnected", !.filed = 1,
                           !.end_reason = q, !.call = "none"]
    BY <1>4, <2>3 DEF SameTimes, SessionType
  <2>. QED  BY <1>5, <1>6, <2>1, <2>2, <2>3
<1>. QED  BY <1>7, <1>8 DEF SameTimes

\* A clip that is due starts no sooner than its lead-in allows.
LEMMA DuePlaybackLeads ==
    ASSUME NEW s, Sound(s), Leads(s), s.call # "none", now \in Nat, now >= 1,
           NEW t \in DuePlayback(s)
    PROVE  Leads(t) /\ Sound(t)
<1>1. CASE t = s
  BY <1>1
<1>2. CASE t # s
  <2>1. /\ t \in StartPlayback(s)
        /\ s.playback_deadline # 0 /\ now >= s.playback_deadline
    BY <1>2 DEF DuePlayback
  <2>2. Sound(t)
    BY <2>1, StartPlaybackSound
  <2>3. CASE t = StartedPlayback(s)
    <3>. DEFINE at == IF s.playback_at = 0 THEN now ELSE s.playback_at
                hd == now + s.duration + Tail
    <3>1. /\ s.playback_deadline \in Nat /\ s.confirmed_at \in Nat
          /\ s.lead_in \in Nat /\ s.playback_at \in Nat
      BY DEF Sound, SessionType
    <3>2. /\ s.confirmed_at # 0 /\ now >= s.confirmed_at + s.lead_in
      BY <2>1, <3>1 DEF Leads
    <3>3. at >= s.confirmed_at + s.lead_in
      BY <3>2 DEF Leads
    <3>4. t = [s EXCEPT !.player = TRUE, !.playback_started = TRUE,
                        !.playback_origin = now, !.played = 0,
                        !.paused = FALSE, !.playback_at = at,
                        !.state = "playback_started", !.heard = 0,
                        !.hangup_deadline = hd, !.event = "playback_started"]
      BY <2>3 DEF StartedPlayback, Publish, Sound, SessionType
    <3>. HIDE DEF at, hd
    <3>5. /\ t.playback_at = at /\ t.confirmed_at = s.confirmed_at
          /\ t.lead_in = s.lead_in
          /\ t.playback_deadline = s.playback_deadline
      BY <3>4 DEF Sound, SessionType
    <3>. QED  BY <2>2, <3>2, <3>3, <3>5 DEF Leads
  <2>4. CASE t \in PlaybackFailed(s)
    <3>. DEFINE p == Publish(s, "disconnected")
    <3>1. Sound(p) /\ "playback_failed" \in EndReasons \ {""}
      BY PublishSound DEF EventTypes, EndReasons
    <3>2. SameTimes(s, p)
      BY DEF Publish, SameTimes, Sound, SessionType
    <3>3. t \in Teardown(p, "playback_failed")
      BY <2>4 DEF PlaybackFailed
    <3>. HIDE DEF p
    <3>4. SameTimes(p, t)
      BY <3>1, <3>3, TeardownTimes
    <3>. QED  BY <2>2, <3>2, <3>4, SameTimesLead
  <2>. QED  BY <2>1, <2>3, <2>4 DEF StartPlayback
<1>. QED  BY <1>1, <1>2

LEMMA ServicedLeads ==
    ASSUME NEW s, Sound(s), Leads(s), s.call # "none", now \in Nat, now >= 1,
           NEW t \in Serviced(s)
    PROVE  Leads(t)
<1>1. {"answer_timeout", "playback_complete", "max_duration"}
         \subseteq EndReasons \ {""}
  BY DEF EndReasons
<1>2. CASE Unanswered(s)
  <2>1. t \in Teardown(s, "answer_timeout")
    BY <1>2 DEF Serviced
  <2>. QED  BY <1>1, <2>1, TeardownTimes, SameTimesLead
<1>3. CASE ~Unanswered(s)
  <2>1. PICK r \in DuePlayback(s) : t \in CheckDeadlines(r)
    BY <1>3 DEF Serviced
  <2>2. Sound(r) /\ Leads(r)
    BY <2>1, DuePlaybackLeads
  <2>3. \/ t = r
        \/ \E reason \in {"playback_complete", "max_duration"} :
              t \in Teardown(r, reason)
    BY <2>1 DEF CheckDeadlines
  <2>. QED  BY <1>1, <2>2, <2>3, TeardownTimes, SameTimesLead
<1>. QED  BY <1>2, <1>3

LEMMA PlacedLeads ==
    ASSUME NEW target, NEW d, NEW l, NEW t \in PlacedCall(target, d, l)
    PROVE  Leads(t)
<1>. DEFINE deadline == now + AnswerTimeout
            r == [UnusedSession EXCEPT !.target = target, !.duration = d,
                                       !.lead_in = l, !.state = "new",
                                       !.started_at = now,
                                       !.answer_deadline = deadline]
<1>1. \/ t = [r EXCEPT !.call = "active", !.event = "calling"]
      \/ t = [r EXCEPT !.call = "none", !.event = "disconnected"]
  BY DEF PlacedCall, Publish
<1>. HIDE DEF deadline
<1>2. t.playback_deadline = 0 /\ t.playback_at = 0
  <2>1. CASE t = [r EXCEPT !.call = "active", !.event = "calling"]
    BY <2>1 DEF UnusedSession
  <2>2. CASE t = [r EXCEPT !.call = "none", !.event = "disconnected"]
    BY <2>2 DEF UnusedSession
  <2>. QED  BY <1>1, <2>1, <2>2
<1>. QED  BY <1>2 DEF Leads

AllLead == \A c \in CallIds : Leads(session[c])

LEMMA BecomesLeads ==
    ASSUME IInv, AllLead, NEW c \in CallIds, NEW results,
           Becomes(c, results), \A t \in results : Leads(t)
    PROVE  AllLead'
<1>1. PICK t \in results : session' = [session EXCEPT ![c] = t]
  BY DEF Becomes
<1>2. session \in [CallIds -> SessionType] /\ Leads(t)
  BY <1>1 DEF IInv
<1>3. \A d \in CallIds : session'[d] = IF d = c THEN t ELSE session[d]
  BY <1>1, <1>2
<1>4. \A d \in CallIds : Leads(session'[d])
  BY <1>2, <1>3 DEF AllLead
<1>. QED  BY <1>4 DEF AllLead, Leads

\* The answer arms the deadline of the lead-in; no other callback touches it.
LEMMA CallBacksLead ==
    ASSUME IInv, AllLead, NEW c \in CallIds,
           \/ OnEarly(c) \/ OnConfirmed(c) \/ OnDisconnected(c)
           \/ OnMediaActive(c) \/ OnEof(c)
    PROVE  AllLead'
<1>. DEFINE s == session[c]
<1>1. /\ Sound(s) /\ Leads(s) /\ s.call # "none"
      /\ now \in Nat /\ now >= 1 /\ s \in SessionType
  BY DEF CallBack, InFlight, OnEarly, OnConfirmed, OnDisconnected,
         OnMediaActive, OnEof, IInv, AllLead, Good
<1>2. CASE OnConfirmed(c)
  <2>. DEFINE deadline == now + s.lead_in
              t == Publish([s EXCEPT !.state = "confirmed",
                                     !.confirmed_at = now,
                                     !.answer_deadline = 0,
                                     !.playback_deadline = deadline],
                           "confirmed")
  <2>1. Becomes(c, {t}) /\ s.confirmed_at = 0
    BY <1>2 DEF OnConfirmed
  <2>2. s.playback_at = 0
    BY <1>1, <2>1 DEF Leads
  <2>. HIDE DEF deadline
  <2>3. /\ t.confirmed_at = now /\ t.lead_in = s.lead_in
        /\ t.playback_deadline = deadline /\ t.playback_at = 0
    BY <1>1, <2>2 DEF Publish, SessionType
  <2>. HIDE DEF t
  <2>4. s.lead_in \in Nat
    BY <1>1 DEF SessionType
  <2>5. Leads(t)
    BY <1>1, <2>3, <2>4 DEF Leads, deadline
  <2>. QED  BY <2>1, <2>5, BecomesLeads
<1>3. CASE OnDisconnected(c)
  <2>. DEFINE r == FirstReason(s, "disconnected")
              t == Finish(s, "disconnected")
  <2>1. Becomes(c, {t})
    BY <1>3 DEF OnDisconnected
  <2>2. s.filed = 0
    BY <1>1 DEF Sound, Life
  <2>3. t = [s EXCEPT !.player = FALSE, !.event = "disconnected",
                      !.state = "disconnected", !.filed = 1,
                      !.end_reason = r, !.call = "none"]
    BY <1>1, <2>2, FinishFields
  <2>. HIDE DEF r, t
  <2>4. SameTimes(s, t)
    BY <1>1, <2>3 DEF SameTimes, SessionType
  <2>. QED  BY <1>1, <2>1, <2>4, SameTimesLead, BecomesLeads
<1>4. CASE OnEarly(c)
  <2>. DEFINE t == Publish([s EXCEPT !.state = "early"], "early")
  <2>1. Becomes(c, {t})
    BY <1>4 DEF OnEarly
  <2>2. SameTimes(s, t)
    BY <1>1 DEF SameTimes, Publish, SessionType
  <2>. HIDE DEF t
  <2>. QED  BY <1>1, <2>1, <2>2, SameTimesLead, BecomesLeads
<1>5. CASE OnMediaActive(c)
  <2>. DEFINE t == [s EXCEPT !.media_ready = TRUE]
  <2>1. Becomes(c, {t})
    BY <1>5 DEF OnMediaActive
  <2>2. SameTimes(s, t)
    BY <1>1 DEF SameTimes, SessionType
  <2>. HIDE DEF t
  <2>. QED  BY <1>1, <2>1, <2>2, SameTimesLead, BecomesLeads
<1>6. CASE OnEof(c)
  <2>. DEFINE hd == IF s.hangup_deadline = 0 \/ now + Tail < s.hangup_deadline
                    THEN now + Tail ELSE s.hangup_deadline
              t == [s EXCEPT !.hangup_deadline = hd]
  <2>1. Becomes(c, {t})
    BY <1>6 DEF OnEof
  <2>. HIDE DEF hd
  <2>2. SameTimes(s, t)
    BY <1>1 DEF SameTimes, SessionType
  <2>. HIDE DEF t
  <2>. QED  BY <1>1, <2>1, <2>2, SameTimesLead, BecomesLeads
<1>. QED  BY <1>2, <1>3, <1>4, <1>5, <1>6

\* No command but replace_media starts a clip.
LEMMA CommandsLead ==
    ASSUME IInv, AllLead, NEW c \in CallIds,
           \/ \E t \in Targets, d \in Durations, l \in LeadIns : PlaceCall(c, t, d, l)
           \/ Hangup(c)
           \/ \E paused \in BOOLEAN : SetPaused(c, paused)
           \/ Preempt(c) \/ ShutDownCall(c)
    PROVE  AllLead'
<1>. DEFINE s == session[c]
<1>1. Leads(s) /\ Sound(s) /\ s \in SessionType
  BY DEF IInv, AllLead, Good, Sound
<1>2. ASSUME NEW t \in Targets, NEW d \in Durations, NEW l \in LeadIns,
             PlaceCall(c, t, d, l)
      PROVE  AllLead'
  <2>1. Becomes(c, PlacedCall(t, d, l))
    BY <1>2 DEF PlaceCall
  <2>2. \A u \in PlacedCall(t, d, l) : Leads(u)
    BY PlacedLeads
  <2>. QED  BY <2>1, <2>2, BecomesLeads
<1>3. CASE Hangup(c) \/ Preempt(c) \/ ShutDownCall(c)
  <2>1. PICK reason \in {"requested", "preempted", "shutdown"} :
           Becomes(c, Teardown(s, reason))
    BY <1>3 DEF Hangup, Preempt, ShutDownCall
  <2>2. reason \in EndReasons \ {""}
    BY DEF EndReasons
  <2>3. \A t \in Teardown(s, reason) : Leads(t)
    BY <1>1, <2>2, TeardownTimes, SameTimesLead
  <2>. QED  BY <2>1, <2>3, BecomesLeads
<1>4. ASSUME NEW paused \in BOOLEAN, SetPaused(c, paused)
      PROVE  AllLead'
  <2>. DEFINE t == IF paused THEN Paused(s) ELSE Resumed(s)
  <2>1. Becomes(c, {t})
    BY <1>4 DEF SetPaused
  <2>2. SameTimes(s, t)
    <3>1. SameTimes(s, Paused(s))
      BY <1>1 DEF Paused, Publish, SameTimes, SessionType
    <3>2. SameTimes(s, Resumed(s))
      BY <1>1 DEF Resumed, Publish, SameTimes, SessionType
    <3>. QED  BY <3>1, <3>2
  <2>. HIDE DEF t
  <2>. QED  BY <1>1, <2>1, <2>2, SameTimesLead, BecomesLeads
<1>. QED  BY <1>2, <1>3, <1>4

LEMMA ElsewhereLeads ==
    ASSUME IInv, AllLead, UNCHANGED session \/ Pump
    PROVE  AllLead'
<1>1. CASE UNCHANGED session
  BY <1>1 DEF AllLead, Leads
<1>2. CASE Pump
  <2>1. ASSUME NEW c \in CallIds
        PROVE  Leads(session'[c])
    <3>1. session[c] \in SessionType /\ Leads(session[c])
      BY DEF IInv, AllLead
    <3>2. PICK h : Heard(session[c]) = [session[c] EXCEPT !.heard = h]
      BY DEF Heard
    <3>3. session'[c] = Heard(session[c])
      BY <1>2 DEF Pump
    <3>. QED  BY <3>1, <3>2, <3>3 DEF Leads, SessionType
  <2>. QED  BY <2>1 DEF AllLead, Leads
<1>. QED  BY <1>1, <1>2

LEMMA NextLeads ==
    ASSUME "replace_media" \notin Commands, IInv, AllLead, [Next]_vars
    PROVE  AllLead'
<1>1. CASE \E c \in CallIds : \/ OnEarly(c) \/ OnConfirmed(c) \/ OnDisconnected(c)
                             \/ OnMediaActive(c) \/ OnEof(c)
  BY <1>1, CallBacksLead
<1>2. CASE \E c \in CallIds :
              \/ \E t \in Targets, d \in Durations, l \in LeadIns : PlaceCall(c, t, d, l)
              \/ Hangup(c)
              \/ \E paused \in BOOLEAN : SetPaused(c, paused)
              \/ Preempt(c) \/ ShutDownCall(c)
  BY <1>2, CommandsLead
<1>3. ASSUME NEW c \in CallIds, ServiceTimers(c)
      PROVE  AllLead'
  <2>1. /\ Sound(session[c]) /\ Leads(session[c]) /\ session[c].call # "none"
        /\ now \in Nat /\ now >= 1
    BY <1>3 DEF ServiceTimers, IInv, Good, AllLead
  <2>2. Becomes(c, Serviced(session[c]))
    BY <1>3 DEF ServiceTimers
  <2>3. \A t \in Serviced(session[c]) : Leads(t)
    BY <2>1, ServicedLeads
  <2>. QED  BY <2>2, <2>3, BecomesLeads
<1>4. CASE Pump
  BY <1>4, ElsewhereLeads
<1>5. CASE \/ EventsHandled \/ CommandsDrained \/ Stop \/ Stopped
           \/ \E a \in Accounts, registered \in BOOLEAN : OnRegState(a, registered)
           \/ \E t \in Targets : HangupTarget(t)
           \/ UNCHANGED vars
  <2>1. UNCHANGED session
    BY <1>5 DEF EventsHandled, CommandsDrained, Stop, Stopped, OnRegState,
                HangupTarget, vars
  <2>. QED  BY <2>1, ElsewhereLeads
<1>6. ~ \E c \in CallIds, d \in Durations : ReplaceMedia(c, d)
  BY DEF ReplaceMedia, Command
<1>. QED  BY <1>1, <1>2, <1>3, <1>4, <1>5, <1>6 DEF Next

(***************************************************************************)
(* Theorems.                                                               *)
(***************************************************************************)

\* For any number of calls, clips and timeouts, a client that follows the
\* events knows whether the clip is heard, through replaced, paused and
\* failed clips and whatever ends the call (sip.py:530, 538, 670, 698, 741).
THEOREM EventsAreTrue == Spec => []EventsTellTheTruth
<1>1. Init => AllTell
  <2>1. Tells(UnusedSession)
    <3>1. ~UnusedSession.player /\ UnusedSession.event = "none"
      BY DEF UnusedSession
    <3>. QED  BY <3>1 DEF Tells
  <2>. QED  BY <2>1 DEF Init, AllTell
<1>2. IInv /\ AllTell /\ [Next]_vars => AllTell'
  BY NextTells
<1>3. AllTell => EventsTellTheTruth
  BY DEF AllTell, Tells, EventsTellTheTruth
<1>. QED  BY <1>1, <1>2, <1>3, Invariance, PTL DEF Spec

\* For any number of calls, every call to the target of a hangup_target was
\* told to end when it returns (sip.py:543-549), though each visit may
\* remove a session from those it walks.
THEOREM PreemptionIsThorough == Spec => PreemptClearsTarget
<1>1. Init => Hunt
  BY DEF Init, Hunt
<1>2. IInv /\ Hunt /\ [Next]_vars => Hunt'
  BY NextHunt
<1>3. IInv /\ Hunt /\ [Next]_vars => Cleared
  BY NextCleared
<1>4. Cleared <=> (pc = "preempting" /\ pc' = "commands" =>
          \A c \in todo, d \in CallIds :
             session[d].target = session[c].target
                => session'[d].call # "active")
  BY DEF Cleared
<1>. QED
  BY <1>1, <1>2, <1>3, <1>4, Invariance, PTL DEF Spec, PreemptClearsTarget

\* Where no client replaces the media of a call, playback starts a lead-in
\* after the answer and never before it (sip.py:592-595), however pauses,
\* hangups and media that come late or early fall.
THEOREM LeadInsAreKept ==
    ASSUME "replace_media" \notin Commands
    PROVE  Spec => []LeadInHonoured
<1>1. Init => AllLead
  <2>1. Leads(UnusedSession)
    <3>1. UnusedSession.playback_deadline = 0 /\ UnusedSession.playback_at = 0
      BY DEF UnusedSession
    <3>. QED  BY <3>1 DEF Leads
  <2>. QED  BY <2>1 DEF Init, AllLead
<1>2. IInv /\ AllLead /\ [Next]_vars => AllLead'
  BY NextLeads
<1>3. AllLead => LeadInHonoured
  BY DEF AllLead, Leads, LeadInHonoured
<1>. QED  BY <1>1, <1>2, <1>3, Invariance, PTL DEF Spec
=============================================================================
