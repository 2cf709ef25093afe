-------------------------- MODULE SipWorkerProofs --------------------------
(***************************************************************************)
(* Theorems about SipWorker, for any number of calls, any clips and any    *)
(* timeouts.                                                               *)
(*                                                                         *)
(* The argument goes session by session.  Sound(s) is what every handler   *)
(* keeps true of a session at any time.  Bounded(s) is what the timers     *)
(* guarantee between two turns of the loop; it survives the tick of the    *)
(* clock because every session that _service_timers has just visited is    *)
(* OnTime, which leaves room for one more tick.                            *)
(***************************************************************************)
EXTENDS SipWorker, TLAPS

Life(s) ==
    /\ s.state = "unused" => s.call = "none" /\ s.filed = 0
    /\ s.call # "none" => s.state # "disconnected"
    /\ s.filed = IF s.state = "disconnected" THEN 1 ELSE 0
    /\ s.filed = 1 => s.end_reason # ""
    /\ s.call = "none" => s.state \in {"unused", "new", "disconnected"}
    /\ s.call = "active" => s.end_reason = ""

Clip(s) ==
    /\ s.player => s.playback_started /\ s.call # "none"
    /\ s.player => s.heard = IF s.paused THEN s.played
                             ELSE now - s.playback_origin
    /\ s.player /\ s.paused => s.hangup_deadline = 0 /\ s.played < now
    /\ Transmitting(s) =>
          /\ s.playback_origin >= 1
          /\ s.hangup_deadline # 0
          /\ s.playback_origin + s.duration <= s.hangup_deadline
          /\ s.hangup_deadline <= s.playback_origin + s.duration + Tail
    /\ s.end_reason = "" /\ s.hangup_deadline # 0 => Transmitting(s)

Answer(s) ==
    s.call = "active" /\ s.confirmed_at = 0 =>
        s.answer_deadline # 0 /\ s.answer_deadline = s.started_at + AnswerTimeout

Sound(s) == s \in SessionType /\ Life(s) /\ Clip(s) /\ Answer(s)

Bounded(s) ==
    /\ s.call = "active" => now - s.started_at <= MaxCall + 1
    /\ s.call = "active" /\ s.confirmed_at = 0
          => now - s.started_at <= AnswerTimeout
    /\ s.player => s.heard <= s.duration + Tail

OnTime(s) ==
    /\ s.call = "active" => now - s.started_at <= MaxCall
    /\ s.call = "active" /\ s.confirmed_at = 0
          => now - s.started_at < AnswerTimeout
    /\ Transmitting(s) => now < s.hangup_deadline

Good(s) == Sound(s) /\ Bounded(s)

IInv ==
    /\ now \in Nat /\ now >= 1
    /\ pc \in {"events", "commands", "preempting", "timers", "shutdown",
              "stopped"}
    /\ todo \subseteq CallIds
    /\ registration \in [Accounts -> BOOLEAN]
    /\ session \in [CallIds -> SessionType]
    /\ \A c \in CallIds : Good(session[c])
    /\ pc = "timers" => /\ \A c \in CallIds \ todo : OnTime(session[c])
                       /\ \A c \in todo : session[c].call # "none"
(***************************************************************************)
(* What each handler makes of a session, field by field.                   *)
(***************************************************************************)
LEMMA Increment ==
    ASSUME NEW n, n = 0
    PROVE  n + 1 = 1
OBVIOUS

LEMMA StopPlayerFields ==
    ASSUME NEW s \in SessionType
    PROVE  \E e \in EventTypes :
              StopPlayer(s) = [s EXCEPT !.player = FALSE, !.event = e]
<1>1. CASE s.player
  <2>1. StopPlayer(s) =
          [s EXCEPT !.player = FALSE,
                    !.event = IF s.playback_started THEN "playback_finished"
                              ELSE s.event]
    BY <1>1 DEF StopPlayer, Publish
  <2>. QED  BY <2>1 DEF SessionType, EventTypes
<1>2. CASE ~s.player
  <2>1. s = [s EXCEPT !.player = FALSE, !.event = s.event]
    BY <1>2 DEF SessionType
  <2>. QED  BY <1>2, <2>1 DEF StopPlayer, SessionType
<1>. QED  BY <1>1, <1>2 DEF SessionType

LEMMA FirstReasonType ==
    ASSUME NEW s \in SessionType, NEW reason \in EndReasons \ {""}
    PROVE  FirstReason(s, reason) \in EndReasons \ {""}
BY DEF FirstReason, SessionType

\* A session that was told to end is still a session, as is one that did.
LEMMA HungType ==
    ASSUME NEW s \in SessionType, NEW r \in EndReasons, NEW e \in EventTypes,
           NEW call \in {"none", "active", "hanging"}
    PROVE  [s EXCEPT !.player = FALSE, !.event = e, !.end_reason = r,
                     !.call = call] \in SessionType
BY DEF SessionType

LEMMA FiledType ==
    ASSUME NEW s \in SessionType, NEW r \in EndReasons
    PROVE  [s EXCEPT !.player = FALSE, !.event = "disconnected",
                     !.state = "disconnected", !.filed = 1,
                     !.end_reason = r, !.call = "none"] \in SessionType
BY DEF SessionType, EventTypes

LEMMA HungFields ==
    ASSUME NEW s \in SessionType, NEW reason \in EndReasons \ {""}
    PROVE  \E e \in EventTypes :
              Hung(s, reason) = [s EXCEPT !.player = FALSE, !.event = e,
                                          !.end_reason = FirstReason(s, reason),
                                          !.call = s.call]
<1>. DEFINE r == [s EXCEPT !.end_reason = FirstReason(s, reason)]
<1>1. r \in SessionType
  BY FirstReasonType DEF SessionType
<1>2. PICK e \in EventTypes : StopPlayer(r) = [r EXCEPT !.player = FALSE, !.event = e]
  BY <1>1, StopPlayerFields
<1>3. [r EXCEPT !.player = FALSE, !.event = e] =
      [s EXCEPT !.player = FALSE, !.event = e,
                !.end_reason = FirstReason(s, reason), !.call = s.call]
  BY DEF SessionType
<1>. QED  BY <1>2, <1>3 DEF Hung

LEMMA FinishFields ==
    ASSUME NEW s \in SessionType, NEW reason,
           s.call # "none", s.filed = 0
    PROVE  Finish(s, reason) =
             [s EXCEPT !.player = FALSE, !.event = "disconnected",
                       !.state = "disconnected", !.filed = 1,
                       !.end_reason = FirstReason(s, reason), !.call = "none"]
<1>. DEFINE p == StopPlayer(s)
<1>1. PICK e \in EventTypes : p = [s EXCEPT !.player = FALSE, !.event = e]
  BY StopPlayerFields
<1>2. Finish(s, reason) =
        [p EXCEPT !.state = "disconnected",
                  !.end_reason = FirstReason(s, reason),
                  !.filed = p.filed + 1, !.call = "none",
                  !.event = "disconnected"]
  BY DEF Finish, Publish
<1>. HIDE DEF p
<1>3. p.filed = 0
  BY <1>1 DEF SessionType
<1>4. p.filed + 1 = 1
  BY <1>3, Increment
<1>. QED  BY <1>1, <1>2, <1>4 DEF SessionType

\* A call that ends is over and silent, and filed under its first reason.
LEMMA FinishSound ==
    ASSUME NEW s \in SessionType, NEW reason \in EndReasons \ {""},
           s.call # "none", s.filed = 0
    PROVE  /\ Sound(Finish(s, reason))
           /\ Finish(s, reason).call = "none"
           /\ ~Finish(s, reason).player
           /\ Finish(s, reason).end_reason = FirstReason(s, reason)
<1>. DEFINE t == Finish(s, reason)
            r == FirstReason(s, reason)
<1>1. t = [s EXCEPT !.player = FALSE, !.event = "disconnected",
                    !.state = "disconnected", !.filed = 1,
                    !.end_reason = r, !.call = "none"]
  BY FinishFields
<1>2. r \in EndReasons /\ r # ""
  BY FirstReasonType
<1>. HIDE DEF t, r
<1>3. t \in SessionType  BY <1>1, <1>2, FiledType
<1>4. t.call = "none" /\ ~t.player /\ t.end_reason = r
  BY <1>1 DEF SessionType
<1>5. t.state = "disconnected" /\ t.filed = 1
  BY <1>1 DEF SessionType
<1>6. Life(t)            BY <1>2, <1>4, <1>5 DEF Life
<1>7. Clip(t)            BY <1>2, <1>4 DEF Clip, Transmitting
<1>8. Answer(t)          BY <1>4 DEF Answer
<1>. QED  BY <1>3, <1>4, <1>6, <1>7, <1>8 DEF Sound, t, r

\* After _teardown the call is over, or waits, silent, for DISCONNECTED, and
\* the session has a reason: its first.
LEMMA TeardownSound ==
    ASSUME NEW s, Sound(s), NEW reason \in EndReasons \ {""},
           NEW t \in Teardown(s, reason)
    PROVE  /\ Sound(t)
           /\ t.call # "active" /\ ~t.player
           /\ t.end_reason = FirstReason(s, reason)
           /\ s.call = "none" => t.call = "none"
<1>. DEFINE h == Hung(s, reason)
            r == FirstReason(s, reason)
<1>1. s \in SessionType
  BY DEF Sound
<1>2. r \in EndReasons /\ r # ""
  BY <1>1, FirstReasonType
<1>3. PICK e \in EventTypes :
         h = [s EXCEPT !.player = FALSE, !.event = e, !.end_reason = r,
                       !.call = s.call]
  BY <1>1, HungFields
<1>4. \/ t = Finish(h, reason)
      \/ s.call # "none" /\ t = [h EXCEPT !.call = "hanging"]
  BY DEF Teardown
<1>5. /\ h.call = s.call /\ h.filed = s.filed /\ h.end_reason = r
      /\ h.state = s.state /\ ~h.player
  BY <1>1, <1>3 DEF SessionType
<1>6. s.call \in {"none", "active", "hanging"}
  BY <1>1 DEF SessionType
<1>. HIDE DEF h, r
<1>7. h \in SessionType
  BY <1>1, <1>2, <1>3, <1>6, HungType
<1>8. FirstReason(h, reason) = r
  BY <1>2, <1>5 DEF FirstReason
<1>9. CASE s.call = "none"
  <2>1. t = h
    BY <1>4, <1>5, <1>9 DEF Finish
  <2>2. Life(t)    BY <1>2, <1>5, <1>9, <2>1 DEF Sound, Life
  <2>3. Clip(t)    BY <1>2, <1>5, <2>1 DEF Clip, Transmitting
  <2>4. Answer(t)  BY <1>5, <1>9, <2>1 DEF Answer
  <2>. QED  BY <1>5, <1>7, <1>9, <2>1, <2>2, <2>3, <2>4 DEF Sound, r
<1>10. CASE s.call # "none" /\ t = [h EXCEPT !.call = "hanging"]
  <2>1. t = [s EXCEPT !.player = FALSE, !.event = e, !.end_reason = r,
                      !.call = "hanging"]
    BY <1>1, <1>3, <1>10 DEF SessionType
  <2>2. t \in SessionType
    BY <1>1, <1>2, <2>1, HungType
  <2>3. /\ t.call = "hanging" /\ t.filed = s.filed /\ t.end_reason = r
        /\ t.state = s.state /\ ~t.player
    BY <1>1, <2>1 DEF SessionType
  <2>4. Life(t)    BY <1>2, <1>10, <2>3 DEF Sound, Life
  <2>5. Clip(t)    BY <1>2, <2>3 DEF Clip, Transmitting
  <2>6. Answer(t)  BY <2>3 DEF Answer
  <2>. QED  BY <1>10, <2>2, <2>3, <2>4, <2>5, <2>6 DEF Sound, r
<1>11. CASE s.call # "none" /\ t = Finish(h, reason)
  <2>1. h.filed = 0
    BY <1>5, <1>11 DEF Sound, Life
  <2>2. h.call # "none"
    BY <1>5, <1>11
  <2>3. Sound(t) /\ t.call = "none" /\ ~t.player /\ t.end_reason = r
    BY <1>7, <1>8, <1>11, <2>1, <2>2, FinishSound
  <2>. QED  BY <1>11, <2>3 DEF r
<1>. QED  BY <1>4, <1>9, <1>10, <1>11

(***************************************************************************)
(* Playback.                                                               *)
(***************************************************************************)

\* t is s, told to end for a reason.
TornDown(s, t, reason) ==
    t.call # "active" /\ ~t.player /\ t.end_reason = FirstReason(s, reason)

\* t is the same call as s, and no more told to end than s was.
SameCall(s, t) ==
    /\ t.call = s.call /\ t.end_reason = s.end_reason
    /\ t.started_at = s.started_at /\ t.confirmed_at = s.confirmed_at

\* Nothing makes a page complete before its clip was heard.
Honest(s, t) ==
    t.end_reason = "playback_complete" /\ s.end_reason # "playback_complete"
        => s.heard >= s.duration

LEMMA TornDownIsBounded ==
    ASSUME NEW s, NEW t, NEW reason, TornDown(s, t, reason)
    PROVE  /\ Bounded(t) /\ OnTime(t)
           /\ reason # "playback_complete" => Honest(s, t)
BY DEF TornDown, Bounded, OnTime, Transmitting, Honest, FirstReason

LEMMA SameCallIsBounded ==
    ASSUME NEW s, NEW t, SameCall(s, t), Bounded(s),
           t.player => t.heard <= t.duration + Tail
    PROVE  Bounded(t) /\ Honest(s, t)
BY DEF SameCall, Bounded, Honest

LEMMA StartedType ==
    ASSUME NEW s \in SessionType, NEW origin \in Int, NEW played \in Int,
           NEW at \in Nat, NEW heard \in Nat, NEW hd \in Int
    PROVE  [s EXCEPT !.player = TRUE, !.playback_started = TRUE,
                     !.playback_origin = origin, !.played = played,
                     !.paused = FALSE, !.playback_at = at,
                     !.state = "playback_started", !.heard = heard,
                     !.hangup_deadline = hd,
                     !.event = "playback_started"] \in SessionType
BY DEF SessionType, EventTypes

LEMMA StartedPlaybackSound ==
    ASSUME NEW s, Sound(s), s.call # "none", now \in Nat, now >= 1
    PROVE  LET t == StartedPlayback(s)
           IN  /\ Sound(t) /\ SameCall(s, t)
               /\ t.heard = 0 /\ t.duration = s.duration /\ Transmitting(t)
               /\ t.hangup_deadline = now + s.duration + Tail
<1>. DEFINE t  == StartedPlayback(s)
            at == IF s.playback_at = 0 THEN now ELSE s.playback_at
            hd == now + s.duration + Tail
<1>1. s \in SessionType /\ Tail \in Nat
  BY ConstantsAssumption DEF Sound
<1>2. s.duration \in Nat /\ s.playback_at \in Nat
  BY <1>1 DEF SessionType
<1>3. hd \in Int /\ at \in Nat /\ hd >= 1 /\ hd # 0
  BY <1>1, <1>2
<1>4. t = [s EXCEPT !.player = TRUE, !.playback_started = TRUE,
                    !.playback_origin = now, !.played = 0, !.paused = FALSE,
                    !.playback_at = at, !.state = "playback_started",
                    !.heard = 0, !.hangup_deadline = hd,
                    !.event = "playback_started"]
  BY <1>1 DEF StartedPlayback, Publish, SessionType
<1>5. hd = now + s.duration + Tail
  OBVIOUS
<1>. HIDE DEF t, at, hd
<1>6. t \in SessionType
  <2>1. now \in Int /\ 0 \in Int /\ 0 \in Nat
    OBVIOUS
  <2>. QED  BY <1>1, <1>3, <1>4, <2>1, StartedType
<1>7. /\ t.player /\ t.playback_started /\ ~t.paused
      /\ t.playback_origin = now /\ t.heard = 0 /\ t.duration = s.duration
      /\ t.hangup_deadline = hd /\ t.state = "playback_started"
      /\ t.call = s.call /\ t.end_reason = s.end_reason /\ t.filed = s.filed
      /\ t.started_at = s.started_at /\ t.confirmed_at = s.confirmed_at
      /\ t.answer_deadline = s.answer_deadline
  BY <1>1, <1>4 DEF SessionType
<1>8. Life(t)  BY <1>7 DEF Sound, Life
<1>9. Clip(t)
  <2>1. now - now = 0 /\ now + s.duration <= hd /\ hd <= now + s.duration + Tail
    BY <1>1, <1>2, <1>5
  <2>2. t.player => t.playback_started /\ t.call # "none"
    BY <1>7
  <2>3. t.heard = IF t.paused THEN t.played ELSE now - t.playback_origin
    BY <1>7, <2>1
  <2>4. Transmitting(t)
    BY <1>7 DEF Transmitting
  <2>5. /\ t.playback_origin >= 1 /\ t.hangup_deadline # 0
        /\ t.playback_origin + t.duration <= t.hangup_deadline
        /\ t.hangup_deadline <= t.playback_origin + t.duration + Tail
    BY <1>3, <1>7, <2>1
  <2>. QED  BY <1>7, <2>2, <2>3, <2>4, <2>5 DEF Clip
<1>10. Answer(t)  BY <1>7 DEF Sound, Answer
<1>. QED  BY <1>5, <1>6, <1>7, <1>8, <1>9, <1>10 DEF Sound, SameCall, Transmitting, t

LEMMA PublishSound ==
    ASSUME NEW s, Sound(s), NEW type \in EventTypes
    PROVE  /\ Sound(Publish(s, type)) /\ SameCall(s, Publish(s, type))
           /\ Transmitting(Publish(s, type)) = Transmitting(s)
           /\ Publish(s, type).heard = s.heard
           /\ Publish(s, type).duration = s.duration
<1>. DEFINE t == Publish(s, type)
<1>1. s \in SessionType
  BY DEF Sound
<1>2. t = [s EXCEPT !.event = type]
  BY DEF Publish
<1>. HIDE DEF t
<1>3. t \in SessionType
  BY <1>1, <1>2 DEF SessionType
<1>4. /\ t.call = s.call /\ t.end_reason = s.end_reason /\ t.filed = s.filed
      /\ t.state = s.state /\ t.started_at = s.started_at
      /\ t.confirmed_at = s.confirmed_at
      /\ t.answer_deadline = s.answer_deadline
  BY <1>1, <1>2 DEF SessionType
<1>5. /\ t.player = s.player /\ t.paused = s.paused
      /\ t.playback_started = s.playback_started
      /\ t.playback_origin = s.playback_origin /\ t.played = s.played
      /\ t.heard = s.heard /\ t.duration = s.duration
      /\ t.hangup_deadline = s.hangup_deadline
  BY <1>1, <1>2 DEF SessionType
<1>6. Life(t)    BY <1>4 DEF Sound, Life
<1>7. Clip(t)    BY <1>4, <1>5 DEF Sound, Clip, Transmitting
<1>8. Answer(t)  BY <1>4 DEF Sound, Answer
<1>. QED  BY <1>3, <1>4, <1>5, <1>6, <1>7, <1>8 DEF Sound, SameCall, Transmitting, t

\* A clip either starts from its beginning or the call is torn down.
LEMMA StartPlaybackSound ==
    ASSUME NEW s, Sound(s), s.call # "none", now \in Nat, now >= 1,
           NEW t \in StartPlayback(s)
    PROVE  /\ Sound(t)
           /\ \/ t = StartedPlayback(s)
              \/ TornDown(s, t, "playback_failed")
<1>1. CASE t = StartedPlayback(s)
  BY <1>1, StartedPlaybackSound
<1>2. CASE t \in PlaybackFailed(s)
  <2>. DEFINE p == Publish(s, "disconnected")
  <2>1. Sound(p) /\ p.end_reason = s.end_reason
    BY PublishSound DEF EventTypes, SameCall
  <2>2. t \in Teardown(p, "playback_failed")
    BY <1>2 DEF PlaybackFailed
  <2>3. "playback_failed" \in EndReasons \ {""}
    BY DEF EndReasons
  <2>. HIDE DEF p
  <2>4. /\ Sound(t) /\ t.call # "active" /\ ~t.player
        /\ t.end_reason = FirstReason(p, "playback_failed")
    BY <2>1, <2>2, <2>3, TeardownSound
  <2>5. FirstReason(p, "playback_failed") = FirstReason(s, "playback_failed")
    BY <2>1 DEF FirstReason
  <2>. QED  BY <2>4, <2>5 DEF TornDown
<1>. QED  BY <1>1, <1>2 DEF StartPlayback

\* Whatever start of playback is tried, the session stays good.
LEMMA StartPlaybackGood ==
    ASSUME NEW s, Sound(s), Bounded(s), s.call # "none",
           now \in Nat, now >= 1, NEW t \in StartPlayback(s)
    PROVE  Good(t) /\ Honest(s, t)
<1>1. Sound(t)
  BY StartPlaybackSound
<1>2. CASE TornDown(s, t, "playback_failed")
  BY <1>1, <1>2, TornDownIsBounded DEF Good
<1>3. CASE t = StartedPlayback(s)
  <2>1. SameCall(s, t) /\ t.heard = 0
    BY <1>3, StartedPlaybackSound
  <2>2. t.duration \in Nat /\ Tail \in Nat
    BY <1>1, ConstantsAssumption DEF Sound, SessionType
  <2>3. t.heard <= t.duration + Tail
    BY <2>1, <2>2
  <2>. QED  BY <1>1, <2>1, <2>3, SameCallIsBounded DEF Good
<1>. QED  BY <1>2, <1>3, StartPlaybackSound

(***************************************************************************)
(* Commands.                                                               *)
(***************************************************************************)
LEMMA NewClipType ==
    ASSUME NEW s \in SessionType, NEW e \in EventTypes, NEW d \in Nat,
           NEW played \in Int, NEW heard \in Nat, NEW hd \in Int
    PROVE  [s EXCEPT !.player = FALSE, !.event = e, !.duration = d,
                     !.playback_started = FALSE, !.played = played,
                     !.paused = FALSE, !.hangup_deadline = hd,
                     !.heard = heard] \in SessionType
BY DEF SessionType

LEMMA WithNewClipSound ==
    ASSUME NEW s, Sound(s), NEW d \in Nat
    PROVE  LET t == WithNewClip(s, d)
           IN  Sound(t) /\ SameCall(s, t) /\ ~t.player /\ t.filed = s.filed
<1>. DEFINE t == WithNewClip(s, d)
            p == StopPlayer(s)
<1>1. s \in SessionType
  BY DEF Sound
<1>2. PICK e \in EventTypes : p = [s EXCEPT !.player = FALSE, !.event = e]
  BY <1>1, StopPlayerFields
<1>3. t = [p EXCEPT !.duration = d, !.playback_started = FALSE,
                    !.played = 0, !.paused = FALSE, !.hangup_deadline = 0,
                    !.heard = 0]
  BY DEF WithNewClip
<1>. HIDE DEF t, p
<1>4. t = [s EXCEPT !.player = FALSE, !.event = e, !.duration = d,
                    !.playback_started = FALSE, !.played = 0,
                    !.paused = FALSE, !.hangup_deadline = 0, !.heard = 0]
  BY <1>1, <1>2, <1>3 DEF SessionType
<1>5. t \in SessionType
  <2>1. 0 \in Int /\ 0 \in Nat
    OBVIOUS
  <2>. QED  BY <1>1, <1>4, <2>1, NewClipType
<1>6. /\ ~t.player /\ t.hangup_deadline = 0 /\ t.call = s.call
      /\ t.end_reason = s.end_reason /\ t.filed = s.filed
      /\ t.state = s.state /\ t.started_at = s.started_at
      /\ t.confirmed_at = s.confirmed_at
      /\ t.answer_deadline = s.answer_deadline
  BY <1>1, <1>4 DEF SessionType
<1>7. Life(t)    BY <1>6 DEF Sound, Life
<1>8. Clip(t)    BY <1>6 DEF Clip, Transmitting
<1>9. Answer(t)  BY <1>6 DEF Sound, Answer
<1>. QED  BY <1>5, <1>6, <1>7, <1>8, <1>9 DEF Sound, SameCall, t

LEMMA ReplacedMediaGood ==
    ASSUME NEW s, Good(s), s.call # "none", NEW d \in Nat,
           now \in Nat, now >= 1, NEW t \in ReplacedMedia(s, d)
    PROVE  Good(t) /\ Honest(s, t)
<1>. DEFINE r == WithNewClip(s, d)
<1>1. Sound(r) /\ SameCall(s, r) /\ ~r.player /\ r.filed = s.filed
  BY WithNewClipSound DEF Good
<1>2. Bounded(r)
  BY <1>1, SameCallIsBounded DEF Good
<1>3. s \in SessionType /\ r \in SessionType
  BY <1>1 DEF Good, Sound
<1>4. \/ t \in StartPlayback(r)
      \/ t = [r EXCEPT !.playback_deadline =
                 IF r.playback_deadline = 0 THEN now + s.lead_in
                 ELSE r.playback_deadline]
  BY DEF ReplacedMedia
<1>. HIDE DEF r
<1>5. CASE t \in StartPlayback(r)
  <2>1. Sound(t)
    BY <1>1, <1>5, StartPlaybackSound DEF SameCall
  <2>2. Good(t)
    BY <1>1, <1>2, <1>5, StartPlaybackGood DEF SameCall
  <2>3. CASE t = StartedPlayback(r)
    BY <1>1, <2>2, <2>3, StartedPlaybackSound DEF SameCall, Honest
  <2>4. CASE TornDown(r, t, "playback_failed")
    BY <1>1, <2>2, <2>4 DEF TornDown, SameCall, FirstReason, Honest
  <2>. QED  BY <1>1, <1>5, <2>2, <2>3, <2>4, StartPlaybackSound DEF SameCall
<1>6. CASE t = [r EXCEPT !.playback_deadline =
                   IF r.playback_deadline = 0 THEN now + s.lead_in
                   ELSE r.playback_deadline]
  <2>. DEFINE pd == IF r.playback_deadline = 0 THEN now + s.lead_in
                    ELSE r.playback_deadline
  <2>1. s.lead_in \in Nat /\ r.playback_deadline \in Nat
    BY <1>3 DEF SessionType
  <2>2. pd \in Nat
    BY <2>1
  <2>3. t = [r EXCEPT !.playback_deadline = pd]
    BY <1>6
  <2>. HIDE DEF pd
  <2>4. t \in SessionType
    BY <1>3, <2>2, <2>3 DEF SessionType
  <2>5. /\ ~t.player /\ t.hangup_deadline = r.hangup_deadline
        /\ t.call = r.call /\ t.paused = r.paused
        /\ t.end_reason = r.end_reason /\ t.filed = r.filed
        /\ t.state = r.state /\ t.started_at = r.started_at
        /\ t.confirmed_at = r.confirmed_at
        /\ t.answer_deadline = r.answer_deadline
    BY <1>1, <1>3, <2>3 DEF SessionType
  <2>6. Life(t)    BY <1>1, <2>5 DEF Sound, Life
  <2>7. Clip(t)    BY <1>1, <2>5 DEF Sound, Clip, Transmitting
  <2>8. Answer(t)  BY <1>1, <2>5 DEF Sound, Answer
  <2>9. SameCall(r, t) /\ ~Transmitting(t)
    BY <2>5 DEF SameCall, Transmitting
  <2>10. Bounded(t)
    BY <1>2, <2>5, <2>9, SameCallIsBounded
  <2>11. Honest(s, t)
    BY <1>1, <2>9 DEF SameCall, Honest
  <2>. QED  BY <2>4, <2>6, <2>7, <2>8, <2>10, <2>11 DEF Good, Sound
<1>. QED  BY <1>4, <1>5, <1>6

LEMMA PausedGood ==
    ASSUME NEW s, Good(s), now \in Nat, s.player, ~s.paused
    PROVE  Good(Paused(s)) /\ Honest(s, Paused(s))
<1>. DEFINE t == Paused(s)
            played == now - s.playback_origin
<1>1. s \in SessionType /\ s.playback_origin \in Int
  BY DEF Good, Sound, SessionType
<1>2. played \in Int
  BY <1>1
<1>3. t = [s EXCEPT !.played = played, !.paused = TRUE,
                    !.hangup_deadline = 0, !.event = "playback_paused"]
  BY <1>1 DEF Paused, Publish, SessionType
<1>4. played < now /\ s.heard = played
  <2>1. s.playback_origin >= 1 /\ s.heard = played
    BY DEF Good, Sound, Clip, Transmitting
  <2>. QED  BY <1>1, <2>1
<1>. HIDE DEF t, played
<1>5. t \in SessionType
  <2>1. 0 \in Int
    OBVIOUS
  <2>. QED  BY <1>1, <1>2, <1>3, <2>1 DEF SessionType, EventTypes
<1>6. /\ t.player /\ t.paused /\ t.played = played /\ t.hangup_deadline = 0
      /\ t.playback_started = s.playback_started /\ t.heard = s.heard
      /\ t.call = s.call /\ t.end_reason = s.end_reason /\ t.filed = s.filed
      /\ t.state = s.state /\ t.started_at = s.started_at
      /\ t.confirmed_at = s.confirmed_at
      /\ t.answer_deadline = s.answer_deadline
  BY <1>1, <1>3 DEF SessionType
<1>7. Life(t)    BY <1>6 DEF Good, Sound, Life
<1>8. Clip(t)    BY <1>4, <1>6 DEF Good, Sound, Clip, Transmitting
<1>9. Answer(t)  BY <1>6 DEF Good, Sound, Answer
<1>11. t.duration = s.duration
  BY <1>1, <1>3 DEF SessionType
<1>10. Bounded(t) /\ Honest(s, t)
  BY <1>6, <1>11, SameCallIsBounded DEF Good, SameCall, Bounded
<1>. QED  BY <1>5, <1>7, <1>8, <1>9, <1>10 DEF Good, Sound, t

LEMMA ResumedGood ==
    ASSUME NEW s, Good(s), now \in Nat, s.player, s.paused
    PROVE  Good(Resumed(s)) /\ Honest(s, Resumed(s))
<1>. DEFINE t == Resumed(s)
            origin == now - s.played
            hd == now - s.played + s.duration + Tail
<1>1. /\ s \in SessionType /\ s.played \in Int /\ s.duration \in Nat
      /\ s.heard \in Nat /\ Tail \in Nat
  BY ConstantsAssumption DEF Good, Sound, SessionType
<1>2. s.heard = s.played /\ s.played < now
  BY DEF Good, Sound, Clip
<1>3. /\ origin \in Int /\ hd \in Int /\ origin >= 1 /\ hd # 0
      /\ origin + s.duration <= hd /\ hd <= origin + s.duration + Tail
      /\ s.heard = now - origin
  BY <1>1, <1>2
<1>4. t = [s EXCEPT !.paused = FALSE, !.playback_origin = origin,
                    !.hangup_deadline = hd, !.event = "playback_resumed"]
  BY <1>1 DEF Resumed, Publish, SessionType
<1>. HIDE DEF t, origin, hd
<1>5. t \in SessionType
  BY <1>1, <1>3, <1>4 DEF SessionType, EventTypes
<1>6. /\ t.player /\ ~t.paused /\ t.playback_origin = origin
      /\ t.hangup_deadline = hd /\ t.duration = s.duration
      /\ t.playback_started = s.playback_started /\ t.heard = s.heard
      /\ t.call = s.call /\ t.end_reason = s.end_reason /\ t.filed = s.filed
      /\ t.state = s.state /\ t.started_at = s.started_at
      /\ t.confirmed_at = s.confirmed_at
      /\ t.answer_deadline = s.answer_deadline
  BY <1>1, <1>4 DEF SessionType
<1>7. Life(t)    BY <1>6 DEF Good, Sound, Life
<1>8. Clip(t)    BY <1>3, <1>6 DEF Good, Sound, Clip, Transmitting
<1>9. Answer(t)  BY <1>6 DEF Good, Sound, Answer
<1>10. Bounded(t) /\ Honest(s, t)
  BY <1>6, SameCallIsBounded DEF Good, SameCall, Bounded
<1>. QED  BY <1>5, <1>7, <1>8, <1>9, <1>10 DEF Good, Sound, t

LEMMA PlacedType ==
    ASSUME NEW target \in Targets, NEW d \in Nat, NEW l \in Nat,
           NEW at \in Nat, NEW deadline \in Nat, NEW state \in {"new"},
           NEW call \in {"none", "active"}, NEW e \in EventTypes
    PROVE  [UnusedSession EXCEPT !.target = target, !.duration = d,
                                 !.lead_in = l, !.state = state,
                                 !.started_at = at,
                                 !.answer_deadline = deadline,
                                 !.call = call, !.event = e] \in SessionType
<1>1. 0 \in Nat /\ 0 \in Int
  OBVIOUS
<1>. QED  BY <1>1 DEF SessionType, UnusedSession, EndReasons

LEMMA PlacedCallGood ==
    ASSUME NEW target \in Targets, NEW d \in Nat, NEW l \in Nat,
           now \in Nat, now >= 1, NEW t \in PlacedCall(target, d, l)
    PROVE  Good(t) /\ t.end_reason = ""
<1>. DEFINE deadline == now + AnswerTimeout
<1>1. AnswerTimeout \in Nat /\ MaxCall \in Nat /\ Tail \in Nat
  BY ConstantsAssumption
<1>2. deadline \in Nat /\ deadline # 0 /\ now - now = 0
      /\ 0 <= MaxCall + 1 /\ 0 <= AnswerTimeout
  BY <1>1
<1>. HIDE DEF deadline
<1>3. PICK call \in {"none", "active"}, e \in EventTypes :
        t = [UnusedSession EXCEPT !.target = target, !.duration = d,
                                  !.lead_in = l, !.state = "new",
                                  !.started_at = now,
                                  !.answer_deadline = deadline,
                                  !.call = call, !.event = e]
  <2>. DEFINE s == [UnusedSession EXCEPT !.target = target, !.duration = d,
                                         !.lead_in = l, !.state = "new",
                                         !.started_at = now,
                                         !.answer_deadline = deadline]
  <2>1. \/ t = [s EXCEPT !.call = "active", !.event = "calling"]
        \/ t = [s EXCEPT !.call = "none", !.event = "disconnected"]
    BY DEF PlacedCall, Publish, deadline
  <2>2. CASE t = [s EXCEPT !.call = "active", !.event = "calling"]
    <3>1. t = [UnusedSession EXCEPT !.target = target, !.duration = d,
                                    !.lead_in = l, !.state = "new",
                                    !.started_at = now,
                                    !.answer_deadline = deadline,
                                    !.call = "active", !.event = "calling"]
      BY <2>2 DEF UnusedSession
    <3>. QED  BY <3>1 DEF EventTypes
  <2>3. CASE t = [s EXCEPT !.call = "none", !.event = "disconnected"]
    <3>1. t = [UnusedSession EXCEPT !.target = target, !.duration = d,
                                    !.lead_in = l, !.state = "new",
                                    !.started_at = now,
                                    !.answer_deadline = deadline,
                                    !.call = "none", !.event = "disconnected"]
      BY <2>3 DEF UnusedSession
    <3>. QED  BY <3>1 DEF EventTypes
  <2>. QED  BY <2>1, <2>2, <2>3
<1>4. t \in SessionType
  BY <1>2, <1>3, PlacedType
<1>5. /\ t.call = call /\ t.state = "new" /\ t.filed = 0 /\ ~t.player
      /\ t.end_reason = "" /\ t.hangup_deadline = 0 /\ t.started_at = now
      /\ t.answer_deadline = deadline
  BY <1>3 DEF UnusedSession
<1>6. Life(t)
  <2>1. t.call = "none" \/ t.call = "active"
    BY <1>3, <1>5
  <2>2. t.filed = 0
    BY <1>5
  <2>3. t.state = "new" /\ t.end_reason = ""
    BY <1>5
  <2>4. t.filed # 1
    BY <2>2
  <2>. QED  BY <2>1, <2>2, <2>3, <2>4 DEF Life
<1>7. Clip(t)     BY <1>5 DEF Clip, Transmitting
<1>8. Answer(t)   BY <1>2, <1>5 DEF Answer, deadline
<1>9. Bounded(t)  BY <1>2, <1>5 DEF Bounded
<1>. QED  BY <1>4, <1>5, <1>6, <1>7, <1>8, <1>9 DEF Good, Sound

(***************************************************************************)
(* Callbacks.                                                              *)
(***************************************************************************)
LEMMA EarlyGood ==
    ASSUME NEW s, Good(s), s.call # "none"
    PROVE  LET t == Publish([s EXCEPT !.state = "early"], "early")
           IN  Good(t) /\ Honest(s, t)
<1>. DEFINE t == Publish([s EXCEPT !.state = "early"], "early")
<1>1. s \in SessionType
  BY DEF Good, Sound
<1>2. t = [s EXCEPT !.state = "early", !.event = "early"]
  BY <1>1 DEF Publish, SessionType
<1>. HIDE DEF t
<1>3. t \in SessionType
  BY <1>1, <1>2 DEF SessionType, EventTypes
<1>4. /\ t.player = s.player /\ t.paused = s.paused /\ t.state = "early"
      /\ t.playback_started = s.playback_started
      /\ t.playback_origin = s.playback_origin /\ t.played = s.played
      /\ t.heard = s.heard /\ t.duration = s.duration
      /\ t.hangup_deadline = s.hangup_deadline
      /\ t.call = s.call /\ t.end_reason = s.end_reason /\ t.filed = s.filed
      /\ t.started_at = s.started_at /\ t.confirmed_at = s.confirmed_at
      /\ t.answer_deadline = s.answer_deadline
  BY <1>1, <1>2 DEF SessionType
<1>5. Life(t)     BY <1>4 DEF Good, Sound, Life
<1>6. Clip(t)     BY <1>4 DEF Good, Sound, Clip, Transmitting
<1>7. Answer(t)   BY <1>4 DEF Good, Sound, Answer
<1>8. Bounded(t) /\ Honest(s, t)
  BY <1>4, SameCallIsBounded DEF Good, SameCall, Bounded
<1>. QED  BY <1>3, <1>5, <1>6, <1>7, <1>8 DEF Good, Sound, t

LEMMA ConfirmedGood ==
    ASSUME NEW s, Good(s), s.call # "none", now \in Nat, now >= 1
    PROVE  LET t == Publish([s EXCEPT !.state = "confirmed",
                                      !.confirmed_at = now,
                                      !.answer_deadline = 0,
                                      !.playback_deadline = now + s.lead_in],
                            "confirmed")
           IN  Good(t) /\ Honest(s, t)
<1>. DEFINE t == Publish([s EXCEPT !.state = "confirmed",
                                   !.confirmed_at = now,
                                   !.answer_deadline = 0,
                                   !.playback_deadline = now + s.lead_in],
                         "confirmed")
            pd == now + s.lead_in
<1>1. s \in SessionType /\ s.lead_in \in Nat
  BY DEF Good, Sound, SessionType
<1>2. pd \in Nat /\ 0 \in Nat /\ now # 0
  BY <1>1
<1>3. t = [s EXCEPT !.state = "confirmed", !.confirmed_at = now,
                    !.answer_deadline = 0, !.playback_deadline = pd,
                    !.event = "confirmed"]
  BY <1>1 DEF Publish, SessionType
<1>. HIDE DEF t, pd
<1>4. t \in SessionType
  BY <1>1, <1>2, <1>3 DEF SessionType, EventTypes
<1>5. /\ t.player = s.player /\ t.paused = s.paused /\ t.state = "confirmed"
      /\ t.playback_started = s.playback_started
      /\ t.playback_origin = s.playback_origin /\ t.played = s.played
      /\ t.heard = s.heard /\ t.duration = s.duration
      /\ t.hangup_deadline = s.hangup_deadline
      /\ t.call = s.call /\ t.end_reason = s.end_reason /\ t.filed = s.filed
      /\ t.started_at = s.started_at /\ t.confirmed_at = now
  BY <1>1, <1>3 DEF SessionType
<1>6. Life(t)       BY <1>5 DEF Good, Sound, Life
<1>7. Clip(t)       BY <1>5 DEF Good, Sound, Clip, Transmitting
<1>8. Answer(t)     BY <1>2, <1>5 DEF Answer
<1>9. Bounded(t)    BY <1>2, <1>5 DEF Good, Bounded
<1>10. Honest(s, t) BY <1>5 DEF Honest
<1>. QED  BY <1>4, <1>6, <1>7, <1>8, <1>9, <1>10 DEF Good, Sound, t

LEMMA MediaActiveGood ==
    ASSUME NEW s, Good(s)
    PROVE  LET t == [s EXCEPT !.media_ready = TRUE]
           IN  Good(t) /\ Honest(s, t)
<1>. DEFINE t == [s EXCEPT !.media_ready = TRUE]
<1>1. s \in SessionType
  BY DEF Good, Sound
<1>2. t \in SessionType
  BY <1>1 DEF SessionType
<1>3. /\ t.player = s.player /\ t.paused = s.paused /\ t.state = s.state
      /\ t.playback_started = s.playback_started
      /\ t.playback_origin = s.playback_origin /\ t.played = s.played
      /\ t.heard = s.heard /\ t.duration = s.duration
      /\ t.hangup_deadline = s.hangup_deadline
      /\ t.call = s.call /\ t.end_reason = s.end_reason /\ t.filed = s.filed
      /\ t.started_at = s.started_at /\ t.confirmed_at = s.confirmed_at
      /\ t.answer_deadline = s.answer_deadline
  BY <1>1 DEF SessionType
<1>. HIDE DEF t
<1>5. Life(t)     BY <1>3 DEF Good, Sound, Life
<1>6. Clip(t)     BY <1>3 DEF Good, Sound, Clip, Transmitting
<1>7. Answer(t)   BY <1>3 DEF Good, Sound, Answer
<1>8. Bounded(t) /\ Honest(s, t)
  BY <1>3, SameCallIsBounded DEF Good, SameCall, Bounded
<1>. QED  BY <1>2, <1>5, <1>6, <1>7, <1>8 DEF Good, Sound, t

\* The end of file brings the hangup forward, never before the end of the
\* clip, because it is reported at most EofSlack <= Tail early.
LEMMA EofGood ==
    ASSUME NEW s, Good(s), now \in Nat, now >= 1, Transmitting(s),
           s.heard + EofSlack >= s.duration
    PROVE  LET t == [s EXCEPT !.hangup_deadline =
                        IF @ = 0 \/ now + Tail < @ THEN now + Tail ELSE @]
           IN  Good(t) /\ Honest(s, t)
<1>. DEFINE t == [s EXCEPT !.hangup_deadline =
                     IF @ = 0 \/ now + Tail < @ THEN now + Tail ELSE @]
            hd == IF s.hangup_deadline = 0 \/ now + Tail < s.hangup_deadline
                  THEN now + Tail ELSE s.hangup_deadline
<1>1. /\ s \in SessionType /\ s.hangup_deadline \in Int /\ s.duration \in Nat
      /\ s.heard \in Nat /\ s.playback_origin \in Int
      /\ Tail \in Nat /\ EofSlack \in Nat /\ EofSlack <= Tail
  BY ConstantsAssumption DEF Good, Sound, SessionType
<1>2. t = [s EXCEPT !.hangup_deadline = hd]
  BY <1>1 DEF SessionType
<1>3. /\ s.heard = now - s.playback_origin /\ s.playback_origin >= 1
      /\ s.hangup_deadline # 0
      /\ s.playback_origin + s.duration <= s.hangup_deadline
      /\ s.hangup_deadline <= s.playback_origin + s.duration + Tail
  BY DEF Good, Sound, Clip, Transmitting
<1>4. /\ hd \in Int /\ hd # 0 /\ s.playback_origin + s.duration <= hd
      /\ hd <= s.playback_origin + s.duration + Tail
  BY <1>1, <1>3
<1>. HIDE DEF t, hd
<1>5. t \in SessionType
  BY <1>1, <1>2, <1>4 DEF SessionType
<1>6. /\ t.player = s.player /\ t.paused = s.paused /\ t.state = s.state
      /\ t.playback_started = s.playback_started
      /\ t.playback_origin = s.playback_origin /\ t.played = s.played
      /\ t.heard = s.heard /\ t.duration = s.duration
      /\ t.hangup_deadline = hd
      /\ t.call = s.call /\ t.end_reason = s.end_reason /\ t.filed = s.filed
      /\ t.started_at = s.started_at /\ t.confirmed_at = s.confirmed_at
      /\ t.answer_deadline = s.answer_deadline
  BY <1>1, <1>2 DEF SessionType
<1>7. Life(t)     BY <1>6 DEF Good, Sound, Life
<1>8. Clip(t)     BY <1>3, <1>4, <1>6 DEF Good, Sound, Clip, Transmitting
<1>9. Answer(t)   BY <1>6 DEF Good, Sound, Answer
<1>10. Bounded(t) /\ Honest(s, t)
  BY <1>6, SameCallIsBounded DEF Good, SameCall, Bounded
<1>. QED  BY <1>5, <1>7, <1>8, <1>9, <1>10 DEF Good, Sound, t

(***************************************************************************)
(* Timers and the clock.                                                   *)
(***************************************************************************)
LEMMA NotDueIsOnTime ==
    ASSUME NEW s, Sound(s), now \in Nat,
           ~Unanswered(s), ~PlayedOut(s), ~OverCap(s)
    PROVE  OnTime(s)
<1>1. /\ s \in SessionType /\ s.started_at \in Nat
      /\ s.answer_deadline \in Nat /\ s.hangup_deadline \in Int
      /\ AnswerTimeout \in Nat /\ MaxCall \in Nat
  BY ConstantsAssumption DEF Sound, SessionType
<1>2. now - s.started_at <= MaxCall
  BY <1>1 DEF OverCap
<1>3. ASSUME s.call = "active", s.confirmed_at = 0
      PROVE  now - s.started_at < AnswerTimeout
  <2>1. s.answer_deadline # 0 /\ s.answer_deadline = s.started_at + AnswerTimeout
    BY <1>3 DEF Sound, Answer
  <2>. QED  BY <1>1, <2>1 DEF Unanswered
<1>4. ASSUME Transmitting(s)
      PROVE  now < s.hangup_deadline
  <2>1. s.hangup_deadline # 0 /\ ~s.paused
    BY <1>4 DEF Sound, Clip, Transmitting
  <2>. QED  BY <1>1, <2>1 DEF PlayedOut
<1>. QED  BY <1>2, <1>3, <1>4 DEF OnTime

\* What one iteration of _service_timers leaves is good and on time.
LEMMA ServicedGood ==
    ASSUME NEW s, Good(s), s.call # "none", now \in Nat, now >= 1,
           NEW t \in Serviced(s)
    PROVE  Good(t) /\ OnTime(t) /\ Honest(s, t)
<1>1. CASE Unanswered(s)
  <2>1. t \in Teardown(s, "answer_timeout")
    BY <1>1 DEF Serviced
  <2>2. "answer_timeout" \in EndReasons \ {""}
    BY DEF EndReasons
  <2>3. Sound(t) /\ TornDown(s, t, "answer_timeout")
    BY <2>1, <2>2, TeardownSound DEF Good, TornDown
  <2>. QED  BY <2>3, TornDownIsBounded DEF Good
<1>2. CASE ~Unanswered(s)
  <2>1. PICK r \in DuePlayback(s) : t \in CheckDeadlines(r)
    BY <1>2 DEF Serviced
  <2>2. \/ r = s
        \/ /\ ~s.playback_started
           /\ r \in StartPlayback(s)
    BY <2>1 DEF DuePlayback
  <2>3. Good(r) /\ Honest(s, r)
    <3>1. CASE r = s
      BY <3>1 DEF Honest
    <3>2. CASE r \in StartPlayback(s)
      BY <3>2, StartPlaybackGood DEF Good
    <3>. QED  BY <2>2, <3>1, <3>2
  <2>4. \/ r.end_reason = s.end_reason /\ ~Unanswered(r)
        \/ TornDown(s, r, "playback_failed")
    <3>1. CASE r = s
      BY <1>2, <3>1
    <3>2. CASE r \in StartPlayback(s)
      <4>1. CASE r = StartedPlayback(s)
        <5>1. SameCall(s, r)
          BY <4>1, StartedPlaybackSound DEF Good
        <5>2. r.answer_deadline = s.answer_deadline
          BY <4>1 DEF StartedPlayback, Publish, Good, Sound, SessionType
        <5>. QED  BY <1>2, <5>1, <5>2 DEF SameCall, Unanswered
      <4>. QED  BY <3>2, <4>1, StartPlaybackSound DEF Good
    <3>. QED  BY <2>2, <3>1, <3>2
  <2>5. CASE PlayedOut(r)
    <3>1. t \in Teardown(r, "playback_complete")
      BY <2>1, <2>5 DEF CheckDeadlines
    <3>2. "playback_complete" \in EndReasons \ {""}
      BY DEF EndReasons
    <3>3. Sound(t) /\ TornDown(r, t, "playback_complete")
      BY <2>3, <3>1, <3>2, TeardownSound DEF Good, TornDown
    <3>4. Good(t) /\ OnTime(t)
      BY <3>3, TornDownIsBounded DEF Good
    <3>5. Honest(s, t)
      <4>. SUFFICES ASSUME t.end_reason = "playback_complete",
                           s.end_reason # "playback_complete"
                    PROVE  s.heard >= s.duration
        BY DEF Honest
      <4>1. r.end_reason = ""
        BY <2>3, <2>4, <3>3 DEF TornDown, FirstReason
      <4>2. r.end_reason = s.end_reason
        BY <2>4, <4>1 DEF TornDown, FirstReason
      <4>3. Transmitting(r)
        BY <2>3, <2>5, <4>1 DEF Good, Sound, Clip, PlayedOut
      <4>4. r.heard >= r.duration
        <5>1. /\ r.heard = now - r.playback_origin
              /\ r.playback_origin + r.duration <= r.hangup_deadline
          BY <2>3, <4>3 DEF Good, Sound, Clip, Transmitting
        <5>2. /\ r.playback_origin \in Int /\ r.duration \in Nat
              /\ r.hangup_deadline \in Int
          BY <2>3 DEF Good, Sound, SessionType
        <5>3. r.hangup_deadline <= now
          BY <2>5, <5>2 DEF PlayedOut
        <5>. QED  BY <5>1, <5>2, <5>3
      <4>5. CASE r = s
        BY <4>4, <4>5
      <4>6. CASE r = StartedPlayback(s)
        <5>1. r.heard = 0 /\ r.duration = s.duration
          BY <4>6, StartedPlaybackSound DEF Good
        <5>2. s.heard \in Nat /\ s.duration \in Nat
          BY DEF Good, Sound, SessionType
        <5>. QED  BY <4>4, <5>1, <5>2
      <4>7. CASE TornDown(s, r, "playback_failed")
        BY <4>1, <4>7 DEF TornDown, FirstReason
      <4>. QED  BY <2>2, <4>5, <4>6, <4>7, StartPlaybackSound DEF Good
    <3>. QED  BY <3>4, <3>5
  <2>6. CASE ~PlayedOut(r) /\ OverCap(r)
    <3>1. t \in Teardown(r, "max_duration")
      BY <2>1, <2>6 DEF CheckDeadlines
    <3>2. "max_duration" \in EndReasons \ {""}
      BY DEF EndReasons
    <3>3. Sound(t) /\ TornDown(r, t, "max_duration")
      BY <2>3, <3>1, <3>2, TeardownSound DEF Good, TornDown
    <3>4. Good(t) /\ OnTime(t)
      BY <3>3, TornDownIsBounded DEF Good
    <3>5. Honest(s, t)
      BY <2>3, <3>3 DEF TornDown, FirstReason, Honest
    <3>. QED  BY <3>4, <3>5
  <2>7. CASE ~PlayedOut(r) /\ ~OverCap(r)
    <3>1. t = r
      BY <2>1, <2>7 DEF CheckDeadlines
    <3>2. CASE ~Unanswered(r)
      BY <2>3, <2>7, <3>1, <3>2, NotDueIsOnTime DEF Good
    <3>3. CASE TornDown(s, r, "playback_failed")
      BY <2>3, <3>1, <3>3, TornDownIsBounded
    <3>. QED  BY <2>4, <3>2, <3>3
  <2>. QED  BY <2>5, <2>6, <2>7
<1>. QED  BY <1>1, <1>2

\* One more pump: the clock moves, and so does what every player has sent.
LEMMA HeardGood ==
    ASSUME NEW CONSTANT s, Good(s), OnTime(s), now \in Nat, now < MaxTime,
           now' = now + 1, NEW CONSTANT t, t = Heard(s)
    PROVE  Good(t)' /\ Honest(s, t)
<1>. DEFINE heard == IF Transmitting(s) THEN s.heard + 1 ELSE s.heard
<1>1. /\ s \in SessionType /\ s.heard \in Nat /\ s.played \in Int
      /\ s.playback_origin \in Int /\ s.duration \in Nat
      /\ s.hangup_deadline \in Int /\ s.started_at \in Nat
      /\ Tail \in Nat /\ MaxCall \in Nat /\ AnswerTimeout \in Nat
  BY ConstantsAssumption DEF Good, Sound, SessionType
<1>2. heard \in Nat
  BY <1>1
<1>3. t = [s EXCEPT !.heard = heard]
  BY <1>1 DEF Heard, SessionType
<1>4. /\ Transmitting(s) => heard = s.heard + 1
      /\ ~Transmitting(s) => heard = s.heard
  OBVIOUS
<1>. HIDE DEF heard
<1>5. t \in SessionType
  BY <1>1, <1>2, <1>3 DEF SessionType
<1>6. /\ t.player = s.player /\ t.paused = s.paused /\ t.state = s.state
      /\ t.playback_started = s.playback_started
      /\ t.playback_origin = s.playback_origin /\ t.played = s.played
      /\ t.heard = heard /\ t.duration = s.duration
      /\ t.hangup_deadline = s.hangup_deadline
      /\ t.call = s.call /\ t.end_reason = s.end_reason /\ t.filed = s.filed
      /\ t.started_at = s.started_at /\ t.confirmed_at = s.confirmed_at
      /\ t.answer_deadline = s.answer_deadline
  BY <1>1, <1>3 DEF SessionType
<1>7. Life(t)
  BY <1>6 DEF Good, Sound, Life
<1>8. Clip(t)'
  <2>1. CASE Transmitting(s)
    <3>1. /\ s.playback_started /\ s.call # "none"
          /\ s.heard = now - s.playback_origin
          /\ s.player /\ ~s.paused
      BY <2>1 DEF Good, Sound, Clip, Transmitting
    <3>2. heard = (now + 1) - s.playback_origin
      BY <1>1, <1>4, <2>1, <3>1
    <3>3. /\ s.playback_origin >= 1 /\ s.hangup_deadline # 0
          /\ s.playback_origin + s.duration <= s.hangup_deadline
          /\ s.hangup_deadline <= s.playback_origin + s.duration + Tail
      BY <2>1 DEF Good, Sound, Clip
    <3>. QED  BY <1>6, <3>1, <3>2, <3>3 DEF Clip, Transmitting
  <2>2. CASE ~Transmitting(s)
    <3>1. CASE s.player
      <4>1. /\ s.paused /\ s.playback_started /\ s.call # "none"
            /\ s.heard = s.played /\ s.hangup_deadline = 0 /\ s.played < now
        BY <2>2, <3>1 DEF Good, Sound, Clip, Transmitting
      <4>2. s.played < now + 1
        BY <1>1, <4>1
      <4>. QED  BY <1>4, <1>6, <2>2, <4>1, <4>2 DEF Clip, Transmitting
    <3>2. CASE ~s.player
      BY <1>6, <3>2 DEF Good, Sound, Clip, Transmitting
    <3>. QED  BY <3>1, <3>2
  <2>. QED  BY <2>1, <2>2
<1>9. Answer(t)
  BY <1>6 DEF Good, Sound, Answer
<1>10. Bounded(t)'
  <2>1. ASSUME s.call = "active"
        PROVE  (now + 1) - s.started_at <= MaxCall + 1
    BY <1>1, <2>1 DEF OnTime
  <2>2. ASSUME s.call = "active", s.confirmed_at = 0
        PROVE  (now + 1) - s.started_at <= AnswerTimeout
    BY <1>1, <2>2 DEF OnTime
  <2>3. ASSUME s.player
        PROVE  heard <= s.duration + Tail
    <3>1. CASE Transmitting(s)
      <4>1. /\ s.heard = now - s.playback_origin
            /\ s.hangup_deadline <= s.playback_origin + s.duration + Tail
            /\ now < s.hangup_deadline
        BY <3>1 DEF Good, Sound, Clip, OnTime, Transmitting
      <4>. QED  BY <1>1, <1>4, <3>1, <4>1
    <3>2. CASE ~Transmitting(s)
      BY <1>4, <2>3, <3>2 DEF Good, Bounded
    <3>. QED  BY <3>1, <3>2
  <2>. QED  BY <1>6, <2>1, <2>2, <2>3 DEF Bounded
<1>11. Honest(s, t)
  BY <1>6 DEF Honest
<1>. QED  BY <1>5, <1>7, <1>8, <1>9, <1>10, <1>11 DEF Good, Sound

(***************************************************************************)
(* Steps.                                                                  *)
(***************************************************************************)

\* A handler that leaves every session it may leave good keeps all of them
\* good.
LEMMA BecomesGood ==
    ASSUME IInv, now' = now, NEW c \in CallIds, NEW results,
           Becomes(c, results),
           \A t \in results : Good(t) /\ Honest(session[c], t)
    PROVE  /\ session' \in [CallIds -> SessionType]
           /\ \A d \in CallIds : Good(session[d])'
           /\ \A d \in CallIds : Honest(session[d], session'[d])
           /\ session'[c] \in results
           /\ \A d \in CallIds \ {c} : session'[d] = session[d]
<1>1. PICK t \in results : session' = [session EXCEPT ![c] = t]
  BY DEF Becomes
<1>2. Good(t) /\ Honest(session[c], t) /\ t \in SessionType
  BY <1>1 DEF Good, Sound
<1>3. session \in [CallIds -> SessionType]
  BY DEF IInv
<1>4. session'[c] = t /\ \A d \in CallIds \ {c} : session'[d] = session[d]
  BY <1>1, <1>3
<1>5. session' \in [CallIds -> SessionType]
  BY <1>1, <1>2, <1>3
<1>6. ASSUME NEW d \in CallIds
      PROVE  Good(session[d])' /\ Honest(session[d], session'[d])
  <2>1. Good(session'[d]) /\ Honest(session[d], session'[d])
    <3>1. CASE d = c
      BY <1>2, <1>4, <3>1
    <3>2. CASE d # c
      BY <1>4, <3>2 DEF IInv, Honest
    <3>. QED  BY <3>1, <3>2
  <2>. QED
    BY <2>1 DEF Good, Sound, Life, Clip, Answer, Bounded, Transmitting
<1>. QED  BY <1>4, <1>5, <1>6

LEMMA SameSessions ==
    ASSUME IInv, UNCHANGED <<now, session>>
    PROVE  /\ session' \in [CallIds -> SessionType]
           /\ \A d \in CallIds : Good(session[d])'
           /\ \A d \in CallIds : Honest(session[d], session'[d])
BY DEF IInv, Good, Sound, Life, Clip, Answer, Bounded, Transmitting, Honest

LEMMA TeardownGood ==
    ASSUME NEW s, Good(s), NEW reason \in EndReasons \ {""},
           reason # "playback_complete", NEW t \in Teardown(s, reason)
    PROVE  Good(t) /\ Honest(s, t)
<1>1. Sound(t) /\ TornDown(s, t, reason)
  BY TeardownSound DEF Good, TornDown
<1>. QED  BY <1>1, TornDownIsBounded DEF Good

LEMMA FinishGood ==
    ASSUME NEW s, Good(s), s.call # "none"
    PROVE  LET t == Finish(s, "disconnected") IN Good(t) /\ Honest(s, t)
<1>. DEFINE t == Finish(s, "disconnected")
<1>1. s \in SessionType /\ s.filed = 0
  BY DEF Good, Sound, Life
<1>2. "disconnected" \in EndReasons \ {""}
  BY DEF EndReasons
<1>3. Sound(t) /\ TornDown(s, t, "disconnected")
  BY <1>1, <1>2, FinishSound DEF TornDown
<1>. QED  BY <1>3, TornDownIsBounded DEF Good

\* Every session stays good, and honest, over a step.
Sessions ==
    /\ session' \in [CallIds -> SessionType]
    /\ \A d \in CallIds : Good(session[d])'
    /\ \A d \in CallIds : Honest(session[d], session'[d])

\* The callbacks, commands and loop steps that leave one session changed.
LEMMA CallBacksKeep ==
    ASSUME IInv, NEW c \in CallIds,
           \/ OnEarly(c) \/ OnConfirmed(c) \/ OnDisconnected(c)
           \/ OnMediaActive(c) \/ OnEof(c)
    PROVE  Sessions
<1>1. /\ CallBack(c) /\ now' = now /\ session[c].call # "none"
      /\ Good(session[c]) /\ now \in Nat /\ now >= 1
  BY DEF CallBack, InFlight, OnEarly, OnConfirmed, OnDisconnected,
         OnMediaActive, OnEof, IInv
<1>2. CASE OnEarly(c)
  BY <1>1, <1>2, EarlyGood, BecomesGood DEF OnEarly, Sessions
<1>3. CASE OnConfirmed(c)
  <2>. DEFINE s == session[c]
              t == Publish([s EXCEPT !.state = "confirmed",
                                     !.confirmed_at = now,
                                     !.answer_deadline = 0,
                                     !.playback_deadline = now + s.lead_in],
                           "confirmed")
  <2>1. Becomes(c, {t})
    BY <1>3 DEF OnConfirmed
  <2>2. Good(t) /\ Honest(s, t)
    BY <1>1, ConfirmedGood
  <2>. HIDE DEF t
  <2>. QED  BY <1>1, <2>1, <2>2, BecomesGood DEF Sessions
<1>4. CASE OnDisconnected(c)
  BY <1>1, <1>4, FinishGood, BecomesGood DEF OnDisconnected, Sessions
<1>5. CASE OnMediaActive(c)
  BY <1>1, <1>5, MediaActiveGood, BecomesGood DEF OnMediaActive, Sessions
<1>6. CASE OnEof(c)
  <2>. DEFINE s == session[c]
              t == [s EXCEPT !.hangup_deadline =
                       IF @ = 0 \/ now + Tail < @ THEN now + Tail ELSE @]
  <2>1. /\ Becomes(c, {t}) /\ Transmitting(s)
        /\ s.heard + EofSlack >= s.duration
    BY <1>6 DEF OnEof
  <2>2. Good(t) /\ Honest(s, t)
    BY <1>1, <2>1, EofGood
  <2>. HIDE DEF t
  <2>. QED  BY <1>1, <2>1, <2>2, BecomesGood DEF Sessions
<1>. QED  BY <1>2, <1>3, <1>4, <1>5, <1>6

LEMMA PlaceCallKeeps ==
    ASSUME IInv, NEW c \in CallIds, NEW target \in Targets,
           NEW d \in Durations, NEW l \in LeadIns,
           PlaceCall(c, target, d, l)
    PROVE  Sessions
<1>1. now' = now /\ now \in Nat /\ now >= 1 /\ d \in Nat /\ l \in Nat
  BY ConstantsAssumption DEF IInv, Command, PlaceCall
<1>2. \A t \in PlacedCall(target, d, l) : Good(t) /\ Honest(session[c], t)
  BY <1>1, PlacedCallGood DEF Honest
<1>3. Becomes(c, PlacedCall(target, d, l))
  BY DEF PlaceCall
<1>. QED  BY <1>1, <1>2, <1>3, BecomesGood DEF Sessions

LEMMA HangupKeeps ==
    ASSUME IInv, NEW c \in CallIds, Hangup(c)
    PROVE  Sessions
<1>1. now' = now /\ Good(session[c])
  BY DEF IInv, Command, Hangup
<1>2. "requested" \in EndReasons \ {""}
  BY DEF EndReasons
<1>3. \A t \in Teardown(session[c], "requested") :
         Good(t) /\ Honest(session[c], t)
  BY <1>1, <1>2, TeardownGood
<1>4. Becomes(c, Teardown(session[c], "requested"))
  BY DEF Hangup
<1>. QED  BY <1>1, <1>3, <1>4, BecomesGood DEF Sessions

LEMMA ReplaceMediaKeeps ==
    ASSUME IInv, NEW c \in CallIds, NEW d \in Durations, ReplaceMedia(c, d)
    PROVE  Sessions
<1>1. /\ now' = now /\ now \in Nat /\ now >= 1 /\ d \in Nat
      /\ Good(session[c]) /\ session[c].call # "none"
  BY ConstantsAssumption DEF IInv, Command, ReplaceMedia, InFlight
<1>2. \A t \in ReplacedMedia(session[c], d) :
         Good(t) /\ Honest(session[c], t)
  BY <1>1, ReplacedMediaGood
<1>3. Becomes(c, ReplacedMedia(session[c], d))
  BY DEF ReplaceMedia
<1>. QED  BY <1>1, <1>2, <1>3, BecomesGood DEF Sessions

LEMMA SetPausedKeeps ==
    ASSUME IInv, NEW c \in CallIds, NEW paused \in BOOLEAN,
           SetPaused(c, paused)
    PROVE  Sessions
<1>. DEFINE s == session[c]
<1>1. /\ now' = now /\ Good(s) /\ now \in Nat
      /\ s.player /\ s.paused # paused
  BY DEF IInv, Command, SetPaused
<1>2. s.paused \in BOOLEAN
  BY <1>1 DEF Good, Sound, SessionType
<1>3. CASE paused
  <2>1. Good(Paused(s)) /\ Honest(s, Paused(s))
    BY <1>1, <1>2, <1>3, PausedGood
  <2>2. Becomes(c, {Paused(s)})
    BY <1>3 DEF SetPaused
  <2>. QED  BY <1>1, <2>1, <2>2, BecomesGood DEF Sessions
<1>4. CASE ~paused
  <2>1. Good(Resumed(s)) /\ Honest(s, Resumed(s))
    BY <1>1, <1>2, <1>4, ResumedGood
  <2>2. Becomes(c, {Resumed(s)})
    BY <1>4 DEF SetPaused
  <2>. QED  BY <1>1, <2>1, <2>2, BecomesGood DEF Sessions
<1>. QED  BY <1>3, <1>4

LEMMA PreemptsKeep ==
    ASSUME IInv, NEW c \in CallIds, Preempt(c) \/ ShutDownCall(c)
    PROVE  Sessions
<1>1. now' = now /\ Good(session[c])
  BY DEF IInv, Preempt, ShutDownCall
<1>2. PICK reason \in {"preempted", "shutdown"} :
         Becomes(c, Teardown(session[c], reason))
  BY DEF Preempt, ShutDownCall
<1>3. reason \in EndReasons \ {""} /\ reason # "playback_complete"
  BY DEF EndReasons
<1>4. \A t \in Teardown(session[c], reason) : Good(t) /\ Honest(session[c], t)
  BY <1>1, <1>3, TeardownGood
<1>. QED  BY <1>1, <1>2, <1>4, BecomesGood DEF Sessions

\* Visiting a session of the timers' loop leaves it on time, and leaves those
\* visited before as they were.
LEMMA ServiceTimersKeeps ==
    ASSUME IInv, NEW c \in CallIds, ServiceTimers(c)
    PROVE  /\ Sessions
           /\ \A d \in CallIds \ todo' : OnTime(session[d])'
           /\ \A d \in todo' : session'[d].call # "none"
<1>1. /\ now' = now /\ Good(session[c]) /\ now \in Nat /\ now >= 1
      /\ pc = "timers" /\ todo' = todo \ {c} /\ session[c].call # "none"
  BY DEF IInv, ServiceTimers
<1>2. \A t \in Serviced(session[c]) :
         Good(t) /\ OnTime(t) /\ Honest(session[c], t)
  BY <1>1, ServicedGood
<1>3. Becomes(c, Serviced(session[c]))
  BY DEF ServiceTimers
<1>4. /\ Sessions /\ session'[c] \in Serviced(session[c])
      /\ \A d \in CallIds \ {c} : session'[d] = session[d]
  BY <1>1, <1>2, <1>3, BecomesGood DEF Sessions
<1>5. ASSUME NEW d \in CallIds \ todo'
      PROVE  OnTime(session[d])'
  <2>1. OnTime(session'[d])
    <3>1. CASE d = c
      BY <1>2, <1>4, <3>1
    <3>2. CASE d # c
      BY <1>1, <1>4, <3>2 DEF IInv
    <3>. QED  BY <3>1, <3>2
  <2>. QED  BY <1>1, <2>1 DEF OnTime, Transmitting
<1>6. ASSUME NEW d \in todo'
      PROVE  session'[d].call # "none"
  BY <1>1, <1>4 DEF IInv
<1>. QED  BY <1>4, <1>5, <1>6

LEMMA PumpKeeps ==
    ASSUME IInv, Pump
    PROVE  Sessions
<1>1. /\ pc = "timers" /\ todo = {} /\ now \in Nat
      /\ session' = [c \in CallIds |-> Heard(session[c])]
      /\ session \in [CallIds -> SessionType]
      /\ now' = IF now < MaxTime THEN now + 1 ELSE now
  BY DEF IInv, Pump
<1>2. ASSUME NEW c \in CallIds
      PROVE  Good(session[c])' /\ Honest(session[c], session'[c])
  <2>1. Good(session[c]) /\ OnTime(session[c])
    BY <1>1 DEF IInv
  <2>2. session'[c] = Heard(session[c])
    BY <1>1
  <2>3. CASE now < MaxTime
    <3>1. now' = now + 1
      BY <1>1, <2>3
    <3>2. PICK s : s = session[c]
      OBVIOUS
    <3>3. PICK t : t = Heard(s)
      OBVIOUS
    <3>4. Good(t)' /\ Honest(s, t)
      BY <1>1, <2>1, <2>3, <3>1, <3>2, <3>3, HeardGood
    <3>5. t = session'[c]
      BY <2>2, <3>2, <3>3
    <3>. QED
      BY <3>2, <3>4, <3>5 DEF Good, Sound, Life, Clip, Answer, Bounded, Transmitting
  <2>4. CASE ~(now < MaxTime)
    <3>1. now' = now
      BY <1>1, <2>4
    <3>2. session'[c] = session[c]
      <4>1. session[c] \in SessionType
        BY <2>1 DEF Good, Sound
      <4>2. Heard(session[c]) = [session[c] EXCEPT !.heard = session[c].heard]
        BY <2>4 DEF Heard
      <4>. QED  BY <2>2, <4>1, <4>2 DEF SessionType
    <3>. QED
      BY <2>1, <3>1, <3>2
         DEF Good, Sound, Life, Clip, Answer, Bounded, Transmitting, Honest
  <2>. QED  BY <2>3, <2>4
<1>3. session' \in [CallIds -> SessionType]
  BY <1>1, <1>2 DEF Good, Sound
<1>. QED  BY <1>2, <1>3 DEF Sessions

(***************************************************************************)
(* The invariant.                                                          *)
(***************************************************************************)
LEMMA InitIInv ==
    ASSUME Init
    PROVE  IInv
<1>1. UnusedSession \in SessionType
  <2>1. 0 \in Nat /\ 0 \in Int
    OBVIOUS
  <2>. QED  BY <2>1 DEF UnusedSession, SessionType, EventTypes, EndReasons
<1>2. /\ UnusedSession.call = "none" /\ ~UnusedSession.player
      /\ UnusedSession.state = "unused"
      /\ UnusedSession.hangup_deadline = 0
  BY DEF UnusedSession
<1>3. UnusedSession.filed = 0
  BY DEF UnusedSession
<1>4. UnusedSession.filed # 1
  BY <1>3
<1>5. Life(UnusedSession)
  BY <1>2, <1>3, <1>4 DEF Life
<1>6. Good(UnusedSession)
  BY <1>1, <1>2, <1>5 DEF Good, Sound, Clip, Answer, Bounded, Transmitting
<1>. QED  BY <1>1, <1>6 DEF Init, IInv

LEMMA SessionsKeep ==
    ASSUME IInv, [Next]_vars
    PROVE  Sessions
<1>1. CASE UNCHANGED vars
  BY <1>1, SameSessions DEF vars, Sessions
<1>2. ASSUME NEW c \in CallIds,
             \/ OnEarly(c) \/ OnConfirmed(c) \/ OnDisconnected(c)
             \/ OnMediaActive(c) \/ OnEof(c)
      PROVE  Sessions
  BY <1>2, CallBacksKeep
<1>3. ASSUME NEW c \in CallIds, NEW t \in Targets, NEW d \in Durations,
             NEW l \in LeadIns, PlaceCall(c, t, d, l)
      PROVE  Sessions
  BY <1>3, PlaceCallKeeps
<1>4. ASSUME NEW c \in CallIds, Hangup(c)
      PROVE  Sessions
  BY <1>4, HangupKeeps
<1>5. ASSUME NEW c \in CallIds, NEW d \in Durations, ReplaceMedia(c, d)
      PROVE  Sessions
  BY <1>5, ReplaceMediaKeeps
<1>6. ASSUME NEW c \in CallIds, NEW paused \in BOOLEAN, SetPaused(c, paused)
      PROVE  Sessions
  BY <1>6, SetPausedKeeps
<1>7. ASSUME NEW c \in CallIds, Preempt(c) \/ ShutDownCall(c)
      PROVE  Sessions
  BY <1>7, PreemptsKeep
<1>8. ASSUME NEW c \in CallIds, ServiceTimers(c)
      PROVE  Sessions
  BY <1>8, ServiceTimersKeeps
<1>9. CASE Pump
  BY <1>9, PumpKeeps
<1>10. ASSUME NEW a \in Accounts, NEW registered \in BOOLEAN,
              OnRegState(a, registered)
       PROVE  Sessions
  BY <1>10, SameSessions DEF OnRegState, Sessions
<1>11. ASSUME NEW t \in Targets, HangupTarget(t)
       PROVE  Sessions
  BY <1>11, SameSessions DEF HangupTarget, Command, Sessions
<1>12. CASE EventsHandled \/ CommandsDrained \/ Stop \/ Stopped
  BY <1>12, SameSessions
     DEF EventsHandled, CommandsDrained, Stop, Stopped, Sessions
<1>. QED
  BY <1>1, <1>2, <1>3, <1>4, <1>5, <1>6, <1>7, <1>8, <1>9, <1>10, <1>11, <1>12
     DEF Next

LEMMA NextIInv ==
    ASSUME IInv, [Next]_vars
    PROVE  IInv'
<1>1. Sessions
  BY SessionsKeep
<1>2. /\ now' \in Nat /\ now' >= 1
      /\ pc' \in {"events", "commands", "preempting", "timers", "shutdown",
                 "stopped"}
      /\ todo' \subseteq CallIds
      /\ registration' \in [Accounts -> BOOLEAN]
  <2>. USE DEF IInv
  <2>1. CASE UNCHANGED vars
    BY <2>1 DEF vars
  <2>2. ASSUME NEW c \in CallIds,
               \/ OnEarly(c) \/ OnConfirmed(c) \/ OnDisconnected(c)
               \/ OnMediaActive(c) \/ OnEof(c)
        PROVE  UNCHANGED <<now, pc, todo, registration>>
    BY <2>2 DEF OnEarly, OnConfirmed, OnDisconnected, OnMediaActive, OnEof,
                CallBack
  <2>3. ASSUME NEW c \in CallIds, NEW t \in Targets, NEW d \in Durations,
               NEW l \in LeadIns, PlaceCall(c, t, d, l)
        PROVE  UNCHANGED <<now, pc, todo, registration>>
    BY <2>3 DEF PlaceCall, Command
  <2>4. ASSUME NEW c \in CallIds, Hangup(c)
        PROVE  UNCHANGED <<now, pc, todo, registration>>
    BY <2>4 DEF Hangup, Command
  <2>5. ASSUME NEW c \in CallIds, NEW d \in Durations, ReplaceMedia(c, d)
        PROVE  UNCHANGED <<now, pc, todo, registration>>
    BY <2>5 DEF ReplaceMedia, Command
  <2>6. ASSUME NEW c \in CallIds, NEW paused \in BOOLEAN, SetPaused(c, paused)
        PROVE  UNCHANGED <<now, pc, todo, registration>>
    BY <2>6 DEF SetPaused, Command
  <2>7. ASSUME NEW c \in CallIds,
               Preempt(c) \/ ShutDownCall(c) \/ ServiceTimers(c)
        PROVE  /\ UNCHANGED <<now, registration>> /\ todo' \subseteq todo
               /\ pc' = pc \/ pc' = "commands"
    BY <2>7 DEF Preempt, ShutDownCall, ServiceTimers
  <2>8. CASE Pump
    BY <2>8 DEF Pump
  <2>9. ASSUME NEW a \in Accounts, NEW registered \in BOOLEAN,
               OnRegState(a, registered)
        PROVE  /\ UNCHANGED <<now, pc, todo>>
               /\ registration' \in [Accounts -> BOOLEAN]
    BY <2>9 DEF OnRegState
  <2>10. ASSUME NEW t \in Targets, HangupTarget(t)
         PROVE  /\ UNCHANGED <<now, registration>> /\ todo' \subseteq CallIds
                /\ pc' = "preempting"
    BY <2>10 DEF HangupTarget, Command, InFlight
  <2>11. CASE EventsHandled \/ CommandsDrained \/ Stop \/ Stopped
    BY <2>11 DEF EventsHandled, CommandsDrained, Stop, Stopped, InFlight
  <2>. QED
    BY <2>1, <2>2, <2>3, <2>4, <2>5, <2>6, <2>7, <2>8, <2>9, <2>10, <2>11
       DEF Next
<1>3. ASSUME pc' = "timers"
      PROVE  /\ \A c \in CallIds \ todo' : OnTime(session[c])'
             /\ \A c \in todo' : session'[c].call # "none"
  <2>1. CASE UNCHANGED vars
    BY <1>3, <2>1 DEF vars, IInv, OnTime, Transmitting
  <2>2. CASE CommandsDrained
    <3>1. todo' = InFlight /\ session' = session
      BY <2>2 DEF CommandsDrained
    <3>2. ASSUME NEW c \in CallIds \ todo'
          PROVE  OnTime(session[c])'
      <4>1. session[c].call = "none"
        BY <3>1, <3>2 DEF InFlight
      <4>2. ~session[c].player
        BY <4>1 DEF IInv, Good, Sound, Clip
      <4>. QED  BY <3>1, <4>1, <4>2 DEF OnTime, Transmitting
    <3>. QED  BY <3>1, <3>2 DEF InFlight
  <2>3. ASSUME NEW c \in CallIds, ServiceTimers(c)
        PROVE  /\ \A d \in CallIds \ todo' : OnTime(session[d])'
               /\ \A d \in todo' : session'[d].call # "none"
    BY <2>3, ServiceTimersKeeps
  <2>4. UNCHANGED vars \/ CommandsDrained \/ \E c \in CallIds : ServiceTimers(c)
    BY <1>3 DEF Next, OnRegState, OnEarly, OnConfirmed, OnDisconnected,
                OnMediaActive, OnEof, CallBack, PlaceCall, Hangup, ReplaceMedia,
                SetPaused, HangupTarget, Command, Preempt, EventsHandled, Pump,
                Stop, ShutDownCall, Stopped
  <2>. QED  BY <2>1, <2>2, <2>3, <2>4
<1>. QED  BY <1>1, <1>2, <1>3 DEF IInv, Sessions

(***************************************************************************)
(* Theorems.                                                               *)
(***************************************************************************)

\* The invariant of the loop, from which everything below follows.
THEOREM Invariance == Spec => []IInv
<1>1. Init => IInv
  BY InitIInv
<1>2. IInv /\ [Next]_vars => IInv'
  BY NextIInv
<1>. QED  BY <1>1, <1>2, PTL DEF Spec

\* Every variable of the SIP thread keeps its type, whatever pjsua2 calls
\* back and clients ask.
THEOREM TypeCorrect == Spec => []TypeOK
<1>1. IInv => TypeOK
  BY DEF IInv, TypeOK
<1>. QED  BY <1>1, Invariance, PTL

\* max_call_seconds caps every call, for any cap and any clips: paused,
\* replaced or never answered, it is told to hang up at most one turn of the
\* loop late.
THEOREM CallsAreCapped == Spec => []HardCap
<1>1. IInv => HardCap
  BY DEF IInv, HardCap, Good, Bounded
<1>. QED  BY <1>1, Invariance, PTL

\* No call rings for longer than its answer_timeout.
THEOREM AnswersAreCapped == Spec => []AnswerCap
<1>1. IInv => AnswerCap
  BY DEF IInv, AnswerCap, Good, Bounded
<1>. QED  BY <1>1, Invariance, PTL

\* No player sends for longer than its clip and the tail.
THEOREM PlayersStop == Spec => []NoLinger
<1>1. IInv => NoLinger
  BY DEF IInv, NoLinger, Good, Bounded, Transmitting
<1>. QED  BY <1>1, Invariance, PTL

\* Pauses and resumes, in any number, account for exactly what was sent.
THEOREM PausesAddUp == Spec => []ClipAccounting
<1>1. IInv => ClipAccounting
  BY DEF IInv, ClipAccounting, Good, Sound, Clip
<1>. QED  BY <1>1, Invariance, PTL

\* Every call that ends is filed once, with a reason.
THEOREM EveryEndIsFiled == Spec => []HistoryExplains
<1>1. ASSUME IInv, NEW c \in CallIds
      PROVE  LET s == session[c]
             IN  /\ s.filed = IF s.state = "disconnected" THEN 1 ELSE 0
                 /\ s.filed = 1 => s.call = "none" /\ s.end_reason # ""
                 /\ s.call = "none" =>
                       s.state \in {"unused", "new", "disconnected"}
  <2>. DEFINE s == session[c]
  <2>1. Life(s)
    BY <1>1 DEF IInv, Good, Sound
  <2>2. s.filed = 1 => s.state = "disconnected"
    <3>1. CASE s.state # "disconnected"
      <4>1. s.filed = 0
        BY <2>1, <3>1 DEF Life
      <4>. QED  BY <4>1
    <3>. QED  BY <3>1
  <2>. QED  BY <2>1, <2>2 DEF Life
<1>2. IInv => HistoryExplains
  BY <1>1 DEF HistoryExplains
<1>. QED  BY <1>2, Invariance, PTL

\* A call is completed only when its clip was heard to the end, in whatever
\* order ends of file, pauses, resumes and replaces come.
THEOREM CompletesWhenHeard == Spec => CompleteOnlyWhenHeard
<1>1. IInv /\ [Next]_vars =>
         [\A c \in CallIds :
             /\ session'[c].end_reason = "playback_complete"
             /\ session[c].end_reason # "playback_complete"
             => session[c].heard >= session[c].duration]_vars
  BY SessionsKeep DEF Sessions, Honest
<1>. QED  BY <1>1, Invariance, PTL DEF Spec, CompleteOnlyWhenHeard
=============================================================================
