------------------------- MODULE CallPromiseProofs -------------------------
(***************************************************************************)
(* SipWorker implements CallPromise, for any number of calls, any clips    *)
(* and any timeouts: every step of the SIP thread is, for each call, a     *)
(* step of its page or none.                                               *)
(*                                                                         *)
(* As in SipWorkerProofs the argument goes session by session: a handler   *)
(* moves a page by a PageStep, and Becomes moves one page at a time.       *)
(***************************************************************************)
EXTENDS SipWorkerProofs

\* The page of s is told to end, or has ended.
Condemned(s, t) ==
    /\ Stage(t) \in {Stage(s), "over"}
    /\ ~t.player
    /\ t.end_reason \in EndReasons \ {""}
    /\ s.end_reason # "" => t.end_reason = s.end_reason

\* The clip of s starts, stops, pauses or goes on.
Heeded(s, t) ==
    /\ Stage(t) = Stage(s) /\ t.end_reason = s.end_reason
    /\ Audio(t) = "held" => Audio(s) \in {"held", "sounding"}

Placed(s, t) ==
    /\ Stage(s) = "none" /\ Stage(t) \in {"ringing", "over"}
    /\ Audio(t) = Audio(s) /\ t.end_reason = s.end_reason

Answered(s, t) ==
    /\ Stage(s) = "ringing" /\ Stage(t) = "answered"
    /\ Audio(t) = Audio(s) /\ t.end_reason = s.end_reason

\* One step of CallPromise, or none.
PageStep(s, t) ==
    \/ Page(t) = Page(s)
    \/ Placed(s, t) \/ Answered(s, t)
    \/ /\ Stage(s) \in {"ringing", "answered"}
       /\ Heeded(s, t) \/ Condemned(s, t)

\* Whom a loop of the code has still to visit is in flight.
TodoInFlight ==
    pc \in {"timers", "preempting", "shutdown"} => todo \subseteq InFlight

\* A page that was not placed yet has no reason to end.
UnplacedIsBlank ==
    \A c \in CallIds : Pages[c].stage = "none" => Pages[c].cause = ""

(***************************************************************************)
(* A PageStep is a step of the promise.                                    *)
(***************************************************************************)
LEMMA AudioValues ==
    ASSUME NEW s
    PROVE  /\ Audio(s) \in {"silent", "sounding", "held"}
           /\ ~s.player => Audio(s) = "silent"
BY DEF Audio

\* A page that is silent and has a cause.
Silenced(p, cause) == [p EXCEPT !.audio = "silent", !.cause = cause]

LEMMA SilencedRecord ==
    ASSUME NEW p, NEW stage, NEW audio, NEW was, NEW cause,
           p = [stage |-> stage, audio |-> audio, cause |-> was]
    PROVE  Silenced(p, cause)
           = [stage |-> stage, audio |-> "silent", cause |-> cause]
<1>. DEFINE m == [p EXCEPT !.audio = "silent"]
<1>1. m = [stage |-> stage, audio |-> "silent", cause |-> was]
  OBVIOUS
<1>. HIDE DEF m
<1>2. [m EXCEPT !.cause = cause]
      = [stage |-> stage, audio |-> "silent", cause |-> cause]
  BY <1>1
<1>. QED  BY <1>2 DEF m, Silenced

LEMMA PageStepKeepsPromise ==
    ASSUME NEW c \in CallIds, NEW t,
           session \in [CallIds -> SessionType],
           session' = [session EXCEPT ![c] = t],
           PageStep(session[c], t)
    PROVE  [Promise!Next]_Pages
<1>. DEFINE s == session[c]
            p == Page(s)
            q == Page(t)
<1>1. Pages' = [Pages EXCEPT ![c] = q] /\ Pages[c] = p
  <2>1. Pages' = [d \in CallIds |-> Page(session'[d])]
    BY DEF Pages, Page, Stage, Audio
  <2>2. \A d \in CallIds : session'[d] = IF d = c THEN t ELSE session[d]
    OBVIOUS
  <2>. QED  BY <2>1, <2>2 DEF Pages
<1>2. /\ p = [stage |-> Stage(s), audio |-> Audio(s), cause |-> s.end_reason]
      /\ q = [stage |-> Stage(t), audio |-> Audio(t), cause |-> t.end_reason]
  BY DEF Page
<1>. HIDE DEF p, q
<1>3. CASE q = p
  <2>1. Pages' = Pages
    BY <1>1, <1>3 DEF Pages
  <2>. QED  BY <2>1
<1>4. CASE Placed(s, t)
  <2>1. \/ q = [p EXCEPT !.stage = "ringing"]
        \/ q = [p EXCEPT !.stage = "over"]
    BY <1>2, <1>4 DEF Placed
  <2>2. p.stage = "none"
    BY <1>2, <1>4 DEF Placed
  <2>3. Promise!Place(c) \/ Promise!Refuse(c)
    BY <1>1, <2>1, <2>2 DEF Promise!Place, Promise!Refuse, Promise!Step
  <2>. QED  BY <2>3 DEF Promise!Next
<1>5. CASE Answered(s, t)
  <2>1. q = [p EXCEPT !.stage = "answered"] /\ p.stage = "ringing"
    BY <1>2, <1>5 DEF Answered
  <2>2. Promise!Answer(c)
    BY <1>1, <2>1 DEF Promise!Answer, Promise!Step
  <2>. QED  BY <2>2 DEF Promise!Next
<1>6. CASE Stage(s) \in {"ringing", "answered"} /\ Heeded(s, t)
  <2>1. p.stage \in {"ringing", "answered"} /\ p.audio = Audio(s)
    BY <1>2, <1>6
  <2>2. q = [p EXCEPT !.audio = Audio(t)]
    BY <1>2, <1>6 DEF Heeded
  <2>3. CASE Audio(t) = "sounding"
    <3>1. Promise!Play(c)
      BY <1>1, <2>1, <2>2, <2>3 DEF Promise!Play, Promise!Step, Promise!Up
    <3>. QED  BY <3>1 DEF Promise!Next
  <2>4. CASE Audio(t) = "silent"
    <3>1. Promise!Silence(c)
      BY <1>1, <2>1, <2>2, <2>4 DEF Promise!Silence, Promise!Step, Promise!Up
    <3>. QED  BY <3>1 DEF Promise!Next
  <2>5. CASE Audio(t) = "held" /\ Audio(s) = "sounding"
    <3>1. Promise!Hold(c)
      BY <1>1, <2>1, <2>2, <2>5 DEF Promise!Hold, Promise!Step, Promise!Up
    <3>. QED  BY <3>1 DEF Promise!Next
  <2>6. CASE Audio(t) = "held" /\ Audio(s) = "held"
    BY <1>2, <1>3, <1>6, <2>6 DEF Heeded
  <2>. QED  BY <1>6, <2>3, <2>4, <2>5, <2>6, AudioValues DEF Heeded
<1>7. CASE Stage(s) \in {"ringing", "answered"} /\ Condemned(s, t)
  <2>. DEFINE cause == t.end_reason
  <2>1. cause \in EndReasons \ {""} /\ p.stage \in {"ringing", "answered"}
    BY <1>2, <1>7 DEF Condemned
  <2>2. Promise!FirstCause(p, cause) = cause
    BY <1>2, <1>7 DEF Promise!FirstCause, Condemned
  <2>3. Stage(t) \in {Stage(s), "over"} /\ Audio(t) = "silent"
    BY <1>7, AudioValues DEF Condemned
  <2>4. \/ q = Silenced(p, cause)
        \/ q = [stage |-> "over", audio |-> "silent", cause |-> cause]
    <3>1. CASE Stage(t) = "over"
      BY <1>2, <2>3, <3>1
    <3>2. CASE Stage(t) = Stage(s)
      <4>1. Silenced(p, cause)
            = [stage |-> Stage(s), audio |-> "silent", cause |-> cause]
        BY <1>2, SilencedRecord
      <4>. QED  BY <1>2, <2>3, <3>2, <4>1
    <3>. QED  BY <2>3, <3>1, <3>2
  <2>. HIDE DEF cause
  <2>5. Promise!Condemn(c, cause) \/ Promise!End(c, cause)
    BY <1>1, <2>1, <2>2, <2>4
       DEF Silenced, Promise!Condemn, Promise!End, Promise!Step, Promise!Up
  <2>. QED  BY <2>1, <2>5 DEF Promise!Next
<1>8. Page(t) = Page(s) => q = p
  BY DEF p, q
<1>. QED  BY <1>3, <1>4, <1>5, <1>6, <1>7, <1>8 DEF PageStep

(***************************************************************************)
(* Handlers.                                                               *)
(***************************************************************************)
LEMMA StageInFlight ==
    ASSUME NEW s, Sound(s), s.call # "none"
    PROVE  /\ Stage(s) = IF s.confirmed_at = 0 THEN "ringing" ELSE "answered"
           /\ Stage(s) \in {"ringing", "answered"}
BY DEF Sound, Life, Stage

\* The same call, with the same answer, is at the same stage.
LEMMA SameCallSameStage ==
    ASSUME NEW s, Sound(s), s.call # "none", NEW t, Sound(t), SameCall(s, t)
    PROVE  Stage(t) = Stage(s) /\ t.end_reason = s.end_reason
<1>1. /\ t.call # "none" /\ t.confirmed_at = s.confirmed_at
      /\ t.end_reason = s.end_reason
  BY DEF SameCall
<1>. QED  BY <1>1, StageInFlight

LEMMA FinishPage ==
    ASSUME NEW s \in SessionType, NEW reason \in EndReasons \ {""},
           s.call # "none", s.filed = 0
    PROVE  /\ Stage(Finish(s, reason)) = "over"
           /\ Condemned(s, Finish(s, reason))
<1>. DEFINE t == Finish(s, reason)
            r == FirstReason(s, reason)
<1>1. t = [s EXCEPT !.player = FALSE, !.event = "disconnected",
                    !.state = "disconnected", !.filed = 1,
                    !.end_reason = r, !.call = "none"]
  BY FinishFields
<1>2. r \in EndReasons \ {""} /\ (s.end_reason # "" => r = s.end_reason)
  BY FirstReasonType DEF FirstReason
<1>. HIDE DEF t, r
<1>3. /\ t.state = "disconnected" /\ t.call = "none"
      /\ ~t.player /\ t.end_reason = r
  BY <1>1 DEF SessionType
<1>4. Stage(t) = "over"
  BY <1>3 DEF Stage
<1>. QED  BY <1>2, <1>3, <1>4 DEF Condemned, t

\* _teardown ends a page or leaves it to DISCONNECTED; it does nothing more
\* to one that has ended.
LEMMA TeardownPage ==
    ASSUME NEW s, Sound(s), NEW reason \in EndReasons \ {""},
           NEW t \in Teardown(s, reason)
    PROVE  /\ s.call # "none" => Condemned(s, t)
           /\ s.call = "none" /\ s.end_reason # "" => Condemned(s, t)
<1>. DEFINE h == Hung(s, reason)
            r == FirstReason(s, reason)
<1>1. s \in SessionType
  BY DEF Sound
<1>2. r \in EndReasons \ {""} /\ (s.end_reason # "" => r = s.end_reason)
  BY <1>1, FirstReasonType DEF FirstReason
<1>3. PICK e \in EventTypes :
         h = [s EXCEPT !.player = FALSE, !.event = e, !.end_reason = r,
                       !.call = s.call]
  BY <1>1, HungFields
<1>4. \/ t = Finish(h, reason)
      \/ s.call # "none" /\ t = [h EXCEPT !.call = "hanging"]
  BY DEF Teardown
<1>5. s.call \in {"none", "active", "hanging"}
  BY <1>1 DEF SessionType
<1>. HIDE DEF h, r
<1>6. /\ h.call = s.call /\ h.filed = s.filed /\ h.end_reason = r
      /\ h.state = s.state /\ h.confirmed_at = s.confirmed_at /\ ~h.player
  BY <1>1, <1>3 DEF SessionType
<1>7. h \in SessionType
  BY <1>1, <1>2, <1>3, <1>5, HungType
<1>8. Stage(h) = Stage(s)
  BY <1>6 DEF Stage
<1>9. Condemned(s, h)
  BY <1>2, <1>6, <1>8 DEF Condemned
<1>10. CASE s.call = "none"
  <2>1. t = h
    BY <1>4, <1>6, <1>10 DEF Finish
  <2>. QED  BY <1>9, <2>1
<1>11. CASE s.call # "none" /\ t = [h EXCEPT !.call = "hanging"]
  <2>1. /\ t.call = "hanging" /\ t.state = s.state /\ ~t.player
        /\ t.confirmed_at = s.confirmed_at /\ t.end_reason = r
    BY <1>6, <1>7, <1>11 DEF SessionType
  <2>2. s.state # "unused"
    BY <1>11 DEF Sound, Life
  <2>3. Stage(t) = Stage(s)
    BY <1>11, <2>1, <2>2 DEF Stage
  <2>. QED  BY <1>2, <2>1, <2>3 DEF Condemned
<1>12. CASE s.call # "none" /\ t = Finish(h, reason)
  <2>1. h.call # "none" /\ h.filed = 0
    BY <1>6, <1>12 DEF Sound, Life
  <2>2. Stage(t) = "over" /\ Condemned(h, t)
    BY <1>7, <1>12, <2>1, FinishPage
  <2>. QED  BY <1>9, <2>2 DEF Condemned
<1>. QED  BY <1>4, <1>10, <1>11, <1>12

LEMMA CondemnedFromTheSame ==
    ASSUME NEW s, NEW p, NEW t, Stage(p) = Stage(s), p.end_reason = s.end_reason,
           Condemned(p, t)
    PROVE  Condemned(s, t)
BY DEF Condemned

\* A clip starts, or the page is condemned.
LEMMA StartPlaybackPage ==
    ASSUME NEW s, Sound(s), s.call # "none", now \in Nat, now >= 1,
           NEW t \in StartPlayback(s)
    PROVE  /\ Sound(t)
           /\ \/ Condemned(s, t)
              \/ SameCall(s, t) /\ Heeded(s, t) /\ Transmitting(t)
<1>1. CASE t = StartedPlayback(s)
  <2>1. Sound(t) /\ SameCall(s, t) /\ Transmitting(t)
    BY <1>1, StartedPlaybackSound
  <2>2. Stage(t) = Stage(s) /\ t.end_reason = s.end_reason
    BY <2>1, SameCallSameStage
  <2>3. Audio(t) = "sounding"
    BY <2>1 DEF Audio, Transmitting
  <2>. QED  BY <2>1, <2>2, <2>3 DEF Heeded
<1>2. CASE t \in PlaybackFailed(s)
  <2>. DEFINE p == Publish(s, "disconnected")
  <2>1. Sound(p) /\ SameCall(s, p)
    BY PublishSound DEF EventTypes
  <2>2. Stage(p) = Stage(s) /\ p.end_reason = s.end_reason /\ p.call # "none"
    BY <2>1, SameCallSameStage DEF SameCall
  <2>3. t \in Teardown(p, "playback_failed") /\ "playback_failed" \in EndReasons \ {""}
    BY <1>2 DEF PlaybackFailed, EndReasons
  <2>. HIDE DEF p
  <2>4. Sound(t) /\ Condemned(p, t)
    BY <2>1, <2>2, <2>3, TeardownSound, TeardownPage
  <2>. QED  BY <2>2, <2>4, CondemnedFromTheSame
<1>. QED  BY <1>1, <1>2 DEF StartPlayback

LEMMA ReplacedMediaPage ==
    ASSUME NEW s, Good(s), s.call # "none", NEW d \in Nat,
           now \in Nat, now >= 1, NEW t \in ReplacedMedia(s, d)
    PROVE  PageStep(s, t)
<1>. DEFINE r == WithNewClip(s, d)
<1>1. Sound(r) /\ SameCall(s, r) /\ ~r.player
  BY WithNewClipSound DEF Good
<1>2. Stage(r) = Stage(s) /\ r.end_reason = s.end_reason /\ r.call # "none"
  BY <1>1, SameCallSameStage DEF Good, SameCall
<1>3. Stage(s) \in {"ringing", "answered"}
  BY StageInFlight DEF Good
<1>4. \/ t \in StartPlayback(r)
      \/ t = [r EXCEPT !.playback_deadline =
                 IF r.playback_deadline = 0 THEN now + s.lead_in
                 ELSE r.playback_deadline]
  BY DEF ReplacedMedia
<1>. HIDE DEF r
<1>5. CASE t \in StartPlayback(r)
  <2>1. Condemned(r, t) \/ (Heeded(r, t) /\ Transmitting(t))
    BY <1>1, <1>2, <1>5, StartPlaybackPage
  <2>2. Transmitting(t) => Audio(t) = "sounding"
    BY DEF Transmitting, Audio
  <2>3. Condemned(s, t) \/ Heeded(s, t)
    BY <1>2, <2>1, <2>2 DEF Condemned, Heeded
  <2>. QED  BY <1>3, <2>3 DEF PageStep
<1>6. CASE t = [r EXCEPT !.playback_deadline =
                   IF r.playback_deadline = 0 THEN now + s.lead_in
                   ELSE r.playback_deadline]
  <2>1. r \in SessionType
    BY <1>1 DEF Sound
  <2>2. /\ t.call = r.call /\ t.state = r.state /\ t.player = r.player
        /\ t.confirmed_at = r.confirmed_at /\ t.end_reason = r.end_reason
    BY <1>6, <2>1 DEF SessionType
  <2>3. Stage(t) = Stage(r)
    BY <2>2 DEF Stage
  <2>4. Audio(t) = "silent"
    BY <1>1, <2>2, AudioValues
  <2>5. Heeded(s, t)
    BY <1>2, <2>2, <2>3, <2>4 DEF Heeded
  <2>. QED  BY <1>3, <2>5 DEF PageStep
<1>. QED  BY <1>4, <1>5, <1>6

LEMMA PausedPage ==
    ASSUME NEW s, Good(s), now \in Nat, s.player, NEW t,
           t = Paused(s) \/ t = Resumed(s), t = Paused(s) => ~s.paused
    PROVE  PageStep(s, t)
<1>1. s \in SessionType /\ s.call # "none"
  BY DEF Good, Sound, Clip
<1>2. /\ t.call = s.call /\ t.state = s.state /\ t.player = s.player
      /\ t.confirmed_at = s.confirmed_at /\ t.end_reason = s.end_reason
      /\ t = Resumed(s) => ~t.paused
  <2>1. CASE t = Paused(s)
    BY <1>1, <2>1 DEF Paused, Resumed, Publish, SessionType
  <2>2. CASE t = Resumed(s)
    BY <1>1, <2>2 DEF Resumed, Publish, SessionType
  <2>. QED  BY <2>1, <2>2
<1>3. Stage(t) = Stage(s) /\ Stage(s) \in {"ringing", "answered"}
  BY <1>1, <1>2, StageInFlight DEF Stage, Good
<1>4. Audio(t) = "held" => Audio(s) = "sounding"
  BY <1>2 DEF Audio
<1>. QED  BY <1>2, <1>3, <1>4 DEF Heeded, PageStep

LEMMA Stages ==
    ASSUME NEW s
    PROVE  /\ s.state = "unused" /\ s.call = "none" => Stage(s) = "none"
           /\ s.state # "unused" /\ s.call = "none" => Stage(s) = "over"
           /\ s.state # "unused" /\ s.call # "none" /\ s.confirmed_at = 0
                 => Stage(s) = "ringing"
<1>1. s.state = "unused" /\ s.call = "none" => Stage(s) = "none"
  BY DEF Stage
<1>2. s.state # "unused" /\ s.call = "none" => Stage(s) = "over"
  BY DEF Stage
<1>3. s.state # "unused" /\ s.call # "none" /\ s.confirmed_at = 0
         => Stage(s) = "ringing"
  BY DEF Stage
<1>. QED  BY <1>1, <1>2, <1>3

\* makeCall places the page, or raises and it is over.
LEMMA PlacedPage ==
    ASSUME NEW s, s.state = "unused", s.call = "none", s.end_reason = "", ~s.player,
           NEW target, NEW d, NEW l, NEW t \in PlacedCall(target, d, l)
    PROVE  PageStep(s, t)
<1>. DEFINE deadline == now + AnswerTimeout
            r == [UnusedSession EXCEPT !.target = target, !.duration = d,
                                       !.lead_in = l, !.state = "new",
                                       !.started_at = now,
                                       !.answer_deadline = deadline]
<1>1. \/ t = [r EXCEPT !.call = "active", !.event = "calling"]
      \/ t = [r EXCEPT !.call = "none", !.event = "disconnected"]
  BY DEF PlacedCall, Publish
<1>. HIDE DEF deadline
<1>2. t.call = "active" \/ t.call = "none"
  BY <1>1 DEF UnusedSession
<1>3. t.state = "new" /\ ~t.player /\ t.confirmed_at = 0 /\ t.end_reason = ""
  <2>1. CASE t = [r EXCEPT !.call = "active", !.event = "calling"]
    BY <2>1 DEF UnusedSession
  <2>2. CASE t = [r EXCEPT !.call = "none", !.event = "disconnected"]
    BY <2>2 DEF UnusedSession
  <2>. QED  BY <1>1, <2>1, <2>2
<1>4. t.state # "unused" /\ (t.call = "none" \/ t.confirmed_at = 0)
  BY <1>3
<1>5. Stage(s) = "none" /\ Stage(t) \in {"ringing", "over"}
  BY <1>4, Stages
<1>6. Audio(t) = Audio(s) /\ t.end_reason = s.end_reason
  BY <1>3, AudioValues
<1>. QED  BY <1>5, <1>6 DEF PageStep, Placed

LEMMA ServicedPage ==
    ASSUME NEW s, Good(s), s.call # "none", now \in Nat, now >= 1,
           NEW t \in Serviced(s)
    PROVE  PageStep(s, t)
<1>1. Sound(s) /\ Stage(s) \in {"ringing", "answered"}
  BY StageInFlight DEF Good
<1>2. {"answer_timeout", "playback_complete", "max_duration"}
         \subseteq EndReasons \ {""}
  BY DEF EndReasons
<1>3. CASE Unanswered(s)
  <2>1. t \in Teardown(s, "answer_timeout")
    BY <1>3 DEF Serviced
  <2>2. Condemned(s, t)
    BY <1>1, <1>2, <2>1, TeardownPage
  <2>. QED  BY <1>1, <2>2 DEF PageStep
<1>4. CASE ~Unanswered(s)
  <2>1. PICK r \in DuePlayback(s) : t \in CheckDeadlines(r)
    BY <1>4 DEF Serviced
  <2>2. r = s \/ r \in StartPlayback(s)
    BY <2>1 DEF DuePlayback
  <2>3. /\ Sound(r)
        /\ \/ Condemned(s, r)
           \/ r.call # "none" /\ (r = s \/ Heeded(s, r))
    <3>1. CASE r = s
      BY <1>1, <3>1
    <3>2. CASE r \in StartPlayback(s)
      BY <1>1, <3>2, StartPlaybackPage DEF SameCall
    <3>. QED  BY <2>2, <3>1, <3>2
  <2>4. \/ t = r
        \/ \E reason \in {"playback_complete", "max_duration"} :
              t \in Teardown(r, reason)
    BY <2>1 DEF CheckDeadlines
  <2>5. CASE t = r
    BY <1>1, <2>3, <2>5 DEF PageStep
  <2>6. ASSUME NEW reason \in {"playback_complete", "max_duration"},
               t \in Teardown(r, reason)
        PROVE  Condemned(s, t)
    <3>1. r.call # "none" \/ r.end_reason # ""
      BY <2>3 DEF Condemned
    <3>2. Condemned(r, t)
      BY <1>2, <2>3, <2>6, <3>1, TeardownPage
    <3>3. CASE Condemned(s, r)
      BY <3>2, <3>3 DEF Condemned
    <3>4. CASE r = s
      BY <3>2, <3>4
    <3>5. CASE Heeded(s, r)
      BY <3>2, <3>5 DEF Condemned, Heeded
    <3>. QED  BY <2>3, <3>3, <3>4, <3>5
  <2>. QED  BY <1>1, <2>4, <2>5, <2>6 DEF PageStep
<1>. QED  BY <1>3, <1>4

(***************************************************************************)
(* Steps.                                                                  *)
(***************************************************************************)

\* A handler whose every result is a PageStep keeps the promise.
LEMMA BecomesKeepsPromise ==
    ASSUME IInv, NEW c \in CallIds, NEW results, Becomes(c, results),
           \A t \in results : PageStep(session[c], t)
    PROVE  [Promise!Next]_Pages
<1>1. PICK t \in results : session' = [session EXCEPT ![c] = t]
  BY DEF Becomes
<1>. QED  BY <1>1, PageStepKeepsPromise DEF IInv

\* A callback that leaves the player and the reason alone, or answers.
LEMMA CallBackPage ==
    ASSUME NEW s, Good(s), s.call # "none", NEW t,
           t.call = s.call, t.player = s.player, t.paused = s.paused,
           t.end_reason = s.end_reason, t.state # "unused",
           \/ t.confirmed_at = s.confirmed_at
           \/ s.confirmed_at = 0 /\ t.confirmed_at # 0
    PROVE  PageStep(s, t)
<1>1. Audio(t) = Audio(s)
  BY DEF Audio
<1>2. Stage(s) = IF s.confirmed_at = 0 THEN "ringing" ELSE "answered"
  BY StageInFlight DEF Good
<1>3. Stage(t) = IF t.confirmed_at = 0 THEN "ringing" ELSE "answered"
  BY DEF Stage
<1>. QED  BY <1>1, <1>2, <1>3 DEF PageStep, Page, Answered

LEMMA CallBacksKeepPromise ==
    ASSUME IInv, NEW c \in CallIds,
           \/ OnEarly(c) \/ OnConfirmed(c) \/ OnDisconnected(c)
           \/ OnMediaActive(c) \/ OnEof(c)
    PROVE  [Promise!Next]_Pages
<1>. DEFINE s == session[c]
<1>1. Good(s) /\ s.call # "none" /\ now \in Nat /\ now >= 1
  BY DEF CallBack, InFlight, OnEarly, OnConfirmed, OnDisconnected,
         OnMediaActive, OnEof, IInv
<1>0. s \in SessionType /\ s.state # "unused"
  BY <1>1 DEF Good, Sound, Life
<1>2. CASE OnDisconnected(c)
  <2>1. /\ s \in SessionType /\ s.filed = 0
        /\ "disconnected" \in EndReasons \ {""}
        /\ Stage(s) \in {"ringing", "answered"}
    BY <1>1, StageInFlight DEF Good, Sound, Life, EndReasons
  <2>2. PageStep(s, Finish(s, "disconnected"))
    BY <1>1, <2>1, FinishPage DEF PageStep
  <2>3. Becomes(c, {Finish(s, "disconnected")})
    BY <1>2 DEF OnDisconnected
  <2>. QED  BY <2>2, <2>3, BecomesKeepsPromise
<1>3. CASE OnEarly(c)
  <2>. DEFINE t == Publish([s EXCEPT !.state = "early"], "early")
  <2>1. Becomes(c, {t})
    BY <1>3 DEF OnEarly
  <2>2. /\ t.call = s.call /\ t.player = s.player /\ t.paused = s.paused
        /\ t.end_reason = s.end_reason /\ t.state # "unused"
        /\ t.confirmed_at = s.confirmed_at
    BY <1>0 DEF Publish, SessionType
  <2>. HIDE DEF t
  <2>3. PageStep(s, t)
    BY <1>1, <2>1, <2>2, CallBackPage
  <2>. QED  BY <2>1, <2>3, BecomesKeepsPromise
<1>4. CASE OnConfirmed(c)
  <2>. DEFINE t == Publish([s EXCEPT !.state = "confirmed",
                                     !.confirmed_at = now,
                                     !.answer_deadline = 0,
                                     !.playback_deadline = now + s.lead_in],
                           "confirmed")
  <2>1. Becomes(c, {t}) /\ s.confirmed_at = 0
    BY <1>4 DEF OnConfirmed
  <2>2. /\ t.call = s.call /\ t.player = s.player /\ t.paused = s.paused
        /\ t.end_reason = s.end_reason /\ t.state # "unused"
        /\ t.confirmed_at = now /\ now # 0
    BY <1>0, <1>1 DEF Publish, SessionType
  <2>. HIDE DEF t
  <2>3. PageStep(s, t)
    BY <1>1, <2>1, <2>2, CallBackPage
  <2>. QED  BY <2>1, <2>3, BecomesKeepsPromise
<1>5. CASE OnMediaActive(c)
  <2>. DEFINE t == [s EXCEPT !.media_ready = TRUE]
  <2>1. Becomes(c, {t})
    BY <1>5 DEF OnMediaActive
  <2>2. /\ t.call = s.call /\ t.player = s.player /\ t.paused = s.paused
        /\ t.end_reason = s.end_reason /\ t.state # "unused"
        /\ t.confirmed_at = s.confirmed_at
    BY <1>0 DEF SessionType
  <2>. HIDE DEF t
  <2>3. PageStep(s, t)
    BY <1>1, <2>1, <2>2, CallBackPage
  <2>. QED  BY <2>1, <2>3, BecomesKeepsPromise
<1>6. CASE OnEof(c)
  <2>. DEFINE hd == IF s.hangup_deadline = 0 \/ now + Tail < s.hangup_deadline
                    THEN now + Tail ELSE s.hangup_deadline
              t == [s EXCEPT !.hangup_deadline = hd]
  <2>1. Becomes(c, {t})
    BY <1>6 DEF OnEof
  <2>. HIDE DEF hd
  <2>2. /\ t.call = s.call /\ t.player = s.player /\ t.paused = s.paused
        /\ t.end_reason = s.end_reason /\ t.state # "unused"
        /\ t.confirmed_at = s.confirmed_at
    BY <1>0 DEF SessionType
  <2>. HIDE DEF t
  <2>3. PageStep(s, t)
    BY <1>1, <2>1, <2>2, CallBackPage
  <2>. QED  BY <2>1, <2>3, BecomesKeepsPromise
<1>. QED  BY <1>2, <1>3, <1>4, <1>5, <1>6

LEMMA CommandsKeepPromise ==
    ASSUME IInv, UnplacedIsBlank, NEW c \in CallIds,
           \/ \E t \in Targets, d \in Durations, l \in LeadIns : PlaceCall(c, t, d, l)
           \/ Hangup(c)
           \/ \E d \in Durations : ReplaceMedia(c, d)
           \/ \E paused \in BOOLEAN : SetPaused(c, paused)
    PROVE  [Promise!Next]_Pages
<1>. DEFINE s == session[c]
<1>1. Good(s) /\ now \in Nat /\ now >= 1
  BY DEF IInv
<1>2. ASSUME NEW t \in Targets, NEW d \in Durations, NEW l \in LeadIns,
             PlaceCall(c, t, d, l)
      PROVE  [Promise!Next]_Pages
  <2>1. /\ s.state = "unused" /\ Sound(s)
        /\ Becomes(c, PlacedCall(t, d, l))
    BY <1>1, <1>2 DEF PlaceCall, Good
  <2>2. s.call = "none" /\ ~s.player
    BY <2>1 DEF Sound, Life, Clip
  <2>3. s.end_reason = ""
    <3>1. Pages[c].stage = "none" /\ Pages[c].cause = s.end_reason
      BY <2>1, <2>2, Stages DEF Pages, Page
    <3>. QED  BY <3>1 DEF UnplacedIsBlank
  <2>4. \A u \in PlacedCall(t, d, l) : PageStep(s, u)
    BY <2>1, <2>2, <2>3, PlacedPage
  <2>. QED  BY <2>1, <2>4, BecomesKeepsPromise
<1>3. CASE Hangup(c)
  <2>1. /\ s.call # "none" /\ Becomes(c, Teardown(s, "requested"))
        /\ "requested" \in EndReasons \ {""}
    BY <1>3 DEF Hangup, InFlight, EndReasons
  <2>2. \A t \in Teardown(s, "requested") : PageStep(s, t)
    BY <1>1, <2>1, TeardownPage, StageInFlight DEF PageStep, Good
  <2>. QED  BY <2>1, <2>2, BecomesKeepsPromise
<1>4. ASSUME NEW d \in Durations, ReplaceMedia(c, d)
      PROVE  [Promise!Next]_Pages
  <2>1. /\ s.call # "none" /\ d \in Nat
        /\ Becomes(c, ReplacedMedia(s, d))
    BY <1>4, ConstantsAssumption DEF ReplaceMedia, InFlight
  <2>2. \A t \in ReplacedMedia(s, d) : PageStep(s, t)
    BY <1>1, <2>1, ReplacedMediaPage
  <2>. QED  BY <2>1, <2>2, BecomesKeepsPromise
<1>5. ASSUME NEW paused \in BOOLEAN, SetPaused(c, paused)
      PROVE  [Promise!Next]_Pages
  <2>. DEFINE t == IF paused THEN Paused(s) ELSE Resumed(s)
  <2>1. /\ s.player /\ s.paused # paused /\ Becomes(c, {t})
    BY <1>5 DEF SetPaused
  <2>2. PageStep(s, t)
    <3>1. s.paused \in BOOLEAN
      BY <1>1 DEF Good, Sound, SessionType
    <3>2. CASE paused
      BY <1>1, <2>1, <3>1, <3>2, PausedPage
    <3>3. CASE ~paused
      <4>1. Resumed(s).paused # Paused(s).paused
        BY <1>1 DEF Resumed, Paused, Publish, Good, Sound, SessionType
      <4>2. t = Resumed(s) /\ t # Paused(s)
        BY <3>3, <4>1
      <4>. QED  BY <1>1, <2>1, <4>2, PausedPage
    <3>. QED  BY <3>2, <3>3
  <2>. HIDE DEF t
  <2>. QED  BY <2>1, <2>2, BecomesKeepsPromise
<1>. QED  BY <1>2, <1>3, <1>4, <1>5

\* Preemption, the shutdown and the timers visit calls in flight.
LEMMA VisitsKeepPromise ==
    ASSUME IInv, TodoInFlight, NEW c \in CallIds,
           Preempt(c) \/ ShutDownCall(c) \/ ServiceTimers(c)
    PROVE  [Promise!Next]_Pages
<1>. DEFINE s == session[c]
<1>1. Good(s) /\ now \in Nat /\ now >= 1 /\ s.call # "none"
  BY DEF IInv, TodoInFlight, InFlight, Preempt, ShutDownCall, ServiceTimers
<1>2. CASE ServiceTimers(c)
  <2>1. \A t \in Serviced(s) : PageStep(s, t)
    BY <1>1, ServicedPage
  <2>. QED  BY <1>2, <2>1, BecomesKeepsPromise DEF ServiceTimers
<1>3. CASE Preempt(c) \/ ShutDownCall(c)
  <2>1. PICK reason \in {"preempted", "shutdown"} : Becomes(c, Teardown(s, reason))
    BY <1>3 DEF Preempt, ShutDownCall
  <2>2. reason \in EndReasons \ {""}
    BY DEF EndReasons
  <2>3. \A t \in Teardown(s, reason) : PageStep(s, t)
    BY <1>1, <2>2, TeardownPage, StageInFlight DEF PageStep, Good
  <2>. QED  BY <2>1, <2>3, BecomesKeepsPromise
<1>. QED  BY <1>2, <1>3

\* A pump and a registration are no business of any page.
LEMMA ElsewhereKeepsPromise ==
    ASSUME IInv, UNCHANGED session \/ Pump
    PROVE  [Promise!Next]_Pages
<1>1. CASE UNCHANGED session
  BY <1>1 DEF Pages, Page, Stage, Audio
<1>2. CASE Pump
  <2>1. ASSUME NEW c \in CallIds
        PROVE  Page(Heard(session[c])) = Page(session[c])
    <3>1. session[c] \in SessionType
      BY DEF IInv
    <3>2. PICK h : Heard(session[c]) = [session[c] EXCEPT !.heard = h]
      BY DEF Heard
    <3>. QED  BY <3>1, <3>2 DEF Page, Stage, Audio, SessionType
  <2>2. \A c \in CallIds : session'[c] = Heard(session[c])
    BY <1>2 DEF Pump
  <2>3. Pages' = [c \in CallIds |-> Page(session'[c])]
    BY DEF Pages, Page, Stage, Audio
  <2>4. Pages' = Pages
    BY <2>1, <2>2, <2>3 DEF Pages
  <2>. QED  BY <2>4
<1>. QED  BY <1>1, <1>2

LEMMA NextKeepsPromise ==
    ASSUME IInv, TodoInFlight, UnplacedIsBlank, [Next]_vars
    PROVE  [Promise!Next]_Pages
<1>1. CASE \E c \in CallIds : \/ OnEarly(c) \/ OnConfirmed(c) \/ OnDisconnected(c)
                             \/ OnMediaActive(c) \/ OnEof(c)
  BY <1>1, CallBacksKeepPromise
<1>2. CASE \E c \in CallIds :
              \/ \E t \in Targets, d \in Durations, l \in LeadIns : PlaceCall(c, t, d, l)
              \/ Hangup(c)
              \/ \E d \in Durations : ReplaceMedia(c, d)
              \/ \E paused \in BOOLEAN : SetPaused(c, paused)
  BY <1>2, CommandsKeepPromise
<1>3. CASE \E c \in CallIds : Preempt(c) \/ ShutDownCall(c) \/ ServiceTimers(c)
  BY <1>3, VisitsKeepPromise
<1>4. CASE Pump
  BY <1>4, ElsewhereKeepsPromise
<1>5. CASE \/ EventsHandled \/ CommandsDrained \/ Stop \/ Stopped
           \/ \E a \in Accounts, registered \in BOOLEAN : OnRegState(a, registered)
           \/ \E t \in Targets : HangupTarget(t)
           \/ UNCHANGED vars
  <2>1. UNCHANGED session
    BY <1>5 DEF EventsHandled, CommandsDrained, Stop, Stopped, OnRegState,
                HangupTarget, vars
  <2>. QED  BY <2>1, ElsewhereKeepsPromise
<1>. QED  BY <1>1, <1>2, <1>3, <1>4, <1>5 DEF Next

\* The loops visit each session once, and only its visit can end it.
LEMMA NextTodoInFlight ==
    ASSUME IInv, TodoInFlight, [Next]_vars
    PROVE  TodoInFlight'
<1>. USE DEF TodoInFlight, InFlight
<1>1. ASSUME NEW c \in CallIds,
             Preempt(c) \/ ShutDownCall(c) \/ ServiceTimers(c)
      PROVE  TodoInFlight'
  <2>1. /\ todo' = todo \ {c} /\ todo \subseteq InFlight
        /\ \E t : session' = [session EXCEPT ![c] = t]
    BY <1>1 DEF Preempt, ShutDownCall, ServiceTimers, Becomes
  <2>2. \A d \in CallIds \ {c} : session'[d] = session[d]
    BY <2>1 DEF IInv
  <2>. QED  BY <2>1, <2>2
<1>2. ASSUME NEW t \in Targets, HangupTarget(t)
      PROVE  TodoInFlight'
  BY <1>2 DEF HangupTarget
<1>3. CASE CommandsDrained \/ Stop \/ UNCHANGED vars
  BY <1>3 DEF CommandsDrained, Stop, vars
<1>4. CASE pc' \in {"events", "commands", "stopped"}
  BY <1>4
<1>. QED
  BY <1>1, <1>2, <1>3, <1>4
     DEF Next, OnRegState, OnEarly, OnConfirmed, OnDisconnected, OnMediaActive,
         OnEof, CallBack, PlaceCall, Hangup, ReplaceMedia, SetPaused, Command,
         EventsHandled, Pump, Stopped

\* No step of the promise takes a page back to where it was not placed.
LEMMA PromiseKeepsBlank ==
    ASSUME UnplacedIsBlank, [Promise!Next]_Pages
    PROVE  UnplacedIsBlank'
<1>1. CASE UNCHANGED Pages
  BY <1>1 DEF UnplacedIsBlank
<1>2. ASSUME NEW c \in CallIds,
             \/ Promise!Place(c) \/ Promise!Refuse(c) \/ Promise!Answer(c)
             \/ Promise!Play(c) \/ Promise!Hold(c) \/ Promise!Silence(c)
             \/ \E cause \in EndReasons \ {""} :
                   Promise!Condemn(c, cause) \/ Promise!End(c, cause)
      PROVE  UnplacedIsBlank'
  <2>1. /\ Pages = [d \in CallIds |-> Pages[d]]
        /\ Pages[c] = [stage |-> Pages[c].stage, audio |-> Pages[c].audio,
                       cause |-> Pages[c].cause]
    BY DEF Pages, Page
  <2>2. \A d \in CallIds : \/ Pages'[d].stage # "none"
                           \/ Pages'[d] = Pages[d]
    <3>1. CASE Promise!Place(c) \/ Promise!Refuse(c) \/ Promise!Answer(c)
      BY <2>1, <3>1
         DEF Promise!Place, Promise!Refuse, Promise!Answer, Promise!Step
    <3>2. CASE Promise!Play(c) \/ Promise!Hold(c) \/ Promise!Silence(c)
      BY <2>1, <3>2
         DEF Promise!Play, Promise!Hold, Promise!Silence, Promise!Step,
             Promise!Up
    <3>3. ASSUME NEW cause, Promise!Condemn(c, cause) \/ Promise!End(c, cause)
          PROVE  \A d \in CallIds : \/ Pages'[d].stage # "none"
                                    \/ Pages'[d] = Pages[d]
      <4>. DEFINE r == Promise!FirstCause(Pages[c], cause)
      <4>1. /\ Pages[c].stage \in {"ringing", "answered"}
            /\ \/ Pages' = [Pages EXCEPT ![c] = Silenced(Pages[c], r)]
               \/ Pages' = [Pages EXCEPT ![c] =
                        [stage |-> "over", audio |-> "silent", cause |-> r]]
        BY <3>3 DEF Silenced, Promise!Condemn, Promise!End, Promise!Step, Promise!Up
      <4>. HIDE DEF r
      <4>2. \/ Pages' = [Pages EXCEPT ![c] = [stage |-> Pages[c].stage,
                                             audio |-> "silent", cause |-> r]]
            \/ Pages' = [Pages EXCEPT ![c] =
                     [stage |-> "over", audio |-> "silent", cause |-> r]]
        <5>1. Silenced(Pages[c], r)
              = [stage |-> Pages[c].stage, audio |-> "silent", cause |-> r]
          BY <2>1, SilencedRecord
        <5>. QED  BY <4>1, <5>1
      <4>. QED  BY <2>1, <4>1, <4>2
    <3>. QED  BY <1>2, <3>1, <3>2, <3>3
  <2>. QED  BY <2>2 DEF UnplacedIsBlank
<1>3. CASE Promise!Next
  BY <1>2, <1>3 DEF Promise!Next
<1>. QED  BY <1>1, <1>3

(***************************************************************************)
(* Theorems.                                                               *)
(***************************************************************************)

\* For any number of calls, clips and timeouts, the SIP thread implements
\* CallPromise: a page is placed once, answered at most once, ends once,
\* keeps the first cause of its end, and is silent when it is over.
THEOREM PromiseKept == Spec => KeepsCallPromise
<1>1. Init => Promise!Init
  <2>1. Page(UnusedSession) = Promise!Unplaced
    BY DEF UnusedSession, Page, Stage, Audio, Promise!Unplaced
  <2>2. Init => \A c \in CallIds : session[c] = UnusedSession
    BY DEF Init
  <2>. QED  BY <2>1, <2>2 DEF Promise!Init, Pages
<1>2. Init => TodoInFlight /\ UnplacedIsBlank
  <2>1. Promise!Init => UnplacedIsBlank
    <3>1. Promise!Init => \A c \in CallIds : Pages[c] = Promise!Unplaced
      BY DEF Promise!Init
    <3>2. Promise!Unplaced.cause = ""
      BY DEF Promise!Unplaced
    <3>. QED  BY <3>1, <3>2 DEF UnplacedIsBlank
  <2>. QED  BY <1>1, <2>1 DEF Init, TodoInFlight
<1>3. IInv /\ TodoInFlight /\ [Next]_vars => TodoInFlight'
  BY NextTodoInFlight
<1>4. IInv /\ TodoInFlight /\ UnplacedIsBlank /\ [Next]_vars
         => [Promise!Next]_Pages
  BY NextKeepsPromise
<1>5. UnplacedIsBlank /\ [Promise!Next]_Pages => UnplacedIsBlank'
  BY PromiseKeepsBlank
<1>. QED
  BY <1>1, <1>2, <1>3, <1>4, <1>5, Invariance, PTL DEF Spec, KeepsCallPromise, Promise!Spec
=============================================================================
