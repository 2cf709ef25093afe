---------------------------- MODULE CallPromise ----------------------------
(***************************************************************************)
(* What the sidecar promises of a page, whatever happens below: the call   *)
(* is placed once, is answered at most once, its clip sounds, is held or   *)
(* is silent only while the call is up, the first cause of its end is the  *)
(* one that is told, and once it is over it stays over and silent.         *)
(*                                                                         *)
(* Stated over what a client could observe of a call; SipWorker implements *)
(* it (sidecar/app/sip.py, class CallSession and the events of events.py). *)
(***************************************************************************)
CONSTANTS CallIds, Causes

VARIABLE page

Up == {"ringing", "answered"}

PageType ==
    [stage: Up \cup {"none", "over"}, audio: {"silent", "sounding", "held"},
     cause: Causes \cup {""}]

Unplaced == [stage |-> "none", audio |-> "silent", cause |-> ""]

FirstCause(p, cause) == IF p.cause = "" THEN cause ELSE p.cause

Step(c, from, p) == page[c].stage \in from /\ page' = [page EXCEPT ![c] = p]

Place(c) == Step(c, {"none"}, [page[c] EXCEPT !.stage = "ringing"])

Refuse(c) == Step(c, {"none"}, [page[c] EXCEPT !.stage = "over"])

Answer(c) == Step(c, {"ringing"}, [page[c] EXCEPT !.stage = "answered"])

Play(c) == Step(c, Up, [page[c] EXCEPT !.audio = "sounding"])

Hold(c) ==
    /\ page[c].audio = "sounding"
    /\ Step(c, Up, [page[c] EXCEPT !.audio = "held"])

\* The clip ends, or the call is being torn down for some cause.
Silence(c) == Step(c, Up, [page[c] EXCEPT !.audio = "silent"])

Condemn(c, cause) ==
    Step(c, Up, [page[c] EXCEPT !.audio = "silent",
                                !.cause = FirstCause(page[c], cause)])

End(c, cause) ==
    Step(c, Up, [stage |-> "over", audio |-> "silent",
                 cause |-> FirstCause(page[c], cause)])

Init == page = [c \in CallIds |-> Unplaced]

Next ==
    \E c \in CallIds :
       \/ Place(c) \/ Refuse(c) \/ Answer(c)
       \/ Play(c) \/ Hold(c) \/ Silence(c)
       \/ \E cause \in Causes : Condemn(c, cause) \/ End(c, cause)

Spec == Init /\ [][Next]_page
=============================================================================
