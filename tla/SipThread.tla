----------------------------- MODULE SipThread -----------------------------
(***************************************************************************)
(* The life of the SIP thread (sidecar/app/sip.py) and of the process      *)
(* around it (sidecar/app/main.py): two threads that meet in the queue of  *)
(* commands and in the callbacks that the SIP thread leaves with the event *)
(* loop.  What commands do to calls is in SipWorker.                       *)
(*                                                                         *)
(* uvicorn is external: it serves once the lifespan has started, and ends  *)
(* the lifespan when the handlers under way have returned.                 *)
(***************************************************************************)
EXTENDS Integers, Sequences

CONSTANTS
    Commands,        \* the commands that handlers submit, each one once
    LoopMayDie       \* may an exception escape the loop of the thread?

Sentinel == "sentinel"

ASSUME ThreadAssumption ==
    /\ Sentinel \notin Commands
    /\ LoopMayDie \in BOOLEAN

VARIABLES
    process,         \* the lifespan of the application
    handler,         \* per command: the handler that awaits it
    stopping,        \* _stopping
    commands,        \* _commands
    callbacks,       \* what call_soon_threadsafe has still to run
    thread,          \* where _run is
    ready            \* _ready, with _startup_error

loopVars == <<process, handler, stopping>>
threadVars == <<loopVars, commands, callbacks, thread, ready>>

Callbacks == [kind: {"event", "result", "error"}, of: Commands]

(***************************************************************************)
(* Sidecar.start and Sidecar.stop.                                         *)
(***************************************************************************)
Start ==
    /\ process = "down"
    /\ process' = "starting" /\ thread' = "starting"
    /\ UNCHANGED <<handler, stopping, commands, callbacks, ready>>

\* The configuration does not load, or there is no ffmpeg.
StartRefused ==
    /\ process = "down"
    /\ process' = "exited"
    /\ UNCHANGED <<handler, stopping, commands, callbacks, thread, ready>>

\* Mutant: start does not look for a startup error.
StartedBlindly ==
    /\ process = "starting" /\ ready # "no"
    /\ process' = "serving"
    /\ UNCHANGED <<handler, stopping, commands, callbacks, thread, ready>>

\* A startup error reaches start, and the process ends.
Started ==
    /\ process = "starting" /\ ready # "no"
    /\ process' = IF ready = "up" THEN "serving" ELSE "exited"
    /\ UNCHANGED <<handler, stopping, commands, callbacks, thread, ready>>

Stop ==
    /\ process = "serving"
    /\ \A c \in Commands : handler[c] # "waiting"
    /\ process' = "stopping" /\ stopping' = TRUE
    /\ commands' = Append(commands, Sentinel)
    /\ UNCHANGED <<handler, callbacks, thread, ready>>

\* The thread has ended, or ten seconds were not enough for it.
Joined ==
    /\ process = "stopping"
    /\ process' = "exited"
    /\ UNCHANGED <<handler, stopping, commands, callbacks, thread, ready>>

(***************************************************************************)
(* The event loop: handlers submit, and hear what the thread left for them.*)
(***************************************************************************)
Submit(c) ==
    /\ process = "serving" /\ handler[c] = "unsent"
    /\ commands' = Append(commands, c)
    /\ handler' = [handler EXCEPT ![c] = "waiting"]
    /\ UNCHANGED <<process, stopping, callbacks, thread, ready>>

\* The bus gets an event, or a future its result or error.
RunCallback ==
    /\ callbacks # <<>>
    /\ callbacks' = Tail(callbacks)
    /\ LET cb == Head(callbacks)
       IN  handler' = IF cb.kind = "event" THEN handler
                      ELSE [handler EXCEPT ![cb.of] = cb.kind]
    /\ UNCHANGED <<process, stopping, commands, thread, ready>>

(***************************************************************************)
(* _run.                                                                   *)
(***************************************************************************)
EndpointUp ==
    /\ thread = "starting"
    /\ thread' = "looking" /\ ready' = "up"
    /\ UNCHANGED <<loopVars, commands, callbacks>>

EndpointFails ==
    /\ thread = "starting"
    /\ thread' = "ended" /\ ready' = "error"
    /\ UNCHANGED <<loopVars, commands, callbacks>>

\* The loop looks at _stopping before it pumps.
Pump ==
    /\ thread = "looking" /\ ~stopping
    /\ thread' = "pumping"
    /\ UNCHANGED <<loopVars, commands, callbacks, ready>>

Pumped ==
    /\ thread = "pumping"
    /\ thread' = "draining"
    /\ UNCHANGED <<loopVars, commands, callbacks, ready>>

Callback(c, kind) == [kind |-> kind, of |-> c]

Told(c, tells) ==
    IF tells THEN Append(callbacks, Callback(c, "event")) ELSE callbacks

\* Mutant: the future is resolved before the command publishes.
LeftResultFirst(c, tells, kind) ==
    LET answered == Append(callbacks, Callback(c, kind))
    IN  IF tells THEN Append(answered, Callback(c, "event")) ELSE answered

\* What a command leaves for the event loop: the event it may publish, and
\* then what its future becomes.
Left(c, tells, kind) == Append(Told(c, tells), Callback(c, kind))

CarriesOut(c) ==
    /\ thread = "draining" /\ commands # <<>> /\ Head(commands) = c
    /\ commands' = Tail(commands)
    /\ \E tells \in BOOLEAN, kind \in {"result", "error"} :
          callbacks' = Left(c, tells, kind)
    /\ UNCHANGED <<loopVars, thread, ready>>

\* The queue is empty, or has come to the sentinel of stop.
Drained ==
    /\ thread = "draining"
    /\ \/ /\ commands = <<>>
          /\ UNCHANGED commands
       \/ /\ commands # <<>> /\ Head(commands) = Sentinel
          /\ commands' = Tail(commands)
    /\ thread' = "timing"
    /\ UNCHANGED <<loopVars, callbacks, ready>>

Timed ==
    /\ thread = "timing"
    /\ thread' = "looking"
    /\ UNCHANGED <<loopVars, commands, callbacks, ready>>

\* Out of libHandleEvents or a timer: what a command raises is caught.
Dies ==
    /\ LoopMayDie
    /\ thread \in {"pumping", "timing"}
    /\ thread' = "dying"
    /\ UNCHANGED <<loopVars, commands, callbacks, ready>>

Leave ==
    /\ thread = "looking" /\ stopping
    /\ thread' = "leaving"
    /\ UNCHANGED <<loopVars, commands, callbacks, ready>>

\* _shutdown_endpoint.
ShutDown ==
    /\ thread \in {"dying", "leaving"}
    /\ thread' = IF thread = "dying" THEN "dead" ELSE "ended"
    /\ UNCHANGED <<loopVars, commands, callbacks, ready>>

ThreadInit ==
    /\ process = "down" /\ stopping = FALSE
    /\ handler = [c \in Commands |-> "unsent"]
    /\ commands = <<>> /\ callbacks = <<>>
    /\ thread = "unborn" /\ ready = "no"

LoopNext ==
    \/ Start \/ StartRefused \/ Started \/ Stop \/ Joined
    \/ RunCallback
    \/ \E c \in Commands : Submit(c)

RunNext ==
    \/ EndpointUp \/ EndpointFails
    \/ Pump \/ Pumped \/ Drained \/ Timed \/ Leave \/ ShutDown
    \/ \E c \in Commands : CarriesOut(c)

ThreadNext == LoopNext \/ RunNext \/ Dies

ThreadSpec == ThreadInit /\ [][ThreadNext]_threadVars

\* Both threads go on.  Nobody has to submit, and nobody has to stop.
ThreadProgress ==
    /\ WF_threadVars(Started) /\ WF_threadVars(Joined)
    /\ WF_threadVars(RunCallback)
    /\ WF_threadVars(RunNext)

FairThreadSpec == ThreadSpec /\ ThreadProgress

(***************************************************************************)
(* Properties.                                                             *)
(***************************************************************************)
\* Every variable holds a value of the kind the code gives it.
ThreadTypeOK ==
    /\ process \in {"down", "starting", "serving", "stopping", "exited"}
    /\ handler \in [Commands -> {"unsent", "waiting", "result", "error"}]
    /\ stopping \in BOOLEAN
    /\ commands \in Seq(Commands \cup {Sentinel})
    /\ callbacks \in Seq(Callbacks)
    /\ thread \in {"unborn", "starting", "looking", "pumping", "draining",
                   "timing", "dying", "leaving", "dead", "ended"}
    /\ ready \in {"no", "up", "error"}

\* When a handler gets the answer to its command, the event of the command
\* is on the bus already, though both cross from one thread to the other
\* (sip.py:426-430, 743-744): what it answers is never told before what it
\* did.
EventsBeforeAnswers ==
    \A c \in Commands :
       handler[c] \in {"result", "error"} =>
          \A i \in DOMAIN callbacks : callbacks[i].of # c

\* A command is answered, whatever it raises and whenever it comes, unless
\* the loop dies of an exception: then _run ends and nobody answers
\* (sip.py:270-294, 412-424).
EveryCommandAnswered ==
    \A c \in Commands :
       handler[c] = "waiting"
          ~> handler[c] \in {"result", "error"} \/ thread \in {"dying", "dead"}
=============================================================================
