-------------------------- MODULE SipThreadProofs --------------------------
(***************************************************************************)
(* Theorems about SipThread, for any number of commands.                   *)
(*                                                                         *)
(* A command is in the queue once, or it left callbacks of which the last  *)
(* is its answer, or neither; in the first two cases its handler waits.    *)
(***************************************************************************)
EXTENDS SipThread, TLAPS

\* What waits in the queue was submitted once and has left nothing yet.
QueueFits ==
    \A i \in DOMAIN commands :
       commands[i] \in Commands =>
          /\ handler[commands[i]] = "waiting"
          /\ \A j \in DOMAIN callbacks : callbacks[j].of # commands[i]
          /\ \A j \in DOMAIN commands : commands[j] = commands[i] => j = i

\* Whoever is owed a callback waits, and after an answer nothing follows.
CallbacksFit ==
    /\ \A i \in DOMAIN callbacks : handler[callbacks[i].of] = "waiting"
    /\ \A i, j \in DOMAIN callbacks :
          i < j /\ callbacks[i].kind # "event" => callbacks[j].of # callbacks[i].of

ThreadInv == ThreadTypeOK /\ QueueFits /\ CallbacksFit

LEMMA ThreadInitInv ==
    ASSUME ThreadInit, ThreadAssumption
    PROVE  ThreadInv
<1>1. ThreadTypeOK
  <2>1. handler \in [Commands -> {"unsent", "waiting", "result", "error"}]
    BY DEF ThreadInit
  <2>2. commands \in Seq(Commands \cup {Sentinel}) /\ callbacks \in Seq(Callbacks)
    BY DEF ThreadInit
  <2>. QED  BY <2>1, <2>2 DEF ThreadInit, ThreadTypeOK
<1>2. QueueFits /\ CallbacksFit
  BY DEF ThreadInit, QueueFits, CallbacksFit
<1>. QED  BY <1>1, <1>2 DEF ThreadInv

\* Steps that touch neither the queue nor what crosses back.
LEMMA ElsewhereStep ==
    ASSUME ThreadInv, ThreadAssumption,
           \/ Start \/ StartRefused \/ Started \/ Joined \/ EndpointUp \/ EndpointFails
           \/ Pump \/ Pumped \/ Timed \/ Dies \/ Leave \/ ShutDown
           \/ UNCHANGED threadVars
    PROVE  ThreadInv'
<1>1. UNCHANGED <<handler, commands, callbacks>>
  BY DEF Start, StartRefused, Started, Joined, EndpointUp, EndpointFails, Pump, Pumped,
         Timed, Dies, Leave, ShutDown, threadVars, loopVars
<1>2. QueueFits' /\ CallbacksFit'
  BY <1>1 DEF ThreadInv, QueueFits, CallbacksFit
<1>3. ThreadTypeOK'
  <2>. USE <1>1 DEF ThreadInv, ThreadTypeOK, loopVars
  <2>1. CASE Start \/ StartRefused \/ Started \/ Joined \/ EndpointUp \/ EndpointFails
    BY <2>1 DEF Start, StartRefused, Started, Joined, EndpointUp, EndpointFails
  <2>2. CASE Pump \/ Pumped \/ Timed \/ Dies \/ Leave \/ ShutDown
    BY <2>2 DEF Pump, Pumped, Timed, Dies, Leave, ShutDown
  <2>3. CASE UNCHANGED threadVars
    BY <2>3 DEF threadVars
  <2>. QED  BY <2>1, <2>2, <2>3
<1>. QED  BY <1>2, <1>3 DEF ThreadInv

\* What joins the queue at its end.
LEMMA AppendStep ==
    ASSUME ThreadInv, ThreadAssumption, Stop \/ \E c \in Commands : Submit(c)
    PROVE  ThreadInv'
<1>. USE DEF ThreadInv, ThreadTypeOK
<1>1. CASE Stop
  <2>1. Sentinel \in Commands \cup {Sentinel} /\ commands \in Seq(Commands \cup {Sentinel})
    OBVIOUS
  <2>2. /\ commands' \in Seq(Commands \cup {Sentinel})
        /\ \A i \in DOMAIN commands' : \/ i \in DOMAIN commands /\ commands'[i] = commands[i]
                                       \/ commands'[i] = Sentinel
    BY <1>1, <2>1 DEF Stop
  <2>3. ThreadTypeOK' /\ UNCHANGED <<handler, callbacks>>
    BY <1>1, <2>2 DEF Stop
  <2>4. QueueFits'
    BY <2>2, <2>3 DEF QueueFits, ThreadAssumption
  <2>5. CallbacksFit'
    BY <2>3 DEF CallbacksFit
  <2>. QED  BY <2>3, <2>4, <2>5
<1>2. ASSUME NEW c \in Commands, Submit(c) PROVE ThreadInv'
  <2>1. c \in Commands \cup {Sentinel} /\ commands \in Seq(Commands \cup {Sentinel})
    OBVIOUS
  <2>2. /\ commands' \in Seq(Commands \cup {Sentinel})
        /\ \A i \in DOMAIN commands' :
              \/ i \in DOMAIN commands /\ commands'[i] = commands[i]
              \/ i = Len(commands) + 1 /\ i \notin DOMAIN commands /\ commands'[i] = c
    BY <1>2, <2>1 DEF Submit
  <2>3. /\ handler' \in [Commands -> {"unsent", "waiting", "result", "error"}]
        /\ handler[c] = "unsent" /\ handler'[c] = "waiting"
        /\ \A d \in Commands : handler[d] = "waiting" => handler'[d] = "waiting"
        /\ callbacks' = callbacks
    BY <1>2 DEF Submit
  <2>4. \A i \in DOMAIN callbacks : callbacks[i].of \in Commands /\ callbacks[i].of # c
    <3>1. \A i \in DOMAIN callbacks : callbacks[i] \in Callbacks
      OBVIOUS
    <3>. QED  BY <2>3, <3>1 DEF CallbacksFit, Callbacks
  <2>5. \A i \in DOMAIN commands : commands[i] # c
    BY <2>3 DEF QueueFits
  <2>6. QueueFits'
    BY <2>2, <2>3, <2>4, <2>5 DEF QueueFits
  <2>7. CallbacksFit'
    BY <2>3, <2>4 DEF CallbacksFit
  <2>8. ThreadTypeOK'
    BY <1>2, <2>2, <2>3 DEF Submit
  <2>. QED  BY <2>6, <2>7, <2>8
<1>. QED  BY <1>1, <1>2

\* The queue without its head.
LEMMA RestOfQueue ==
    ASSUME ThreadInv, commands # <<>>, commands' = Tail(commands)
    PROVE  /\ Head(commands) = commands[1] /\ 1 \in DOMAIN commands
           /\ commands' \in Seq(Commands \cup {Sentinel})
           /\ \A i \in DOMAIN commands' :
                 i + 1 \in DOMAIN commands /\ commands'[i] = commands[i + 1]
BY DEF ThreadInv, ThreadTypeOK

\* The thread comes to the end of the queue, or to the sentinel.
LEMMA DrainedStep ==
    ASSUME ThreadInv, Drained
    PROVE  ThreadInv'
<1>1. /\ commands' \in Seq(Commands \cup {Sentinel})
      /\ \/ commands' = commands
         \/ \A i \in DOMAIN commands' :
               i + 1 \in DOMAIN commands /\ commands'[i] = commands[i + 1]
  BY RestOfQueue DEF Drained, ThreadInv, ThreadTypeOK
<1>2. ThreadTypeOK' /\ UNCHANGED <<handler, callbacks>>
  BY <1>1 DEF Drained, ThreadInv, ThreadTypeOK, loopVars
<1>3. commands \in Seq(Commands \cup {Sentinel})
  BY DEF ThreadInv, ThreadTypeOK
<1>4. QueueFits'
  BY <1>1, <1>2, <1>3 DEF ThreadInv, QueueFits
<1>5. CallbacksFit'
  BY <1>2 DEF ThreadInv, CallbacksFit
<1>. QED  BY <1>2, <1>4, <1>5 DEF ThreadInv

\* A command leaves its event, if any, and then its answer.
LEMMA CarriedOutStep ==
    ASSUME ThreadInv, ThreadAssumption, NEW c \in Commands, CarriesOut(c)
    PROVE  ThreadInv'
<1>1. PICK tells \in BOOLEAN, kind \in {"result", "error"} :
         callbacks' = Left(c, tells, kind)
  BY DEF CarriesOut
<1>2. /\ commands[1] = c /\ 1 \in DOMAIN commands
      /\ commands' \in Seq(Commands \cup {Sentinel})
      /\ \A i \in DOMAIN commands' :
            i + 1 \in DOMAIN commands /\ commands'[i] = commands[i + 1]
  BY RestOfQueue DEF CarriesOut
<1>3. /\ callbacks \in Seq(Callbacks) /\ commands \in Seq(Commands \cup {Sentinel})
      /\ \A i \in DOMAIN callbacks : callbacks[i] \in Callbacks
      /\ UNCHANGED <<handler, stopping, process, thread, ready>>
  BY DEF ThreadInv, ThreadTypeOK, CarriesOut, loopVars
<1>4. /\ Callback(c, "event") \in Callbacks /\ Callback(c, "event").of = c
      /\ Callback(c, "event").kind = "event"
      /\ Callback(c, kind) \in Callbacks /\ Callback(c, kind).of = c
  BY DEF Callback, Callbacks
<1>. DEFINE n == Len(callbacks)
<1>5. /\ callbacks' \in Seq(Callbacks)
      /\ \A i \in DOMAIN callbacks' :
            \/ i \in DOMAIN callbacks /\ callbacks'[i] = callbacks[i]
            \/ i > n /\ callbacks'[i].of = c
      /\ \A i, j \in DOMAIN callbacks' : n < i /\ i < j => callbacks'[i].kind = "event"
  <2>. DEFINE told == Callback(c, "event")
              ends == Callback(c, kind)
  <2>. HIDE DEF told, ends
  <2>1. told \in Callbacks /\ ends \in Callbacks /\ told.of = c /\ ends.of = c /\ told.kind = "event"
    BY <1>4 DEF told, ends
  <2>2. CASE tells
    <3>1. callbacks' = Append(Append(callbacks, told), ends)
      BY <1>1, <2>2 DEF Left, Told, told, ends
    <3>2. /\ callbacks' \in Seq(Callbacks) /\ Len(callbacks') = n + 2
          /\ \A i \in 1..n : callbacks'[i] = callbacks[i]
          /\ callbacks'[n + 1] = told /\ callbacks'[n + 2] = ends
      BY <1>3, <2>1, <3>1
    <3>3. n \in Nat /\ DOMAIN callbacks = 1..n /\ DOMAIN callbacks' = 1..(n + 2)
      BY <1>3, <3>2
    <3>4. \A i \in DOMAIN callbacks' :
             \/ i \in DOMAIN callbacks /\ callbacks'[i] = callbacks[i]
             \/ i > n /\ callbacks'[i].of = c
      BY <2>1, <3>2, <3>3
    <3>5. \A i, j \in DOMAIN callbacks' : n < i /\ i < j => callbacks'[i].kind = "event"
      BY <2>1, <3>2, <3>3
    <3>. QED  BY <3>2, <3>4, <3>5
  <2>3. CASE ~tells
    <3>1. callbacks' = Append(callbacks, ends)
      BY <1>1, <2>3 DEF Left, Told, ends
    <3>2. /\ callbacks' \in Seq(Callbacks) /\ Len(callbacks') = n + 1
          /\ \A i \in 1..n : callbacks'[i] = callbacks[i]
          /\ callbacks'[n + 1] = ends
      BY <1>3, <2>1, <3>1
    <3>3. n \in Nat /\ DOMAIN callbacks = 1..n /\ DOMAIN callbacks' = 1..(n + 1)
      BY <1>3, <3>2
    <3>4. \A i \in DOMAIN callbacks' :
             \/ i \in DOMAIN callbacks /\ callbacks'[i] = callbacks[i]
             \/ i > n /\ callbacks'[i].of = c
      BY <2>1, <3>2, <3>3
    <3>5. \A i, j \in DOMAIN callbacks' : n < i /\ i < j => callbacks'[i].kind = "event"
      BY <2>1, <3>2, <3>3
    <3>. QED  BY <3>2, <3>4, <3>5
  <2>. QED  BY <2>2, <2>3
<1>6. /\ handler[c] = "waiting"
      /\ \A j \in DOMAIN callbacks : callbacks[j].of # c
      /\ \A j \in DOMAIN commands : commands[j] = c => j = 1
  BY <1>2 DEF ThreadInv, QueueFits
<1>7. QueueFits'
  <2>1. SUFFICES ASSUME NEW i \in DOMAIN commands', commands'[i] \in Commands
                 PROVE  /\ handler[commands'[i]] = "waiting"
                        /\ \A j \in DOMAIN callbacks' : callbacks'[j].of # commands'[i]
                        /\ \A j \in DOMAIN commands' : commands'[j] = commands'[i] => j = i
    BY <1>3 DEF QueueFits
  <2>2. i + 1 \in DOMAIN commands /\ commands'[i] = commands[i + 1] /\ i \in Nat /\ i # 0
    BY <1>2
  <2>3. commands'[i] # c
    BY <1>6, <2>2
  <2>4. /\ handler[commands'[i]] = "waiting"
        /\ \A j \in DOMAIN callbacks : callbacks[j].of # commands'[i]
        /\ \A j \in DOMAIN commands : commands[j] = commands'[i] => j = i + 1
    BY <2>1, <2>2 DEF ThreadInv, QueueFits
  <2>5. \A j \in DOMAIN callbacks' : callbacks'[j].of # commands'[i]
    BY <1>5, <2>3, <2>4
  <2>6. \A j \in DOMAIN commands' : commands'[j] = commands'[i] => j = i
    BY <1>2, <2>2, <2>4
  <2>. QED  BY <2>4, <2>5, <2>6
<1>8. CallbacksFit'
  <2>1. \A i \in DOMAIN callbacks' : handler'[callbacks'[i].of] = "waiting"
    BY <1>3, <1>5, <1>6 DEF ThreadInv, CallbacksFit
  <2>2. ASSUME NEW i \in DOMAIN callbacks', NEW j \in DOMAIN callbacks',
               i < j, callbacks'[i].kind # "event"
        PROVE  callbacks'[j].of # callbacks'[i].of
    <3>1. i \in DOMAIN callbacks /\ callbacks'[i] = callbacks[i]
      BY <1>5, <2>2
    <3>2. CASE j \in DOMAIN callbacks /\ callbacks'[j] = callbacks[j]
      BY <2>2, <3>1, <3>2 DEF ThreadInv, CallbacksFit
    <3>3. CASE callbacks'[j].of = c
      BY <1>6, <3>1, <3>3
    <3>. QED  BY <1>5, <3>2, <3>3
  <2>. QED  BY <2>1, <2>2 DEF CallbacksFit
<1>9. ThreadTypeOK'
  BY <1>2, <1>3, <1>5 DEF ThreadInv, ThreadTypeOK
<1>. QED  BY <1>7, <1>8, <1>9 DEF ThreadInv

\* The event loop runs what the thread left first.
LEMMA CallbackStep ==
    ASSUME ThreadInv, RunCallback
    PROVE  ThreadInv'
<1>. DEFINE cb == callbacks[1]
<1>1. /\ callbacks \in Seq(Callbacks) /\ callbacks # <<>> /\ 1 \in DOMAIN callbacks
      /\ cb = Head(callbacks) /\ cb \in Callbacks
      /\ callbacks' \in Seq(Callbacks)
      /\ \A i \in DOMAIN callbacks' :
            i + 1 \in DOMAIN callbacks /\ i \in Nat /\ i # 0 /\ callbacks'[i] = callbacks[i + 1]
  BY DEF RunCallback, ThreadInv, ThreadTypeOK
<1>2. UNCHANGED <<process, stopping, commands, thread, ready>>
  BY DEF RunCallback
<1>3. cb.of \in Commands /\ cb.kind \in {"event", "result", "error"}
  BY <1>1 DEF Callbacks
<1>4. handler' = IF cb.kind = "event" THEN handler ELSE [handler EXCEPT ![cb.of] = cb.kind]
  BY <1>1 DEF RunCallback
<1>. HIDE DEF cb
<1>5. handler' \in [Commands -> {"unsent", "waiting", "result", "error"}]
  BY <1>3, <1>4 DEF ThreadInv, ThreadTypeOK
<1>6. \A d \in Commands : handler'[d] = handler[d] \/ (cb.kind # "event" /\ d = cb.of)
  <2>. USE DEF ThreadInv, ThreadTypeOK
  <2>1. CASE cb.kind = "event"
    BY <1>4, <2>1
  <2>2. CASE cb.kind # "event"
    BY <1>3, <1>4, <2>2
  <2>. QED  BY <2>1, <2>2
<1>7. \A i \in DOMAIN commands : commands[i] \in Commands => commands[i] # cb.of
  BY <1>1 DEF ThreadInv, QueueFits, cb
<1>8. \A i \in DOMAIN callbacks' : /\ callbacks'[i].of \in Commands
                                   /\ cb.kind # "event" => callbacks'[i].of # cb.of
  <2>1. \A i \in DOMAIN callbacks : callbacks[i] \in Callbacks
    BY <1>1
  <2>2. \A i \in DOMAIN callbacks : i > 1 /\ cb.kind # "event" => callbacks[i].of # cb.of
    BY <1>1 DEF ThreadInv, CallbacksFit, cb
  <2>3. \A cc \in Callbacks : cc.of \in Commands
    BY DEF Callbacks
  <2>. QED  BY <1>1, <2>1, <2>2, <2>3
<1>9. QueueFits'
  BY <1>1, <1>2, <1>6, <1>7 DEF ThreadInv, QueueFits
<1>10. CallbacksFit'
  <2>1. ASSUME NEW i \in DOMAIN callbacks' PROVE handler'[callbacks'[i].of] = "waiting"
    BY <1>1, <1>6, <1>8 DEF ThreadInv, CallbacksFit
  <2>2. ASSUME NEW i \in DOMAIN callbacks', NEW j \in DOMAIN callbacks',
               i < j, callbacks'[i].kind # "event"
        PROVE  callbacks'[j].of # callbacks'[i].of
    <3>1. i + 1 \in DOMAIN callbacks /\ j + 1 \in DOMAIN callbacks /\ i + 1 < j + 1
      BY <1>1, <2>2
    <3>. QED  BY <1>1, <2>2, <3>1 DEF ThreadInv, CallbacksFit
  <2>. QED  BY <2>1, <2>2 DEF CallbacksFit
<1>11. ThreadTypeOK'
  BY <1>1, <1>2, <1>5 DEF ThreadInv, ThreadTypeOK
<1>. QED  BY <1>9, <1>10, <1>11 DEF ThreadInv

\* The types, the queue and the callbacks agree at every moment, also after
\* the loop has died.
THEOREM ThreadInvariance == ThreadSpec => []ThreadInv
<1>1. ThreadInit => ThreadInv
  BY ThreadInitInv, ThreadAssumption
<1>2. ThreadInv /\ [ThreadNext]_threadVars => ThreadInv'
  BY ElsewhereStep, AppendStep, DrainedStep, CarriedOutStep, CallbackStep, ThreadAssumption
  DEF ThreadNext, LoopNext, RunNext
<1>. QED  BY <1>1, <1>2, PTL DEF ThreadSpec

\* No handler is answered while an event of its command is still on its way
\* to the bus (sip.py:426-430, 743-744), for any number of commands.
THEOREM EventsComeFirst == ThreadSpec => []EventsBeforeAnswers
<1>1. ThreadInv => EventsBeforeAnswers
  BY DEF ThreadInv, ThreadTypeOK, CallbacksFit, EventsBeforeAnswers
<1>. QED  BY <1>1, ThreadInvariance, PTL
=============================================================================
