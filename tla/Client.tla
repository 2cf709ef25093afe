------------------------------- MODULE Client -------------------------------
(***************************************************************************)
(* How Home Assistant learns whether the accounts of the sidecar are       *)
(* registered: the SIP thread and its snapshot (sip.py), the bus           *)
(* (events.py), the websocket handler (main.py), PbxPageClient (client.py) *)
(* and what the entities show (media_player.py).                           *)
(*                                                                         *)
(* `scheduled' are events the SIP thread handed to the event loop of the   *)
(* sidecar, `stream' what one websocket connection has still to deliver.   *)
(* Events of calls are left out: MediaPlayer has them.                     *)
(***************************************************************************)
EXTENDS Integers, Sequences, FiniteSets

CONSTANTS Accounts,
          StreamDepth,      \* maxsize of a subscriber's queue
          MaxChanges,       \* bound on the registrations won and lost
          MaxFaults,        \* bound on broken links and sidecar crashes
          BackoffMax        \* how often the back-off doubles

VARIABLES up, registration, scheduled, socket, stream, client, shown,
          changes, faults

clientVars == <<up, registration, scheduled, socket, stream, client, shown,
                changes, faults>>

ASSUME ClientAssumption ==
    /\ StreamDepth \in Nat /\ MaxChanges \in Nat /\ MaxFaults \in Nat
    /\ BackoffMax \in Nat
    /\ IsFiniteSet(Accounts) /\ Accounts # {}

States == [Accounts -> BOOLEAN]
Unregistered == [a \in Accounts |-> FALSE]

Events == [type: {"registered", "unregistered"}, account: Accounts]
Hellos == [type: {"hello"}, accounts: States]

\* `socket' is the connection as the sidecar has it: accepted but not yet
\* subscribed, subscribed, dropped by the bus, or not there.
SocketType == {"none", "accepted", "subscribed", "dropped"}

\* `task' is where _run stands, `known' whether any account was ever heard of.
ClientType == [task: {"asking", "connecting", "listening", "sleeping"},
               connected: BOOLEAN, known: BOOLEAN, accounts: States,
               backoff: 0..BackoffMax]

(***************************************************************************)
(* The sidecar.                                                            *)
(***************************************************************************)
EventOf(a, registered) ==
    [type |-> IF registered THEN "registered" ELSE "unregistered",
     account |-> a]

\* _on_reg_state, on the SIP thread, and publish_threadsafe; what changes
\* nothing is not published.
RegistrationChanges(a) ==
    /\ up /\ changes < MaxChanges
    /\ changes' = changes + 1
    /\ registration' = [registration EXCEPT ![a] = ~@]
    /\ scheduled' = Append(scheduled, EventOf(a, ~registration[a]))
    /\ UNCHANGED <<up, socket, stream, client, shown, faults>>

\* EventBus.publish: a subscriber whose queue is full is dropped.  What it
\* has in its queue it will still send.
Publish ==
    /\ scheduled # <<>>
    /\ scheduled' = Tail(scheduled)
    /\ LET full == Len(SelectSeq(stream, LAMBDA e : e.type # "hello")) = StreamDepth
       IN  /\ stream' = IF socket = "subscribed" /\ ~full
                        THEN Append(stream, Head(scheduled)) ELSE stream
           /\ socket' = IF socket = "subscribed" /\ full THEN "dropped" ELSE socket
    /\ UNCHANGED <<up, registration, client, shown, changes, faults>>

\* Mutant: the snapshot is sent first and the bus asked afterwards.
HelloThenSubscribe ==
    /\ socket = "accepted"
    /\ stream' = IF stream = <<>>
                 THEN <<[type |-> "hello", accounts |-> registration]>> ELSE stream
    /\ socket' = IF stream = <<>> THEN "accepted" ELSE "subscribed"
    /\ UNCHANGED <<up, registration, scheduled, client, shown, changes, faults>>

\* websocket, once the connection is accepted: it subscribes, and the hello
\* with the snapshot is on its way before any event.
Subscribe ==
    /\ socket = "accepted"
    /\ socket' = "subscribed"
    /\ stream' = <<[type |-> "hello", accounts |-> registration]>>
    /\ UNCHANGED <<up, registration, scheduled, client, shown, changes, faults>>

(***************************************************************************)
(* The client.                                                             *)
(***************************************************************************)
AllRegistered(accounts) == \A a \in Accounts : accounts[a]

\* available: connected, and every account known holds its registration.
Available(c) == c.connected /\ c.known /\ AllRegistered(c.accounts)

\* An entity writes its state when a listener's event makes it.
Shows(c) == shown' = Available(c)

\* _set_connected(False) claims no registration that it cannot observe; if
\* the client was not connected it does nothing.
Disconnected(c) ==
    IF c.connected
    THEN [c EXCEPT !.connected = FALSE, !.accounts = Unregistered] ELSE c

\* An exception in _connect, which the loop survives.
Fails(c) == [Disconnected(c) EXCEPT !.task = "sleeping"]

\* /health.
Asked ==
    /\ client.task = "asking"
    /\ client' = IF up THEN [client EXCEPT !.task = "connecting", !.known = TRUE,
                                           !.accounts = registration]
                 ELSE Fails(client)
    /\ UNCHANGED <<up, registration, scheduled, socket, stream, shown, changes,
                   faults>>

\* ws_connect: entities are told before anything is heard.
Connected ==
    /\ client.task = "connecting"
    /\ \/ /\ up
          /\ client' = [client EXCEPT !.task = "listening", !.connected = TRUE]
          /\ socket' = "accepted" /\ stream' = <<>>
          /\ Shows(client')
       \/ /\ ~up
          /\ client' = Fails(client)
          /\ UNCHANGED <<socket, stream, shown>>
    /\ UNCHANGED <<up, registration, scheduled, changes, faults>>

Heard(accounts, e) ==
    CASE e.type = "hello"        -> e.accounts
      [] e.type = "registered"   -> [accounts EXCEPT ![e.account] = TRUE]
      [] e.type = "unregistered" -> [accounts EXCEPT ![e.account] = FALSE]

\* _handle, and _handle_event of the entities: of a hello they take no note.
Handle ==
    /\ client.task = "listening" /\ stream # <<>>
    /\ stream' = Tail(stream)
    /\ client' = [client EXCEPT !.accounts = Heard(@, Head(stream))]
    /\ IF Head(stream).type = "hello" THEN UNCHANGED shown ELSE Shows(client')
    /\ UNCHANGED <<up, registration, scheduled, socket, changes, faults>>

\* Mutant: the listeners are not told.
DropsUntold ==
    /\ client.task = "listening" /\ socket = "none"
    /\ client' = Fails(client)
    /\ UNCHANGED <<up, registration, scheduled, socket, stream, shown, changes,
                   faults>>

\* Mutant: no heartbeat; only a sidecar that is down is noticed.
DropsUnwatched ==
    /\ client.task = "listening" /\ socket = "none" /\ ~up
    /\ client' = Fails(client)
    /\ Shows(client')
    /\ UNCHANGED <<up, registration, scheduled, socket, stream, changes, faults>>

\* The connection is gone and the client notices: at once, or when a
\* heartbeat is missed.
Drops ==
    /\ client.task = "listening" /\ socket = "none"
    /\ client' = Fails(client)
    /\ Shows(client')
    /\ UNCHANGED <<up, registration, scheduled, socket, stream, changes, faults>>

\* Mutant: the back-off has no ceiling.
WakesLater ==
    /\ client.task = "sleeping"
    /\ client' = [client EXCEPT !.task = "asking", !.backoff = @ + 1]
    /\ UNCHANGED <<up, registration, scheduled, socket, stream, shown, changes,
                   faults>>

\* The sleep of the back-off.
Wakes ==
    /\ client.task = "sleeping"
    /\ client' = [client EXCEPT !.task = "asking",
                     !.backoff = IF @ < BackoffMax THEN @ + 1 ELSE @]
    /\ UNCHANGED <<up, registration, scheduled, socket, stream, shown, changes,
                   faults>>

(***************************************************************************)
(* Faults.                                                                 *)
(***************************************************************************)
\* The link breaks; what it had still to deliver is lost.
Breaks ==
    /\ faults < MaxFaults /\ socket # "none"
    /\ faults' = faults + 1
    /\ socket' = "none" /\ stream' = <<>>
    /\ UNCHANGED <<up, registration, scheduled, client, shown, changes>>

Crashes ==
    /\ faults < MaxFaults /\ up
    /\ faults' = faults + 1
    /\ up' = FALSE
    /\ registration' = Unregistered
    /\ scheduled' = <<>>
    /\ socket' = "none" /\ stream' = <<>>
    /\ UNCHANGED <<client, shown, changes>>

\* Sidecar.start, with every account in the snapshot from the beginning.
Restarts ==
    /\ ~up /\ up' = TRUE
    /\ UNCHANGED <<registration, scheduled, socket, stream, client, shown,
                   changes, faults>>

ClientInit ==
    /\ up = TRUE
    /\ registration = Unregistered
    /\ scheduled = <<>> /\ stream = <<>>
    /\ socket = "none"
    /\ client = [task |-> "asking", connected |-> FALSE, known |-> FALSE,
                 accounts |-> Unregistered, backoff |-> 0]
    /\ shown = FALSE
    /\ changes = 0 /\ faults = 0

ClientNext ==
    \/ \E a \in Accounts : RegistrationChanges(a)
    \/ Publish \/ Subscribe
    \/ Asked \/ Connected \/ Handle \/ Drops \/ Wakes
    \/ Breaks \/ Crashes \/ Restarts

ClientSpec == ClientInit /\ [][ClientNext]_clientVars

(***************************************************************************)
(* Both event loops get to what they have to do, a broken link is noticed  *)
(* by the heartbeat of 30 seconds, and the container is started again.     *)
(***************************************************************************)
ClientProgress ==
    /\ WF_clientVars(Publish) /\ WF_clientVars(Subscribe)
    /\ WF_clientVars(Asked) /\ WF_clientVars(Connected)
    /\ WF_clientVars(Handle) /\ WF_clientVars(Drops) /\ WF_clientVars(Wakes)
    /\ WF_clientVars(Restarts)

FairClientSpec == ClientSpec /\ ClientProgress

(***************************************************************************)
(* Properties.                                                             *)
(***************************************************************************)
\* Every variable holds a value of the kind the code gives it.
ClientTypeOK ==
    /\ up \in BOOLEAN /\ shown \in BOOLEAN
    /\ registration \in States
    /\ scheduled \in Seq(Events)
    /\ socket \in SocketType
    /\ stream \in Seq(Events \cup Hellos)
    /\ client \in ClientType
    /\ changes \in 0..MaxChanges /\ faults \in 0..MaxFaults

\* A hello speaks of every account, an event of its own.
SpeaksOf(e, a) == e.type = "hello" \/ e.account = a

Says(e, a) == IF e.type = "hello" THEN e.accounts[a] ELSE e.type = "registered"

\* Who believes `before' of an account, and hears s, believes `now': the last
\* word decides.
Brings(s, a, before, now) ==
    LET about == {i \in DOMAIN s : SpeaksOf(s[i], a)}
    IN  /\ about = {} => before = now
        /\ \A i \in about : (\A j \in about : j <= i) => Says(s[i], a) = now

\* While the client is on the bus it is late but never wrong: what it knows,
\* brought up to date by what is under way to it, is what the SIP thread has,
\* whatever overtook what between /health, the hello and the events.
LateButRight ==
    socket = "subscribed" /\ client.task = "listening" =>
       \A a \in Accounts :
          Brings(stream \o scheduled, a, client.accounts[a], registration[a])

\* "Unavailable when the sidecar is unreachable" (media_player.py:183): no
\* entity shows a target as available once the client has seen the
\* connection go, and no registration of an earlier connection revives it.
NothingShownBlind == shown => client.task = "listening" /\ client.connected

\* Once faults and registrations come to rest, the client's availability is
\* for good what the SIP thread knows, unless the bus has dropped it.
ComesRight ==
    <>[](\/ socket = "dropped"
         \/ Available(client) <=> AllRegistered(registration))
=============================================================================
