---------------------------- MODULE ClientProofs ----------------------------
(***************************************************************************)
(* Theorems about Client, for any accounts, any depth of the queues and    *)
(* any number of changes and faults.                                       *)
(*                                                                         *)
(* What an entity shows, and what the client claims, hang on the task of   *)
(* the client: it listens exactly while it is connected, and whatever      *)
(* ends the listening tells the entities (ClientFits).                     *)
(*                                                                         *)
(* LateButRight is about events on their way.  By itself it says nothing   *)
(* of a client that is about to subscribe, so ScheduledRight says of the   *)
(* events the SIP thread has handed over, whoever hears them, that they    *)
(* end with what it has.                                                   *)
(***************************************************************************)
EXTENDS Client, SequenceTheorems, TLAPS

ClientFits ==
    /\ client.connected <=> client.task = "listening"
    /\ ~client.connected => ~shown

ClientInv == ClientTypeOK /\ ClientFits

(***************************************************************************)
(* Records and streams.                                                    *)
(***************************************************************************)
\* What the client does to its record leaves one.
LEMMA ClientFields ==
    ASSUME NEW c \in ClientType
    PROVE  /\ c.task \in {"asking", "connecting", "listening", "sleeping"}
           /\ c.connected \in BOOLEAN /\ c.known \in BOOLEAN
           /\ c.accounts \in States /\ c.backoff \in 0..BackoffMax
BY DEF ClientType

LEMMA FailsType ==
    ASSUME NEW c \in ClientType
    PROVE  /\ Fails(c) \in ClientType
           /\ ~Fails(c).connected /\ Fails(c).task = "sleeping"
<1>. DEFINE d == Disconnected(c)
<1>1. Unregistered \in States
  BY DEF Unregistered, States
<1>2. d \in ClientType /\ ~d.connected
  BY <1>1 DEF Disconnected, ClientType
<1>. HIDE DEF d
<1>3. [d EXCEPT !.task = "sleeping"] \in ClientType
  BY <1>2 DEF ClientType
<1>4. ~[d EXCEPT !.task = "sleeping"].connected
      /\ [d EXCEPT !.task = "sleeping"].task = "sleeping"
  BY <1>2 DEF ClientType
<1>. QED  BY <1>3, <1>4 DEF Fails, d

\* A client that is not connected shows nothing as available.
LEMMA BlindIsUnavailable ==
    ASSUME NEW c, ~c.connected
    PROVE  ~Available(c)
BY DEF Available

LEMMA AvailableType ==
    ASSUME NEW c
    PROVE  Available(c) \in BOOLEAN
BY DEF Available

\* What /health, a hello or an event says of the accounts is a state of them.
LEMMA HeardType ==
    ASSUME NEW accounts \in States, NEW e \in Events \cup Hellos
    PROVE  Heard(accounts, e) \in States
<1>1. CASE e \in Events
  <2>1. e.type \in {"registered", "unregistered"} /\ e.account \in Accounts
    BY <1>1 DEF Events
  <2>2. /\ [accounts EXCEPT ![e.account] = TRUE] \in States
        /\ [accounts EXCEPT ![e.account] = FALSE] \in States
    BY <2>1 DEF States
  <2>. QED  BY <2>1, <2>2 DEF Heard
<1>2. CASE e \in Hellos
  <2>1. e.type = "hello" /\ e.accounts \in States
    BY <1>2 DEF Hellos
  <2>. QED  BY <2>1 DEF Heard
<1>. QED  BY <1>1, <1>2

LEMMA EventOfType ==
    ASSUME NEW a \in Accounts, NEW r \in BOOLEAN
    PROVE  EventOf(a, r) \in Events
BY DEF EventOf, Events

LEMMA HelloType ==
    ASSUME NEW r \in States
    PROVE  /\ <<[type |-> "hello", accounts |-> r]>> \in Seq(Events \cup Hellos)
<1>1. [type |-> "hello", accounts |-> r] \in Hellos
  BY DEF Hellos
<1>. QED  BY <1>1

(***************************************************************************)
(* The sidecar's steps leave the client alone.                             *)
(***************************************************************************)
LEMMA SidecarStep ==
    ASSUME ClientInv, ClientAssumption,
           \/ \E a \in Accounts : RegistrationChanges(a)
           \/ Publish \/ Subscribe \/ Breaks \/ Crashes \/ Restarts
           \/ UNCHANGED clientVars
    PROVE  ClientInv'
<1>1. UNCHANGED <<client, shown>>
  BY DEF RegistrationChanges, Publish, Subscribe, Breaks, Crashes, Restarts, clientVars
<1>2. ClientFits'
  BY <1>1 DEF ClientInv, ClientFits
<1>3. ClientTypeOK'
  <2>. USE <1>1 DEF ClientInv, ClientTypeOK
  <2>1. ASSUME NEW a \in Accounts, RegistrationChanges(a)
        PROVE  ClientTypeOK'
    <3>1. registration' \in States
      BY <2>1 DEF RegistrationChanges, States
    <3>2. EventOf(a, ~registration[a]) \in Events
      BY EventOfType DEF States
    <3>3. scheduled' \in Seq(Events)
      BY <2>1, <3>2 DEF RegistrationChanges
    <3>4. changes' \in 0..MaxChanges
      BY <2>1, ClientAssumption DEF RegistrationChanges
    <3>. QED  BY <2>1, <3>1, <3>3, <3>4 DEF RegistrationChanges
  <2>2. CASE Publish
    <3>1. Head(scheduled) \in Events /\ scheduled' \in Seq(Events)
      BY <2>2 DEF Publish
    <3>2. /\ stream' = stream \/ stream' = Append(stream, Head(scheduled))
          /\ socket' = socket \/ socket' = "dropped"
      BY <2>2 DEF Publish
    <3>3. stream' \in Seq(Events \cup Hellos)
      <4>1. Head(scheduled) \in Events \cup Hellos
        BY <3>1
      <4>2. stream \in Seq(Events \cup Hellos)
        OBVIOUS
      <4>3. Append(stream, Head(scheduled)) \in Seq(Events \cup Hellos)
        BY <4>1, <4>2
      <4>. QED  BY <3>2, <4>2, <4>3
    <3>4. socket' \in SocketType
      BY <3>2 DEF SocketType
    <3>. QED  BY <2>2, <3>1, <3>3, <3>4 DEF Publish
  <2>3. CASE Subscribe
    <3>1. stream' \in Seq(Events \cup Hellos)
      BY <2>3, HelloType DEF Subscribe
    <3>. QED  BY <2>3, <3>1 DEF Subscribe, SocketType
  <2>4. CASE Breaks
    <3>1. stream' \in Seq(Events \cup Hellos)
      BY <2>4 DEF Breaks
    <3>. QED  BY <2>4, <3>1, ClientAssumption DEF Breaks, SocketType
  <2>5. CASE Crashes
    <3>1. stream' \in Seq(Events \cup Hellos) /\ scheduled' \in Seq(Events)
      BY <2>5 DEF Crashes
    <3>2. registration' \in States
      BY <2>5 DEF Crashes, Unregistered, States
    <3>3. up' \in BOOLEAN /\ socket' \in SocketType
      BY <2>5 DEF Crashes, SocketType
    <3>4. faults' \in 0..MaxFaults
      BY <2>5, ClientAssumption DEF Crashes
    <3>. QED  BY <2>5, <3>1, <3>2, <3>3, <3>4 DEF Crashes
  <2>6. CASE Restarts
    BY <2>6 DEF Restarts
  <2>7. CASE UNCHANGED clientVars
    BY <2>7 DEF clientVars
  <2>. QED  BY <2>1, <2>2, <2>3, <2>4, <2>5, <2>6, <2>7
<1>. QED  BY <1>2, <1>3 DEF ClientInv

(***************************************************************************)
(* The client's own.                                                       *)
(***************************************************************************)
\* What changes of the client, the connection and the entities.
LEMMA OwnType ==
    ASSUME ClientTypeOK,
           UNCHANGED <<up, registration, scheduled, changes, faults>>,
           client' \in ClientType, shown' \in BOOLEAN,
           socket' \in SocketType, stream' \in Seq(Events \cup Hellos)
    PROVE  ClientTypeOK'
BY DEF ClientTypeOK

\* An exception ends the connection, and tells the entities if there was one.
LEMMA FailureStep ==
    ASSUME ClientInv, client' = Fails(client),
           UNCHANGED <<up, registration, scheduled, socket, stream, changes, faults>>,
           \/ shown' = shown /\ client.task # "listening"
           \/ Shows(client')
    PROVE  ClientInv'
<1>1. client' \in ClientType /\ ~client'.connected /\ client'.task = "sleeping"
  BY FailsType DEF ClientInv, ClientTypeOK
<1>2. ~shown'
  BY <1>1, BlindIsUnavailable DEF ClientInv, ClientFits, Shows
<1>3. shown' \in BOOLEAN
  BY AvailableType DEF ClientInv, ClientTypeOK, Shows
<1>4. ClientTypeOK'
  BY <1>1, <1>3, OwnType DEF ClientInv, ClientTypeOK
<1>. QED  BY <1>1, <1>2, <1>4 DEF ClientInv, ClientFits

LEMMA AskedStep ==
    ASSUME ClientInv, Asked
    PROVE  ClientInv'
<1>1. CASE ~up
  BY <1>1, FailureStep DEF Asked
<1>2. CASE up
  <2>1. client' = [client EXCEPT !.task = "connecting", !.known = TRUE,
                                 !.accounts = registration]
    BY <1>2 DEF Asked
  <2>2. /\ client' \in ClientType
        /\ client'.task = "connecting" /\ client'.connected = client.connected
    BY <2>1 DEF ClientInv, ClientTypeOK, ClientType
  <2>3. ClientTypeOK'
    BY <2>2, OwnType DEF Asked, ClientInv, ClientTypeOK
  <2>. QED  BY <2>2, <2>3 DEF Asked, ClientInv, ClientFits
<1>. QED  BY <1>1, <1>2 DEF ClientInv, ClientTypeOK

LEMMA ConnectedStep ==
    ASSUME ClientInv, Connected
    PROVE  ClientInv'
<1>1. CASE ~up
  BY <1>1, FailureStep DEF Connected
<1>2. CASE up
  <2>1. /\ client' = [client EXCEPT !.task = "listening", !.connected = TRUE]
        /\ socket' = "accepted" /\ stream' = <<>> /\ Shows(client')
    BY <1>2 DEF Connected
  <2>2. /\ client' \in ClientType
        /\ client'.task = "listening" /\ client'.connected
    BY <2>1 DEF ClientInv, ClientTypeOK, ClientType
  <2>3. shown' \in BOOLEAN
    BY <2>1, AvailableType DEF Shows
  <2>4. socket' \in SocketType /\ stream' \in Seq(Events \cup Hellos)
    BY <2>1 DEF SocketType
  <2>5. ClientTypeOK'
    BY <2>2, <2>3, <2>4, OwnType DEF Connected, ClientInv
  <2>. QED  BY <2>2, <2>5 DEF ClientInv, ClientFits
<1>. QED  BY <1>1, <1>2 DEF ClientInv, ClientTypeOK

LEMMA HandleStep ==
    ASSUME ClientInv, Handle
    PROVE  ClientInv'
<1>1. Head(stream) \in Events \cup Hellos /\ stream' \in Seq(Events \cup Hellos)
  BY DEF Handle, ClientInv, ClientTypeOK
<1>2. Heard(client.accounts, Head(stream)) \in States
  BY <1>1, HeardType, ClientFields DEF ClientInv, ClientTypeOK
<1>3. /\ client' \in ClientType
      /\ client'.task = "listening" /\ client'.connected
  BY <1>2 DEF Handle, ClientInv, ClientTypeOK, ClientFits, ClientType
<1>4. shown' = shown \/ shown' = Available(client')
  BY DEF Handle, Shows
<1>5. shown' \in BOOLEAN
  BY <1>4, AvailableType DEF ClientInv, ClientTypeOK
<1>6. ClientTypeOK'
  BY <1>1, <1>3, <1>5, OwnType DEF Handle, ClientInv, ClientTypeOK
<1>. QED  BY <1>3, <1>6 DEF ClientInv, ClientFits

LEMMA WakesStep ==
    ASSUME ClientInv, ClientAssumption, Wakes
    PROVE  ClientInv'
<1>. DEFINE b == IF client.backoff < BackoffMax THEN client.backoff + 1 ELSE client.backoff
<1>0. b \in 0..BackoffMax
  BY ClientFields, ClientAssumption DEF ClientInv, ClientTypeOK
<1>1. /\ client' \in ClientType
      /\ client'.task = "asking" /\ client'.connected = client.connected
  <2>1. client' = [client EXCEPT !.task = "asking", !.backoff = b]
    BY DEF Wakes
  <2>. HIDE DEF b
  <2>. QED  BY <1>0, <2>1 DEF ClientInv, ClientTypeOK, ClientType
<1>2. ClientTypeOK'
  BY <1>1, OwnType DEF Wakes, ClientInv, ClientTypeOK
<1>. QED  BY <1>1, <1>2 DEF Wakes, ClientInv, ClientFits

(***************************************************************************)
(* Late but right: the last word on an account.                            *)
(***************************************************************************)
Words == Events \cup Hellos

\* A word more: it is the last one on the accounts it speaks of, and on the
\* others none.
LEMMA BringsAppended ==
    ASSUME NEW s \in Seq(Words), NEW e \in Words, NEW a, NEW before, NEW now,
           NEW now2, Brings(s, a, before, now),
           IF SpeaksOf(e, a) THEN now2 = Says(e, a) ELSE now2 = now
    PROVE  Brings(Append(s, e), a, before, now2)
<1>. DEFINE t == Append(s, e)
            n == Len(s)
<1>1. /\ n \in Nat /\ DOMAIN s = 1..n /\ DOMAIN t = 1..(n + 1)
      /\ \A i \in 1..n : t[i] = s[i]
      /\ t[n + 1] = e
  OBVIOUS
<1>. HIDE DEF t, n
<1>2. CASE SpeaksOf(e, a)
  <2>1. SpeaksOf(t[n + 1], a) /\ n + 1 \in DOMAIN t
    BY <1>1, <1>2
  <2>2. ASSUME NEW i \in DOMAIN t,
               \A j \in DOMAIN t : SpeaksOf(t[j], a) => j <= i
        PROVE  Says(t[i], a) = now2
    <3>1. i = n + 1
      BY <1>1, <2>1, <2>2
    <3>. QED  BY <1>1, <1>2, <3>1
  <2>. QED  BY <2>1, <2>2 DEF Brings, t
<1>3. CASE ~SpeaksOf(e, a)
  <2>1. \A i \in DOMAIN t : SpeaksOf(t[i], a) => i \in DOMAIN s /\ t[i] = s[i]
    BY <1>1, <1>3
  <2>2. \A i \in DOMAIN s : i \in DOMAIN t /\ t[i] = s[i]
    BY <1>1
  <2>. QED  BY <1>3, <2>1, <2>2 DEF Brings, t
<1>. QED  BY <1>2, <1>3

\* A word heard: whoever has taken it in needs only the rest.
LEMMA BringsOnward ==
    ASSUME NEW s \in Seq(Words), s # <<>>, NEW a, NEW before, NEW now,
           NEW after, Brings(s, a, before, now),
           IF SpeaksOf(Head(s), a) THEN after = Says(Head(s), a) ELSE after = before
    PROVE  Brings(Tail(s), a, after, now)
<1>. DEFINE t == Tail(s)
            n == Len(s)
<1>1. /\ n \in Nat \ {0} /\ DOMAIN s = 1..n /\ DOMAIN t = 1..(n - 1)
      /\ \A i \in 1..(n - 1) : t[i] = s[i + 1]
      /\ Head(s) = s[1]
  BY HeadTailProperties
<1>. HIDE DEF t, n
<1>2. ASSUME \A i \in DOMAIN t : ~SpeaksOf(t[i], a)
      PROVE  after = now
  <2>1. \A i \in DOMAIN s : i = 1 \/ ~SpeaksOf(s[i], a)
    <3>. SUFFICES ASSUME NEW i \in DOMAIN s, i # 1
                  PROVE  ~SpeaksOf(s[i], a)
      OBVIOUS
    <3>1. i - 1 \in DOMAIN t /\ t[i - 1] = s[i]
      BY <1>1
    <3>. QED  BY <1>2, <3>1
  <2>2. CASE SpeaksOf(s[1], a)
    <3>1. \A j \in {i \in DOMAIN s : SpeaksOf(s[i], a)} : j <= 1
      BY <1>1, <2>1
    <3>2. 1 \in {i \in DOMAIN s : SpeaksOf(s[i], a)}
      BY <1>1, <2>2
    <3>. QED  BY <1>1, <2>2, <3>1, <3>2 DEF Brings
  <2>3. CASE ~SpeaksOf(s[1], a)
    <3>1. {i \in DOMAIN s : SpeaksOf(s[i], a)} = {}
      BY <2>1, <2>3
    <3>. QED  BY <1>1, <2>3, <3>1 DEF Brings
  <2>. QED  BY <2>2, <2>3
<1>3. ASSUME NEW i \in DOMAIN t, SpeaksOf(t[i], a),
             \A j \in DOMAIN t : SpeaksOf(t[j], a) => j <= i
      PROVE  Says(t[i], a) = now
  <2>1. i + 1 \in DOMAIN s /\ s[i + 1] = t[i] /\ i \in 1..(n - 1)
    BY <1>1, <1>3
  <2>2. ASSUME NEW j \in DOMAIN s, SpeaksOf(s[j], a)
        PROVE  j <= i + 1
    <3>1. CASE j = 1
      BY <2>1, <3>1, <1>1
    <3>2. CASE j # 1
      <4>1. j - 1 \in DOMAIN t /\ t[j - 1] = s[j]
        BY <1>1, <3>2
      <4>2. j - 1 <= i
        BY <1>3, <2>2, <4>1
      <4>. QED  BY <1>1, <2>1, <4>2
    <3>. QED  BY <3>1, <3>2
  <2>. QED  BY <1>3, <2>1, <2>2 DEF Brings
<1>. QED  BY <1>2, <1>3 DEF Brings, t

\* A snapshot of what is so is followed well by words that end with it.
LEMMA BringsPrefixed ==
    ASSUME NEW s \in Seq(Words), NEW h \in Words, NEW a, NEW before, NEW now,
           Brings(s, a, now, now), SpeaksOf(h, a), Says(h, a) = now
    PROVE  Brings(<<h>> \o s, a, before, now)
<1>. DEFINE t == <<h>> \o s
            n == Len(s)
<1>1. /\ n \in Nat /\ DOMAIN s = 1..n /\ DOMAIN t = 1..(n + 1)
      /\ \A i \in 1..n : t[i + 1] = s[i]
      /\ t[1] = h
  <2>1. <<h>> \in Seq(Words) /\ Len(<<h>>) = 1
    OBVIOUS
  <2>2. t \in Seq(Words) /\ Len(t) = n + 1 /\ n \in Nat
    BY <2>1, ConcatProperties, LenProperties
  <2>3. \A i \in 1..(n + 1) : t[i] = IF i <= 1 THEN h ELSE s[i - 1]
    BY <2>1, ConcatProperties
  <2>. QED  BY <2>2, <2>3, LenProperties
<1>. HIDE DEF t, n
<1>2. 1 \in DOMAIN t /\ SpeaksOf(t[1], a)
  BY <1>1
<1>3. ASSUME NEW i \in DOMAIN t, SpeaksOf(t[i], a),
             \A j \in DOMAIN t : SpeaksOf(t[j], a) => j <= i
      PROVE  Says(t[i], a) = now
  <2>1. CASE i = 1
    BY <1>1, <2>1
  <2>2. CASE i # 1
    <3>1. i - 1 \in DOMAIN s /\ s[i - 1] = t[i]
      BY <1>1, <2>2
    <3>2. ASSUME NEW j \in DOMAIN s, SpeaksOf(s[j], a)
          PROVE  j <= i - 1
      <4>1. j + 1 \in DOMAIN t /\ t[j + 1] = s[j]
        BY <1>1
      <4>2. j + 1 <= i
        BY <1>3, <3>2, <4>1
      <4>. QED  BY <1>1, <4>2
    <3>. QED  BY <1>3, <3>1, <3>2 DEF Brings
  <2>. QED  BY <2>1, <2>2
<1>. QED  BY <1>2, <1>3 DEF Brings, t

\* What is under way when a word passes from the thread to the connection,
\* and when one is heard.
LEMMA PassedOn ==
    ASSUME NEW s \in Seq(Words), NEW t \in Seq(Words), t # <<>>
    PROVE  Append(s, Head(t)) \o Tail(t) = s \o t
<1>1. Head(t) \in Words /\ Tail(t) \in Seq(Words)
  BY HeadTailProperties
<1>2. <<Head(t)>> \in Seq(Words) /\ Append(s, Head(t)) = s \o <<Head(t)>>
  BY <1>1, AppendIsConcat
<1>3. (s \o <<Head(t)>>) \o Tail(t) = s \o (<<Head(t)>> \o Tail(t))
  BY <1>1, <1>2, ConcatAssociative
<1>4. <<Head(t)>> \o Tail(t) = t
  <2>. DEFINE u == <<Head(t)>> \o Tail(t)
  <2>1. Len(t) \in Nat \ {0} /\ Len(Tail(t)) = Len(t) - 1
        /\ \A i \in 1..(Len(t) - 1) : Tail(t)[i] = t[i + 1]
    BY HeadTailProperties, EmptySeq
  <2>2. u \in Seq(Words) /\ Len(u) = Len(t)
        /\ \A i \in 1..Len(t) : u[i] = IF i <= 1 THEN Head(t) ELSE Tail(t)[i - 1]
    BY <1>1, <1>2, <2>1, ConcatProperties
  <2>3. ASSUME NEW i \in 1..Len(u)
        PROVE  u[i] = t[i]
    BY <2>1, <2>2
  <2>. HIDE DEF u
  <2>4. u = t
    BY <2>2, <2>3, SeqEqual
  <2>. QED  BY <2>4 DEF u
<1>. QED  BY <1>2, <1>3, <1>4

LEMMA HeardFirst ==
    ASSUME NEW s \in Seq(Words), NEW t \in Seq(Words), s # <<>>
    PROVE  /\ s \o t # <<>> /\ s \o t \in Seq(Words)
           /\ Head(s \o t) = Head(s)
           /\ Tail(s \o t) = Tail(s) \o t
<1>. DEFINE u == s \o t
            v == Tail(s) \o t
<1>1. /\ Len(s) \in Nat \ {0} /\ Len(t) \in Nat
      /\ Tail(s) \in Seq(Words) /\ Len(Tail(s)) = Len(s) - 1
      /\ \A i \in 1..(Len(s) - 1) : Tail(s)[i] = s[i + 1]
  BY HeadTailProperties, EmptySeq, LenProperties
<1>2. /\ u \in Seq(Words) /\ Len(u) = Len(s) + Len(t)
      /\ \A i \in 1..Len(u) : u[i] = IF i <= Len(s) THEN s[i] ELSE t[i - Len(s)]
  BY ConcatProperties
<1>3. /\ v \in Seq(Words) /\ Len(v) = Len(s) - 1 + Len(t)
      /\ \A i \in 1..Len(v) : v[i] = IF i <= Len(s) - 1 THEN Tail(s)[i]
                                     ELSE t[i - (Len(s) - 1)]
  BY <1>1, ConcatProperties
<1>4. u # <<>>
  BY <1>1, <1>2
<1>. HIDE DEF u, v
<1>5. /\ Tail(u) \in Seq(Words) /\ Len(Tail(u)) = Len(v)
      /\ \A i \in 1..Len(v) : Tail(u)[i] = u[i + 1]
  BY <1>1, <1>2, <1>3, <1>4, HeadTailProperties
<1>6. ASSUME NEW i \in 1..Len(Tail(u))
      PROVE  Tail(u)[i] = v[i]
  <2>1. i \in 1..Len(v) /\ i + 1 \in 1..Len(u) /\ i - (Len(s) - 1) = i + 1 - Len(s)
    BY <1>1, <1>2, <1>3, <1>5
  <2>. QED  BY <1>1, <1>2, <1>3, <1>5, <2>1
<1>7. Tail(u) = v
  BY <1>3, <1>5, <1>6, SeqEqual
<1>8. Head(u) = u[1] /\ Head(s) = s[1]
  BY <1>2, <1>4
<1>9. Head(u) = Head(s)
  BY <1>1, <1>2, <1>8
<1>. QED  BY <1>2, <1>4, <1>7, <1>9 DEF u, v

\* What the SIP thread has handed over ends, on every account, with what it
\* has.
ScheduledRight ==
    \A a \in Accounts : Brings(scheduled, a, registration[a], registration[a])

TruthInv == ScheduledRight /\ LateButRight

LEMMA SequencesType ==
    ASSUME ClientTypeOK
    PROVE  /\ scheduled \in Seq(Words) /\ stream \in Seq(Words)
           /\ stream \o scheduled \in Seq(Words)
<1>1. scheduled \in Seq(Words)
  BY SeqMonotonic DEF ClientTypeOK, Words
<1>2. stream \in Seq(Words)
  BY DEF ClientTypeOK, Words
<1>. QED  BY <1>1, <1>2, ConcatProperties

\* The thread tells of a registration won or lost after all it told before.
LEMMA ChangeKeepsTruth ==
    ASSUME ClientTypeOK, TruthInv, NEW b \in Accounts, RegistrationChanges(b)
    PROVE  TruthInv'
<1>. DEFINE e == EventOf(b, ~registration[b])
<1>1. /\ e \in Words /\ e.type # "hello" /\ e.account = b
      /\ Says(e, b) = ~registration[b]
  <2>1. registration[b] \in BOOLEAN
    BY DEF ClientTypeOK, States
  <2>. QED  BY <2>1 DEF EventOf, Words, Events, Says
<1>. HIDE DEF e
<1>2. /\ scheduled' = Append(scheduled, e)
      /\ registration' = [registration EXCEPT ![b] = ~registration[b]]
      /\ UNCHANGED <<socket, stream, client>>
  BY DEF RegistrationChanges, e
<1>3. ASSUME NEW a \in Accounts
      PROVE  IF SpeaksOf(e, a) THEN registration'[a] = Says(e, a)
             ELSE registration'[a] = registration[a]
  BY <1>1, <1>2 DEF SpeaksOf, ClientTypeOK, States
<1>4. ScheduledRight'
  <2>. SUFFICES ASSUME NEW a \in Accounts
                PROVE  Brings(scheduled', a, registration'[a], registration'[a])
    BY DEF ScheduledRight
  <2>1. Brings(scheduled', a, registration[a], registration'[a])
    BY <1>1, <1>2, <1>3, BringsAppended, SequencesType DEF TruthInv, ScheduledRight
  <2>2. CASE SpeaksOf(e, a)
    <3>1. \E i \in DOMAIN scheduled' : SpeaksOf(scheduled'[i], a)
      <4>1. Len(scheduled) + 1 \in DOMAIN scheduled' /\ scheduled'[Len(scheduled) + 1] = e
        BY <1>1, <1>2, SequencesType
      <4>. QED  BY <2>2, <4>1
    <3>. QED  BY <2>1, <3>1 DEF Brings
  <2>3. CASE ~SpeaksOf(e, a)
    BY <1>3, <2>1, <2>3
  <2>. QED  BY <2>2, <2>3
<1>5. LateButRight'
  <2>. SUFFICES ASSUME socket' = "subscribed", client'.task = "listening",
                       NEW a \in Accounts
                PROVE  Brings(stream' \o scheduled', a, client'.accounts[a],
                              registration'[a])
    BY DEF LateButRight
  <2>1. Brings(stream \o scheduled, a, client.accounts[a], registration[a])
    BY <1>2 DEF TruthInv, LateButRight
  <2>2. stream' \o scheduled' = Append(stream \o scheduled, e)
    <3>1. scheduled' = scheduled \o <<e>> /\ <<e>> \in Seq(Words)
      BY <1>1, <1>2, SequencesType, AppendIsConcat
    <3>2. Append(stream \o scheduled, e) = (stream \o scheduled) \o <<e>>
      BY <1>1, SequencesType, AppendIsConcat
    <3>3. (stream \o scheduled) \o <<e>> = stream \o (scheduled \o <<e>>)
      BY <3>1, SequencesType, ConcatAssociative
    <3>. QED  BY <1>2, <3>1, <3>2, <3>3
  <2>3. Brings(Append(stream \o scheduled, e), a, client.accounts[a], registration'[a])
    BY <1>1, <1>3, <2>1, BringsAppended, SequencesType
  <2>. QED  BY <1>2, <2>2, <2>3
<1>. QED  BY <1>4, <1>5 DEF TruthInv

\* The bus passes on the oldest, or drops the subscriber.
LEMMA PublishKeepsTruth ==
    ASSUME ClientTypeOK, TruthInv, Publish
    PROVE  TruthInv'
<1>1. /\ scheduled # <<>> /\ scheduled' = Tail(scheduled)
      /\ UNCHANGED <<registration, client>>
      /\ socket' = "subscribed"
            => socket = "subscribed" /\ stream' = Append(stream, Head(scheduled))
  BY DEF Publish
<1>2. ScheduledRight'
  <2>. SUFFICES ASSUME NEW a \in Accounts
                PROVE  Brings(Tail(scheduled), a, registration[a], registration[a])
    BY <1>1 DEF ScheduledRight
  <2>1. Brings(scheduled, a, registration[a], registration[a])
    BY DEF TruthInv, ScheduledRight
  <2>. DEFINE after == IF SpeaksOf(Head(scheduled), a)
                       THEN Says(Head(scheduled), a) ELSE registration[a]
  <2>2. Brings(Tail(scheduled), a, after, registration[a])
    BY <1>1, <2>1, BringsOnward, SequencesType
  <2>. QED  BY <2>2 DEF Brings
<1>3. LateButRight'
  <2>. SUFFICES ASSUME socket' = "subscribed", client'.task = "listening",
                       NEW a \in Accounts
                PROVE  Brings(stream' \o scheduled', a, client'.accounts[a],
                              registration'[a])
    BY DEF LateButRight
  <2>1. Brings(stream \o scheduled, a, client.accounts[a], registration[a])
    BY <1>1 DEF TruthInv, LateButRight
  <2>2. stream' \o scheduled' = stream \o scheduled
    BY <1>1, PassedOn, SequencesType
  <2>. QED  BY <1>1, <2>1, <2>2
<1>. QED  BY <1>2, <1>3 DEF TruthInv

\* The hello says what is so, and is ahead of every event still to come.
LEMMA SubscribeKeepsTruth ==
    ASSUME ClientTypeOK, TruthInv, Subscribe
    PROVE  TruthInv'
<1>. DEFINE h == [type |-> "hello", accounts |-> registration]
<1>1. stream' = <<h>> /\ UNCHANGED <<registration, scheduled, client>>
  BY DEF Subscribe
<1>2. /\ h \in Words
      /\ \A a \in Accounts : SpeaksOf(h, a) /\ Says(h, a) = registration[a]
  BY DEF ClientTypeOK, Words, Hellos, SpeaksOf, Says
<1>. HIDE DEF h
<1>3. ScheduledRight'
  BY <1>1 DEF TruthInv, ScheduledRight
<1>4. \A a \in Accounts : Brings(<<h>> \o scheduled, a, client.accounts[a], registration[a])
  BY <1>2, BringsPrefixed, SequencesType DEF TruthInv, ScheduledRight
<1>. QED  BY <1>1, <1>3, <1>4 DEF TruthInv, LateButRight

\* What the client hears it takes in, and needs only the rest.
LEMMA HandleKeepsTruth ==
    ASSUME ClientTypeOK, TruthInv, Handle
    PROVE  TruthInv'
<1>. DEFINE e == Head(stream)
<1>1. /\ client.task = "listening" /\ stream # <<>> /\ stream' = Tail(stream)
      /\ client' = [client EXCEPT !.accounts = Heard(client.accounts, e)]
      /\ UNCHANGED <<registration, scheduled, socket>>
  BY DEF Handle
<1>2. e \in Words
  BY <1>1, SequencesType, HeadTailProperties
<1>. HIDE DEF e
<1>3. /\ client.accounts \in States
      /\ client'.accounts = Heard(client.accounts, e)
  BY <1>1, ClientFields DEF ClientTypeOK, ClientType
<1>4. ASSUME NEW a \in Accounts
      PROVE  IF SpeaksOf(e, a) THEN client'.accounts[a] = Says(e, a)
             ELSE client'.accounts[a] = client.accounts[a]
  <2>1. CASE e \in Hellos
    <3>1. e.type = "hello"
      BY <2>1 DEF Hellos
    <3>. QED  BY <1>3, <3>1 DEF Heard, SpeaksOf, Says
  <2>2. CASE e \in Events
    <3>1. e.type \in {"registered", "unregistered"} /\ e.account \in Accounts
      BY <2>2 DEF Events
    <3>2. Heard(client.accounts, e) =
             [client.accounts EXCEPT ![e.account] = (e.type = "registered")]
      BY <3>1 DEF Heard
    <3>. QED  BY <1>3, <3>1, <3>2 DEF SpeaksOf, Says, States
  <2>. QED  BY <1>2, <2>1, <2>2 DEF Words
<1>5. ScheduledRight'
  BY <1>1 DEF TruthInv, ScheduledRight
<1>6. LateButRight'
  <2>. SUFFICES ASSUME socket = "subscribed", NEW a \in Accounts
                PROVE  Brings(Tail(stream) \o scheduled, a, client'.accounts[a],
                              registration[a])
    BY <1>1 DEF LateButRight
  <2>1. Brings(stream \o scheduled, a, client.accounts[a], registration[a])
    BY <1>1 DEF TruthInv, LateButRight
  <2>2. /\ stream \o scheduled # <<>> /\ Head(stream \o scheduled) = e
        /\ Tail(stream \o scheduled) = Tail(stream) \o scheduled
    BY <1>1, HeardFirst, SequencesType DEF e
  <2>3. Brings(Tail(stream \o scheduled), a, client'.accounts[a], registration[a])
    BY <1>4, <2>1, <2>2, BringsOnward, SequencesType
  <2>. QED  BY <2>2, <2>3
<1>. QED  BY <1>5, <1>6 DEF TruthInv

\* Nobody listens on what is not subscribed.
LEMMA OthersKeepTruth ==
    ASSUME ClientInv, TruthInv,
           \/ Asked \/ Connected \/ Drops \/ Wakes
           \/ Breaks \/ Crashes \/ Restarts \/ UNCHANGED clientVars
    PROVE  TruthInv'
<1>1. CASE Asked
  <2>1. client'.task # "listening"
    BY <1>1, FailsType DEF Asked, ClientInv, ClientTypeOK, ClientType
  <2>. QED  BY <1>1, <2>1 DEF Asked, TruthInv, ScheduledRight, LateButRight
<1>2. CASE Connected
  <2>1. socket' # "subscribed" \/ client'.task # "listening"
    BY <1>2, FailsType DEF Connected, ClientInv, ClientTypeOK
  <2>. QED  BY <1>2, <2>1 DEF Connected, TruthInv, ScheduledRight, LateButRight
<1>3. CASE Drops
  BY <1>3 DEF Drops, TruthInv, ScheduledRight, LateButRight
<1>4. CASE Wakes
  <2>1. client'.task # "listening"
    BY <1>4 DEF Wakes, ClientInv, ClientTypeOK, ClientType
  <2>. QED  BY <1>4, <2>1 DEF Wakes, TruthInv, ScheduledRight, LateButRight
<1>5. CASE Breaks
  BY <1>5 DEF Breaks, TruthInv, ScheduledRight, LateButRight
<1>6. CASE Crashes
  <2>1. scheduled' = <<>> /\ socket' = "none"
    BY <1>6 DEF Crashes
  <2>. QED  BY <2>1 DEF TruthInv, ScheduledRight, LateButRight, Brings
<1>7. CASE Restarts
  BY <1>7 DEF Restarts, TruthInv, ScheduledRight, LateButRight
<1>8. CASE UNCHANGED clientVars
  BY <1>8 DEF clientVars, TruthInv, ScheduledRight, LateButRight
<1>. QED  BY <1>1, <1>2, <1>3, <1>4, <1>5, <1>6, <1>7, <1>8

LEMMA InitiallyTrue ==
    ASSUME ClientInit
    PROVE  TruthInv
BY DEF ClientInit, TruthInv, ScheduledRight, LateButRight, Brings

(***************************************************************************)
(* Theorems.                                                               *)
(***************************************************************************)
LEMMA ClientInitInv ==
    ASSUME ClientInit, ClientAssumption
    PROVE  ClientInv
<1>1. Unregistered \in States
  BY DEF Unregistered, States
<1>2. client \in ClientType /\ ~client.connected /\ client.task = "asking"
  BY <1>1, ClientAssumption DEF ClientInit, ClientType
<1>3. scheduled \in Seq(Events) /\ stream \in Seq(Events \cup Hellos)
  BY DEF ClientInit
<1>4. up \in BOOLEAN /\ shown \in BOOLEAN /\ socket \in SocketType
  BY DEF ClientInit, SocketType
<1>5. changes \in 0..MaxChanges /\ faults \in 0..MaxFaults
  BY ClientAssumption DEF ClientInit
<1>6. ClientTypeOK
  BY <1>1, <1>2, <1>3, <1>4, <1>5 DEF ClientInit, ClientTypeOK
<1>. QED  BY <1>2, <1>6 DEF ClientInit, ClientInv, ClientFits

LEMMA ClientStep ==
    ASSUME ClientInv, ClientAssumption, [ClientNext]_clientVars
    PROVE  ClientInv'
<1>1. CASE Drops
  BY <1>1, FailureStep DEF Drops
<1>. QED
  BY <1>1, SidecarStep, AskedStep, ConnectedStep, HandleStep, WakesStep
     DEF ClientNext

\* The task, the connection and what is shown fit each other at any moment.
THEOREM ClientInvariance == ClientSpec => []ClientInv
<1>1. ClientInit => ClientInv
  BY ClientInitInv, ClientAssumption
<1>2. ClientInv /\ [ClientNext]_clientVars => ClientInv'
  BY ClientStep, ClientAssumption
<1>. QED  BY <1>1, <1>2, PTL DEF ClientSpec

\* The back-off keeps its ceiling, and streams, accounts and states their
\* kind (client.py:153-171).
THEOREM BackoffIsBounded == ClientSpec => []ClientTypeOK
<1>1. ClientInv => ClientTypeOK
  BY DEF ClientInv
<1>. QED  BY <1>1, ClientInvariance, PTL

\* No entity shows a target as available that the client cannot observe
\* (media_player.py:182-189, client.py:217-223).
THEOREM NeverShownBlind == ClientSpec => []NothingShownBlind
<1>1. ClientInv => NothingShownBlind
  BY DEF ClientInv, ClientFits, NothingShownBlind
<1>. QED  BY <1>1, ClientInvariance, PTL

\* While it is on the bus the client is late but never wrong: /health, the
\* hello and the events may overtake each other as they like, the last word
\* on an account is what the SIP thread has (main.py:236-261, sip.py:553-577,
\* client.py:173-209).
THEOREM LateNeverWrong == ClientSpec => []LateButRight
<1>1. ClientInit => TruthInv
  BY InitiallyTrue
<1>2. ClientInv /\ TruthInv /\ [ClientNext]_clientVars => TruthInv'
  BY ChangeKeepsTruth, PublishKeepsTruth, SubscribeKeepsTruth, HandleKeepsTruth,
     OthersKeepTruth DEF ClientNext, ClientInv
<1>3. TruthInv => LateButRight
  BY DEF TruthInv
<1>. QED  BY <1>1, <1>2, <1>3, ClientInvariance, PTL DEF ClientSpec
=============================================================================
