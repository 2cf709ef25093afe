# Media2SIP: specifications and proofs

Media2SIP plays announcements on the handsets of a PBX. It has two halves: a
*sidecar* (`sidecar/app`), a FastAPI process that owns a SIP account and places
calls, and a Home Assistant *integration* (`custom_components/media2sip`), which
presents every paging target as a media player. This directory holds TLA+
modules of the parts where order matters, their TLC configurations, and proofs
that TLAPS checks. Paths below are relative to the repository.

## 1. Inventory

### SIP worker (`sidecar/app/sip.py`)

*State.* The sessions in flight, each a `CallSession` with some twenty fields:
deadlines, the clip, what pjsua2 reported, why it ends. The registration of each
account, the command queue, the history, the thread itself.
*Operations.* One thread runs a loop: pump pjsua2 (its callbacks run inside),
drain the commands (`place_call`, `hangup`, `replace_media`, `set_paused`,
`hangup_target`), service the timers of each session; at the end, the shutdown.
Around it `start` and `stop`, which wait for the thread, and `_submit`, which
hands a command over and awaits its future.
*Interacts* with the control API (commands in, futures out), with the event bus
(`publish_threadsafe`) and with pjsua2 (calls in, callbacks out).
*Hard.* Three clocks per call (answer, playback, hangup) that are cleared and
re-armed by callbacks, commands and pauses; a hangup is asked for and completes
later, or is refused; the causes of an end race each other; two threads that
meet in two queues, and a loop that an exception may end.
*Correct when* a call never outlives its caps, pausing does not lose or repeat
time, every call ends once, with the first cause and one history record, clients
can tell from the events whether a clip sounds, and every command is answered.

### Control API (`sidecar/app/main.py`, `models.py`)

*State.* None but that of its parts: the handlers of the requests being served.
*Operations.* `POST /call` with the policies `reject`, `replace`, `preempt`;
`DELETE /call/{id}`; `POST /call/{id}/pause`; the websocket; read-only endpoints.
*Interacts* with the media resolver, the SIP worker and the bus, by awaits.
*Hard.* Requests are served side by side; what one read before an await may be
stale after it.
*Correct when* every request is answered, and a busy target is not dialled again.

### Event bus (`sidecar/app/events.py`)

*State.* A set of bounded queues, one per websocket; a bounded history.
*Operations.* subscribe, unsubscribe, publish (also from the SIP thread).
*Hard.* A queue at its limit; the moment between the snapshot of a `hello` and the
first event. *Correct when* what a subscriber was told and what is under way to it
add up to what the SIP thread has.

### Media resolver and cache (`sidecar/app/media.py`)

*State.* Transcoded clips in a directory, named by a hash; a lock per key.
*Operations.* resolve, concatenate, evict, list; ffmpeg and ffprobe are child
processes. *Hard.* Eviction beside readers, joins written in place, one lock per
key, sounds that are edited, a process that is killed at any point.
*Correct when* a file has one writer, a clip has its name only once it is whole,
a cached transcode plays what the sound is now, a file that was promised to the SIP
thread can be played, and no lock stays taken.

### Sidecar configuration (`sidecar/app/config.py`)

Read once from the environment or `options.json`. No state that changes.

### Media player entities (`custom_components/media2sip/media_player.py`)

*State.* Per target: enabled, the call id and state last heard of, a queue of at
most three pages, the worker task, and the future on which it holds.
*Operations.* `async_page` under the policies `replace`, `queue`, `preempt`,
`reject`; the worker (`_run_queue`, `_place`, `_place_locked`); turn on and off,
stop, pause, play; `_handle_event`; the end of the worker when the entry reloads.
*Interacts* with the sidecar by HTTP through the client, with its events through
a listener, and with the entities of the same entry through `global_lock`.
*Hard.* A response and the events of its call arrive in any order; timeouts race
late answers; the entity acts on a call id that may be out of date.
*Correct when* every caller is told, pages are placed one at a time, nothing waits
in front of an urgent page, and the lock is given back on every way out.

### Sidecar client (`custom_components/media2sip/client.py`)

*State.* Connected or not, the accounts as last reported, the listeners.
*Operations.* The reconnect loop with back-off, `/health` and `hello`, dispatch
to listeners, one method per endpoint. *Hard.* Three sources of one truth
(`/health`, `hello`, events) on two connections to one peer.
*Correct when* availability is never claimed that cannot be observed, and comes
right once things settle.

### Set-up, migration, service (`custom_components/media2sip/__init__.py`)

Builds the client and the lock of an entry, migrates old entries to targets with
stable ids, reloads on new options, fans the page service out to entities.
*Hard.* The entry and the entity registry are two files that Home Assistant saves
at different times; a reload under a page to several targets.
*Correct when* no entity is left without its target, the entities follow the
targets saved, and a caller hears of each target that failed.

### Config flow (`custom_components/media2sip/config_flow.py`)

The config flow asks for the endpoint and the first targets; options flows add and
edit targets and set the options. Nothing removes a target.
*Hard.* Several flows may be open at once, each over the whole list.
*Correct when* a flow changes no target but the one it edits or adds, and no two
targets share an extension.

### The rest

`diagnostics.py` and `const.py` report and name things; `scripts`, `docs`,
`.github`, `media2sip_sidecar/config.yaml` package and describe them. Nothing
there changes state at run time.

`PROJECT.json` lists for each component what is modelled, and under `hazards`
the places where this code is hard to test, with the properties that watch them.

## 2. Modules

| Module | What it is |
| --- | --- |
| `CallPromise` | What the sidecar promises of one page: placed once, ended once, silent when over. |
| `SipWorker` | The SIP thread's work in detail; implements `CallPromise`. |
| `SipThread` | The life of that thread and the way of a command through it and back. |
| `ControlApi` | Requests, commands and the event stream of the sidecar; calls as clients see them. |
| `MediaCache` | Pages that resolve, join and evict clips over one directory. |
| `MediaPlayer` | The entities above `ControlApi`, with HTTP and the websocket between. |
| `Client` | How registrations reach Home Assistant: SIP thread, bus, websocket, client, entities. |
| `Integration` | A config entry over its life: flows, migration, set-up, reload, the page service. |
| `SipWorkerProofs`, `CallPromiseProofs`, `SipThreadProofs`, `MediaCacheProofs`, `MediaPlayerProofs`, `IntegrationProofs`, `EventProofs`, `ClientProofs` | Theorems (section 4). |
| `MCSipWorker`, `MCSipThread`, `MCControlApi`, `MCMediaCache`, `MCMediaPlayer`, `MCClient`, `MCIntegration` | The above for TLC: symmetry, assumptions on the instances. |

How they meet: `MediaPlayer` EXTENDS `ControlApi`. `SipWorker` is what a call of
`ControlApi` is in detail, `SipThread` what its commands go through, `MediaCache`
what its requests do while their media is being resolved. `Client` has the
websocket of `MediaPlayer` in detail. `Integration` is what reloads the entities of
`MediaPlayer`, and sees of a page only how it ended.

### SipWorker

Everything that touches a session runs on one thread, so a callback, a command,
and one iteration of the timer loop are an action each: `CallBack` (`OnEarly`,
`OnConfirmed`, `OnDisconnected`, `OnMediaActive`, `OnEof`), `Command`
(`PlaceCall`, `Hangup`, `ReplaceMedia`, `SetPaused`, `HangupTarget`, `Preempt`),
`ServiceTimers`, the phases of the loop (`EventsHandled`, `CommandsDrained`,
`Pump`) and the shutdown (`Stop`, `ShutDownCall`, `Stopped`). `session[c]` has the
fields of `CallSession` under their names. `hangup_target` and
`_service_timers` walk a copy of the sessions: `todo` is what is left of it.

A handler is an operator from a session to the set of sessions it may leave,
so a hangup that pjsua2 accepts or refuses, and a clip that opens or not, are
members of that set. `Teardown` calls `StopPlayer` and perhaps `Finish` as the
code does.

Time is counted in pumps of the loop, the longest `libHandleEvents` blocks. A
deadline of 0 is unset, as the code's falsy 0.0. `event`, `filed` and `heard`
are observations that no handler reads.

### SipThread

Two threads. On the event loop: `Start`, `StartRefused` and `Started` (a start-up
error reaches `start` through `_ready`), `Submit`, `RunCallback`, `Stop` and
`Joined`, which waits for the thread but not for ever. On the SIP thread: the
endpoint that comes up or fails, and the turn of the loop (`Pump`, `Pumped`,
`CarriesOut`, `Drained`, `Timed`), which looks at `_stopping` once per turn.
`commands` is the queue with the sentinel of `stop`; `callbacks` is what
`call_soon_threadsafe` has still to run: the event that a command publishes, and
then what its future becomes. `Dies` is an exception from a callback or a timer;
what a command raises is caught. uvicorn is external.

### ControlApi

A request is at one of its awaits: media being resolved, or a command of its own
with the SIP thread. `Decide` runs from the look at `active_calls` to the next
await; `HangUpTarget`, `Dial`, `DialFails`, `Replace`, `Refuse` are the commands
and how they end. `command` holds the hangups and pauses that were asked for.
`bus` is the stream to the one client, `Published` is `EventBus.publish`.

A call is what its clients see of it. `CallMoves` and `CallEnds` stand for what
`SipWorker` shows in detail, and so does `PlayerFails`: a clip that cannot be opened
publishes `disconnected` while the call is still up, again at every turn of the
timers until it is down (`Unplayable`, which `Replace` may come to as well). Early
media and ringing are in `SipWorker` only. `ApiNext` adds clients that do as they
like.

### MediaCache

A request resolves the parts of its wish one after the other and then joins them;
`done` counts them and `Job` is the next. Each await ends an action: `Ask`,
`Fetched`, `Acquire` (the lock of a name, and what is found under it), `Probed`,
`Measured`; `Opens` is the SIP thread at last. ffmpeg is a process of its own:
`Writes` and `FfmpegEnds` are what it does, `ClipEncoded`, `RenameFails` and `Joined`
what the request does when `_run` comes back to it, `EncodeFails` a failure. A clip is
written as a `tmp` file and renamed, a join in place (`Work`).

`file` says of each file whether it is there, half or whole, and which sounds it plays
in a content since replaced. `age` is the order of modification times, as the pairs
`<<x, y>>` of which `x` is no younger than `y`. A rename keeps the time of the last
write (`Renamed`), so that a file touched or written between that and the rename is
younger than the clip. Both the freshness of a transcode (`Hit`) and the eviction rest
on `age`: `Evicted` counts bytes (`Size`, from `Bytes`, what the clip of a source
takes), and a file goes if it and those no older than itself do not fit the budget,
the clip just made and files still being written included. `Edit` is the user at the
sounds, who replaces one, overrides a built-in one or takes the override away; what
has the name afterwards may have any modification time (`Dated`). `Restart` is a
process that is killed.

Three observations that no handler reads: `masked`, the sounds of which the times
cannot tell that they were replaced; `broken`, the joins that a failure left half;
`robbed`, the requests whose file an eviction took after they had looked for it.

### MediaPlayer

EXTENDS `ControlApi`: its `SidecarStep` is what the sidecar does between two
steps of Home Assistant. What the event loop of Home Assistant runs between two
awaits is one action. `ReplaceNow` and `Enqueue` are `async_page`; `Replaced` and
`ReplaceFails` the two ends of `_replace`; `WorkerWakes`, `WorkerSleeps`,
`TakePage`, `GetLock`, `PostAnswered`, `PostFails` and `HoldEnds` are the worker
at its awaits; `DeliverCallEvent` is `_handle_event`; `DeliverRegistration`,
`LinkBreaks`, `LinkReturns` are the client's websocket. A page is its own
request, so `Requests` are the pages. `page[p].place` says where its caller
stands: `played` and `failed` are the two ways in which a caller is told,
`orphaned` is the caller of a page whose queue a reload forgot.

A request that times out in Home Assistant goes on in the sidecar: `PostFails`
and `ReplaceFails` leave `request` alone. `LinkBreaks` loses the events under
way. A `Reload` cancels the workers, forgets the queues and starts new entities,
with new options, a new lock and a new client; the calls stay up.

`options` never changes but by a reload and is a variable, so that one run
covers several policies.

### Client

`registration` is what the SIP thread has; `scheduled` the events it handed to the
event loop; `stream` what the websocket has still to deliver; `socket` the
connection as the sidecar has it; `client` the task of `PbxPageClient` with its
accounts and back-off; `shown` what an entity wrote last. `Asked` is `/health`,
`Connected` the websocket, `Subscribe` the handler's subscription with its `hello`,
`Handle` an event, `Drops` and `Wakes` the way to the next attempt.
`Breaks`, `Crashes` and `Restarts` are the faults. Entities take no note of a
`hello`, so `shown` may differ from `Available` until the next event.
`LateButRight` goes account by account: `Brings(s, a, before, now)` says that who
believed `before` and hears `s` believes `now`, the last word that speaks of `a`
deciding.

### Integration

`entry` and `registry` are the two things Home Assistant keeps, `onDisk` what it
saved of them, each in its own time (`SaveEntry`, `SaveRegistry`); `PowerLoss`
goes back to that. A target is an id and an extension, id 0 in entries of
version 1. `StepUser` and `StepTarget` are the config flow; `OpenAdd`, `OpenEdit`,
`AddTarget`, `EditTarget` the options flows, which may be open side by side.
`Migrate`, `AskSidecar`, `Retry`, `ForwardSetup`, `Listen` and `Reload` are the set-up.
Between `ForwardSetup`, which builds the entities, and `Listen`, which adds the update
listener, the set-up is suspended (`forwarding`), and a form that is saved then
reaches no listener (`unheard`).
`Page`, `Placed` and `Tell` are the service over several entities; when an entity
answers is in `MediaPlayer`. A registry entry maps a unique id to the user's
entity, named by the unique id it was first made for, so that an entity which
loses its target is visible.

## 3. Runs

State counts are distinct states; a run takes three minutes at most.

| Run | Instance | Question | States |
| --- | --- | --- | --- |
| `one_call` | 1 call, 2 clips, all commands, failures, fair | caps, clock arithmetic, history, events, the promise of `CallPromise`; every call ends | 549 000 |
| `two_calls` | 2 calls, 1 or 2 targets, 2 lead-ins, no replace | `hangup_target` leaves nobody out; playback a lead-in after the answer | 2 070 000 |
| `thread_life` | 3 commands, a loop that may die, fair | an answer never overtakes its event; who is left without one | 7 000 |
| `api_requests` | 2 requests, 1 call, a dropped subscriber, clips that fail, fair | every request is answered | 383 000 |
| `media_requests` | 2 pages, 2 URLs, 1 sound, a clip over the budget, an edit, restarts, fair | one writer per file, whole clips, hits that are current, files that stay playable, no lock left taken | 103 000 |
| `player_pages` | 3 pages, 1 urgent, queue of 2, users, clips that fail | overflow, preemption, turn_off, wake-up, order, holds | 1 729 000 |
| `callers_told` | 2 targets, 2 pages, lock, timeouts, reloads, fair | who has the lock; callers are told | 619 000 |
| `one_call_per_target` | 2 pages, 1 urgent, holds, link and clips fail | one call per target behind a queue | 352 000 |
| `client_truth` | 2 accounts, 5 changes, 3 faults, fair | what the client knows, what entities show | 169 000 |
| `integration_life` | 3 extensions, 2 flows, pages to 2 targets, 1 fault, fair | saves, extensions, entities, callers of the service | 819 000 |

Bounds. One session shows everything that concerns a session, because no handler
reads a second one except `hangup_target`, which has a run with two. `Durations`
and `LeadIns` hold values at and above the tail and each other; `MaxCall` is
reached by a pause and by the longest clip; `MaxTime` is large enough for a call
placed at `LastStart` to reach each of its deadlines. Two requests are enough for
every race of two handlers (`api_requests` has one call id, so that the second
request replaces, preempts, is refused, or finds its call gone; that both dial is
`two_posts`). Three pages overflow a queue of two while its worker has not taken one
yet, which waits for the event loop; behind a page that is held, two pages fill the
queue, and an urgent one empties it.
`StreamDepth` stands for the 256 of the code in runs where `DropsSubscriber` is
true and in `client_truth`; elsewhere it is a bound of the model, and who publishes
waits for room. `MaxCommands` bounds the hangups and pauses under way. `QueueDepth`
is 3 in the code; 2 reaches its limit with fewer pages.

Three commands are enough to have one answered, one in the queue and one that
comes too late. `Budget` and `Bytes` count in clips: one of the URLs takes three
where two fit, so that its clip alone is more than the cache may hold and evicts
itself, and the other evicts what the first page counts on. One edit makes a
transcode stale or is hidden by the times, and a second would find the same again. `BackoffMax` counts doublings; three faults
let one come while the client recovers from another. `MaxIds` leaves room
for every target that two flows can add, `MaxRequests` bounds forms and pages,
`MaxFaults` power losses and outages, one of either in a run. `FirstVersions` covers an entry that does not
exist yet, one that is migrated, and one of a newer version, which is refused.

`HoldsTimeOut` lets a hold end at any time. In the code it ends after
`duration + lead_in + 30` seconds (`_call_timeout`); a call outlasts that when it
was paused, when its clip was replaced by a longer one, or when the disconnected
event was lost. `PostsTimeOut` is the timeout of the client's HTTP requests.

What the passing runs do not claim: `one_call_per_target` leaves out HTTP
timeouts, reloads and the policy `replace`, under which an entity can overtake
its own request. `callers_told` has the policy `replace` only, whose pages take the
same way through the queue as the others, and excepts callers whose queued page
was forgotten by a reload. `LeadInHonoured` is claimed for calls whose clip is not
replaced: `replace_media` starts the new clip at once, during the lead-in or before
the answer as well (sip.py:497-499). `EveryCommandAnswered` excepts a loop that has
died, `LateButRight` and `ComesRight` a subscriber that the bus has dropped.
`HeldUntilTheEnd` is claimed where no hold times out, and excepts calls of which the
clip could not be opened (`unplayable`). `HitsAreCurrent` excepts sounds whose
replacement is older than their transcode, or came while ffmpeg read what it replaces
(`masked`); `PromisedIsPlayable` files that an eviction took (`robbed`) and joins that
a failure left half (`broken`). `NoEntityLeftBehind` excepts a power loss between two
saves (`torn`), `EntitiesFollow` a save that falls between the building of the
entities and the listener (`unheard`), and `NoSaveIsLost` lets the last of several
edits of one target win.

Fairness, and why the code justifies it:

- `SipWorker`: the loop goes on (`LoopProgress`), and pjsua2 ends a call whose
  hangup it accepted (`HangupsComplete`), by the timers of its transactions if not
  by an answer. Nothing is assumed of the far end, its media or its players.
- `SipThread`: both threads go on. Nobody has to submit a command or to stop.
- `ControlApi`: the SIP thread gets to every command, and media is resolved or the
  attempt fails.
- `MediaCache`: a fetch is answered or times out, ffmpeg and ffprobe end, and an
  `asyncio.Lock` goes to its waiters in their order (`Acquire`, strongly fair).
- `MediaPlayer`: the event loop gets to every coroutine (`LoopProgress`); `GetLock`
  is strongly fair for the same reason. Nothing is assumed of the sidecar, its
  calls or the websocket.
- `Client`: both event loops go on, the heartbeat of 30 seconds finds a link that
  is broken, and the container is restarted after a crash.
- `Integration`: Home Assistant runs set-ups, retries and the reloads it was asked
  for, and the sidecar comes back in the end.

Deadlock is checked where the model can always move. `CHECK_DEADLOCK FALSE`
stands where it rightly stops: the sidecar after its shutdown, caches, players and
flows once everything asked for was answered and the bounds are spent.

### Where the code and its text disagree

Each is a run whose property TLC violates; `findings` quotes the text.

- `two_posts`: two overlapping `POST /call` of policy `reject` both dial.
- `urgent_waits`: an urgent page does not preempt the call its own entity holds;
  it waits in the queue. The policy `preempt` of an entry has the same effect for
  pages that are not urgent: its worker posts them with `reject`.

The modules have more behaviours that a maintainer should know of. No property
excludes them: none could hold of the code as it is, and where a property comes near
one, it names the exception (above).

Calls and the thread:

- After the loop dies of an exception, `/health` and every `hello` go on claiming
  the registrations of its last snapshot, while each page waits for an answer that
  never comes; `docs/user/usage.md:44-45` promises `unavailable` (`Dies`).
- A clip may be evicted between its resolution and the moment the SIP thread opens
  it (media.py:236, main.py:141-143): the call is placed and nothing is heard
  (`Opens` in `MediaCache`, `PlaybackFailed` in `SipWorker`).
- A player that cannot be opened publishes `disconnected` before the call is down
  (`PlayerFails`): the entity ends its hold, gives `global_lock` back and sends its next
  page while the call is still up. When the call is down, it is published again.
- A subscriber dropped by `Published` keeps its websocket and hears nothing more.

Entities:

- After a hold that timed out, the end of the old call ends the hold of the next
  page.
- Callers of queued pages are not told when the entry reloads (`orphaned`).
- `UrgentSkipsQueue` holds, yet routine pages that fill the queue behind an urgent
  one push it out, because the overflow drops the oldest (`Displaced`).
- A replace that comes after the end of its call is dialled anew, and `Replaced`
  changes the entity's call id while its worker holds a page of another call.
- A page that waits for `global_lock` is sent after its target was turned off
  (`TurnOff` leaves the worker's page alone).
- A call that ends before its response arrives leaves a call id behind
  (`Handled`, then `PostAnswered`); an entity of policy `reject` then refuses pages
  until an urgent page replaces it or the websocket is lost; `media_stop` gets a 404
  and keeps it.

Availability:

- Entities do not write their state at a `hello` (media_player.py:522-531), so what they
  show may be out of date until the next event (`shown` and `Available`).
- The back-off is not reset by a connection that worked: `_connect` never returns
  normally (client.py:158, 189).
- If `/health` works and the websocket does not, the accounts keep the
  registrations of that `/health`; only `connected` hides them.

Cache:

- A chime that was found in the cache may be evicted by the URL of the same page
  before the two are joined.
- A join whose ffmpeg failed stays, half, under its name and is served as cached.
  A join is named by the paths of its parts, so it plays on after one of them was
  edited. A file being written may be evicted, a `.tmp.wav` as well.
- A sound replaced or overridden by one with an older modification time keeps its
  transcode (`Edit`, `masked`), because a transcode is named by the sound's name and
  compared by time alone (media.py:141, 196).
- A clip larger than the budget is evicted as soon as it is made, and so is one that
  others have overtaken by the time it is renamed (`ClipEncoded`).
- Temporary files are left by a crash, and the locks of keys are never removed.

Set-up:

- After a power loss the saved entry and the saved registry may be of different
  moments, and an entity is left behind (`torn`).
- A reload strands the callers of a page to several targets, whose other failures
  are then never told.
- A save between the building of the entities and `add_update_listener` waits for
  the next reload (`ForwardSetup`, `Listen`).
- An edit overwrites what another flow has saved of the same target since its form
  was shown (`EditTarget`).

## 4. Proofs

Every theorem holds for any values of the constants that the assumption of its
module allows. None of the properties is inductive; each module of proofs names
the invariant that is, proves it of the initial states and of every step, one
action at a time, and draws the theorems from it.

**`SipWorkerProofs`** (`ConstantsAssumption`: times are natural numbers and pjsua2
reports an end of file at most `Tail` early). `Spec` implies always `TypeOK`,
`HardCap`, `AnswerCap`, `NoLinger`, `ClipAccounting`, `HistoryExplains`, and
`CompleteOnlyWhenHeard`. `IInv` goes session by session:

- `Sound(s)` holds at any time: the life of the session (`Life`), how `heard`,
  `playback_origin`, `played` and `hangup_deadline` determine each other while a clip
  sounds or is held (`Clip`), and that an unanswered call has its answer deadline
  armed (`Answer`). `NoLinger` needs `Clip`: what stops a player is its
  deadline, so the deadline must be tied to what was heard.
- `Bounded(s)` is what the timers guarantee: the caps. It is not preserved by a
  tick of the clock unless every session was just serviced, so
- `IInv` adds that while the timer loop runs, each session it has visited is
  `OnTime`, a strict form of `Bounded` that leaves room for one tick.

**`EventProofs`** draws three more facts from it. `EventsTellTheTruth`: whatever
drops a player publishes that the clip is over, because a player is attached to a
playback that was started (`Clip`), so `_teardown` leaves a session `Silent`.
`PreemptClearsTarget`: while `hangup_target` walks its copy, every live call to its
target is still to be visited (`Hunt`). `LeadInHonoured`, under the assumption that
no client issues `replace_media`: the deadline that starts a clip is never earlier
than the answer and the lead-in (`Leads`).

**`CallPromiseProofs`** proves the refinement `KeepsCallPromise`. Each handler moves
the page of its session by a `PageStep` (placed, answered, condemned, or its audio
changed), and a `PageStep` of one session is a step of `CallPromise` or none. It
needs that the loops over copies of the sessions visit calls in flight only
(`TodoInFlight`) and that a page not yet placed has no reason to end
(`UnplacedIsBlank`).

**`SipThreadProofs`** (`ThreadAssumption`: the sentinel is no command): `EventsBeforeAnswers`.
A command is in the queue once, and its handler waits, or it has left its event and
its answer among the callbacks in this order (`QueueFits`, `CallbacksFit`).

**`MediaCacheProofs`** (`CacheAssumption`): all the safety properties of the module. A
request that encodes or probes holds the lock of its name (`Guarded`); a half join
is being written by the holder of its lock, or is known to be broken (`HalfJoins`).
`OneWriter`, `ClipsAreWhole` and `JoinsAreWhole` follow. The rest (`DiskInv`) is about the
times and about what was promised. `age` stays a total order of what is on disk through
writes, renames, replacements of any age and evictions (`Orders`). A transcode that
plays what its sound no longer is, is older than the sound, and one in the making that
reads such a content will be, unless the sound is `masked`; `HitsAreCurrent`
follows, because a rename keeps the time. For `PromisedIsPlayable` a request that has
looked for its file and was not robbed has it on disk (`Promises`), whole, or half as a
join that is written or broken; nobody else writes it, because who would holds its
lock.

**`MediaPlayerProofs`** (`PlayerAssumption`, `ApiAssumption`): `PlayerTypeOK`, `PagesAccounted`,
`NoLostWakeup`, `UrgentSkipsQueue`, `LockOwned`, for any number of targets and pages and
under every fault of the model. Queue, worker and pages fit each other from both
sides: what is in a queue is a queued page of that target, once, and an urgent one
in front (`EntityFits`); a page that is queued or at work is where it says
(`PageFits`). Two more hold under hypotheses about the constants, the ones their runs
have:

- `NeverRungTwice`: `OneCallPerTarget` where `PostsTimeOut` and `Reloads` are false and
  no policy is `replace`. A request that is not answered is then the one of the
  worker of its target (`SolePost`), and one about to dial has nobody left in its way
  (`Cleared`). Each hypothesis is needed: a request that timed out, or that a reload
  forgot, goes on beside the next one of the same target, and a replace that finds
  its call gone dials beside the worker. Holds may end early, and the link may break:
  it is the sidecar that sees to it, not what the entity believes.
- `SlotsHeld`: `HeldUntilTheEnd` where `HoldsTimeOut` is false and no policy is `replace`.
  An entity knows of a call only while it holds the page that brought it up, and its
  hold is done only if that call is over or its clip could not be opened (`HoldFits`),
  because the stream tells of the end of such calls only (`Honest`). Requests may time
  out, entries reload and links break.

**`IntegrationProofs`** (`IntegrationAssumption`): `OneTargetPerExtension`,
`NoEntityLeftBehind`, `NoSaveIsLost`, `NothingSwallowed`, `IntegrationTypeOK`. The entry and
its copy on disk are sound lists of targets, each on its own (`EntriesGood`); one config
flow at most gathers targets, and only while there is no entry, an options flow is open
only where there is one with ids (`FlowsFit`); and the set-up has got no further than the
entry's version lets it (`SetupFits`). On these rest two more invariants: what the
registry and the entities are called by are unique ids of targets (`NamesFit`), which
the migration keeps because its new ids are in range, and no more reloads are due than
forms were saved (`CountsFit`). `NoSaveIsLost` is of single steps: what a flow saves
amends the list of that moment (`Amends`), in the target it edits or by one more. The pages of the service go by themselves (`PagesFit`),
but for the entities they may ask for.

**`ClientProofs`** (`ClientAssumption`): `ClientTypeOK` with the ceiling of the back-off,
`NothingShownBlind` and `LateButRight`. The client listens exactly while it is
connected, and whatever ends the listening tells the entities (`ClientFits`).
`LateButRight` is not inductive, as it says nothing of a client about to subscribe:
`ScheduledRight` adds that the events handed over by the SIP thread end, on every
account, with what it has, whoever will hear them. A word more, a word heard and a
`hello` in front are each a lemma about `Brings`.

Only model-checked: liveness, which this prover cannot do (`EveryCallEnds`,
`EveryCommandAnswered`, `EveryRequestAnswered`, `EveryCallerIsTold`, `EveryPageResolved`,
`ComesRight`, `EntitiesFollow`). Every safety property of the passing runs is a theorem,
`OneCallPerTarget`, `HeldUntilTheEnd` and `LeadInHonoured` under the hypotheses named
above.

## 5. Not modelled

- The endpoint's set-up (codecs, ports, transports), RTP statistics, SIP codes and
  the texts of errors: data for the diagnostics, read by nothing else.
- HTTP authentication and the read-only endpoints; the sequence numbers of events
  and the history behind `/events/recent`.
- Media by local path, whose transcode is named by path, time and size (media.py:149),
  and a sound that comes to shadow another while a request waits for the lock of its
  transcode, after it had looked for the path.
- Browsing, `last_error` and the attributes of an entity.
- `async_stop` of the client, and its listeners one by one.
- The names of targets, the forms of the settings, the device registry, the
  version warning, and the removal of an entry.
- `sidecar/app/config.py`: it reads its values once, at the start; they are the constants
  of the modules.
- `diagnostics.py`, `const.py`, packaging, scripts and documentation: nothing that
  changes state.
- Several websocket clients of one sidecar: one Home Assistant is what the
  documentation describes.

## 6. Plan

Done: every component with state that changes has its module, its run and its
theorems.

Left, in this order:

1. `ControlApi` as an abstraction of `SipWorker`: a refinement of the calls as clients
   see them, so that what `MediaPlayer` relies on is shown of the detailed model.
2. The cache of `MediaCache` beside the calls of `SipWorker`: a clip that is evicted
   under its call, end to end.
3. Several websocket clients of one sidecar, and entries that are removed.
