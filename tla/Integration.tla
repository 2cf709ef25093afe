---------------------------- MODULE Integration ----------------------------
(***************************************************************************)
(* A config entry over its life in Home Assistant: created by the config   *)
(* flow or inherited from version 1, migrated, set up, edited by options   *)
(* flows that may be open at once, reloaded, and read back from disk after *)
(* a power loss; and the service media2sip.page over the entities it makes *)
(* (custom_components/media2sip/__init__.py and config_flow.py).           *)
(*                                                                         *)
(* Home Assistant itself is external: it writes the entry and the registry *)
(* to disk each in its own time, and calls set-up and unload of one entry  *)
(* one after the other.                                                    *)
(***************************************************************************)
EXTENDS Integers, Sequences, FiniteSets, SequencesExt, FiniteSetsExt, Functions

CONSTANTS Extensions, Flows, Callers,
          FirstVersions,    \* versions of an entry that is there already
          MaxIds,           \* bound on the targets ever added
          MaxRequests,      \* bound on targets given, forms saved and pages
          MaxFaults         \* bound on power losses and sidecar outages

VARIABLES entry, registry, onDisk, setup, reloads, loaded, sidecar, flow, page,
          requests, faults, torn, unheard

entryVars == <<entry, registry, onDisk>>
boundVars == <<requests, faults, torn, unheard>>
integrationVars == <<entry, registry, onDisk, setup, reloads, loaded, sidecar,
                     flow, page, requests, faults, torn, unheard>>

ASSUME IntegrationAssumption ==
    /\ MaxIds \in Nat /\ MaxIds > 1 /\ MaxRequests \in Nat /\ MaxFaults \in Nat
    /\ FirstVersions \subseteq {0, 1, 3}
    /\ \E x, y \in Extensions : x # y
    /\ Extensions \cap (0..MaxIds) = {}

NoId == 0
Uids == Extensions \cup 1..MaxIds
Targets == [id: 0..MaxIds, ext: Extensions]

\* `version' 0 is no entry yet.  The registry maps the unique ids to the
\* user's entities, each named by the unique id it was first made for.
EntryType(e) == e.version \in {0, 1, 2, 3} /\ e.targets \in Seq(Targets)
RegistryType(r) == DOMAIN r \subseteq Uids /\ Range(r) \subseteq Uids

\* A flow and what its form was built from.
FlowType == {"closed", "user", "target", "add", "edit"}
Closed == [step |-> "closed", shown |-> <<>>, editing |-> NoId]

\* "forwarding": the entities are built, and the update listener is not there.
SetupType == {"absent", "starting", "refused", "asking", "ready", "retrying",
              "forwarding", "loaded"}

NotAsked == [step |-> "idle", asked |-> {}, placed |-> {}, failed |-> {},
             lost |-> {}, told |-> {}]

(***************************************************************************)
(* Targets, entities and what both are keyed on.                           *)
(***************************************************************************)
IdsOf(targets) == {t.id : t \in ToSet(targets)}

\* The ids that something has, or had when it was last saved.
Used == ((DOMAIN registry \cup DOMAIN onDisk.registry) \ Extensions)
           \cup IdsOf(entry.targets) \cup IdsOf(onDisk.entry.targets)
           \cup UNION {IdsOf(flow[f].shown) : f \in Flows}

\* The ids above all that are in use.
Above(used) == {n \in 1..MaxIds : \A m \in used : m < n}

\* uuid4: an id that nothing has.
Fresh == CHOOSE n \in Above(Used) : TRUE

\* The bound leaves room for so many more ids.
Room(n) == Above(Used) # {} /\ Fresh + n - 1 <= MaxIds

\* PbxPageMediaPlayer: the unique id is the target's id, or its extension in
\* an entry that has none.
Uid(t) == IF t.id = NoId THEN t.ext ELSE t.id

\* Every entity of the registry is that of some target.
Claimed(e, r) == DOMAIN r \subseteq {Uid(t) : t \in ToSet(e.targets)}

\* What Home Assistant makes of the targets: the entity it has, or a new one.
EntityOf(t) == IF Uid(t) \in DOMAIN registry THEN registry[Uid(t)] ELSE Uid(t)
Built == {[entity |-> EntityOf(t), ext |-> t.ext] : t \in ToSet(entry.targets)}

Entities == {x.entity : x \in loaded}

(***************************************************************************)
(* The config flow.                                                        *)
(***************************************************************************)
\* async_step_user: the endpoint has to answer before the targets are asked.
StepUser(f) ==
    /\ entry.version = 0 /\ flow[f].step = "user"
    /\ sidecar
    /\ flow' = [flow EXCEPT ![f].step = "target"]
    /\ UNCHANGED <<entryVars, setup, reloads, loaded, sidecar, page, boundVars>>

TakenIn(targets, ext, ignoring) ==
    \E t \in ToSet(targets) : t.ext = ext /\ t.id # ignoring

\* async_step_target: the targets gather in the flow; the last one makes the
\* entry.
StepTarget(f, ext, another) ==
    /\ flow[f].step = "target" /\ Room(1)
    /\ requests < MaxRequests
    /\ requests' = requests + 1
    /\ ~TakenIn(flow[f].shown, ext, NoId)
    /\ LET targets == Append(flow[f].shown, [id |-> Fresh, ext |-> ext])
       IN  IF another
           THEN /\ flow' = [flow EXCEPT ![f].shown = targets]
                /\ UNCHANGED <<entry, setup>>
           ELSE /\ flow' = [flow EXCEPT ![f] = Closed]
                /\ entry' = [version |-> 2, targets |-> targets]
                /\ setup' = "starting"
    /\ UNCHANGED <<registry, onDisk, reloads, loaded, sidecar, page, faults, torn, unheard>>

(***************************************************************************)
(* The options flow.  It can be opened once the entry has been set up, or  *)
(* waits to be.                                                            *)
(***************************************************************************)
Open(f, step, id) ==
    /\ setup \notin {"absent", "starting", "refused"}
    /\ flow[f].step = "closed" /\ requests < MaxRequests
    /\ flow' = [flow EXCEPT ![f] = [step |-> step, shown |-> entry.targets,
                                    editing |-> id]]
    /\ UNCHANGED <<entryVars, setup, reloads, loaded, sidecar, page, boundVars>>

\* async_step_pick_target offers the targets there are; nothing removes one,
\* so that the choice cannot be stale.
OpenEdit(f) == \E id \in IdsOf(entry.targets) : Open(f, "edit", id)
OpenAdd(f) == Open(f, "add", NoId)

\* Mutants: the flow goes by what its form was built from.
TargetsShown(f) == flow[f].shown
DuplicateShown(f, ext, ignoring) == TakenIn(flow[f].shown, ext, ignoring)

\* _targets and _duplicate: the entry as it is when the form comes back.
TargetsNow(f) == entry.targets
Duplicate(f, ext, ignoring) == TakenIn(entry.targets, ext, ignoring)

\* Mutant: an edit is not worth a reload.
ListenerForNew(targets) ==
    IF setup = "loaded" /\ Len(targets) # Len(entry.targets) THEN reloads + 1 ELSE reloads

\* The update listener is there while the entry is loaded, and is called when
\* the data has changed.
Listener(targets) ==
    IF setup = "loaded" /\ targets # entry.targets THEN reloads + 1 ELSE reloads

\* _save.  `unheard' says that the entities are older than what was saved last
\* and that nobody was told: it came between their making and the listener.
Save(f, targets) ==
    /\ requests < MaxRequests
    /\ requests' = requests + 1
    /\ reloads' = Listener(targets)
    /\ unheard' = (unheard \/ (setup = "forwarding" /\ targets # entry.targets))
    /\ entry' = [entry EXCEPT !.targets = targets]
    /\ flow' = [flow EXCEPT ![f] = Closed]
    /\ UNCHANGED <<registry, onDisk, setup, loaded, sidecar, page, faults, torn>>

AddTarget(f, ext) ==
    /\ flow[f].step = "add" /\ Room(1)
    /\ ~Duplicate(f, ext, NoId)
    /\ Save(f, Append(TargetsNow(f), [id |-> Fresh, ext |-> ext]))

\* The target keeps its id.
EditTarget(f, ext) ==
    /\ flow[f].step = "edit"
    /\ ~Duplicate(f, ext, flow[f].editing)
    /\ Save(f, [i \in DOMAIN TargetsNow(f) |->
                   IF TargetsNow(f)[i].id = flow[f].editing
                   THEN [TargetsNow(f)[i] EXCEPT !.ext = ext] ELSE TargetsNow(f)[i]])

(***************************************************************************)
(* Set-up, unload and migration.                                           *)
(***************************************************************************)
\* Ids for the targets that have none, each its own.
NewId(i) == Fresh + i - 1
Migrated == [i \in DOMAIN entry.targets |->
                IF entry.targets[i].id # NoId THEN entry.targets[i]
                ELSE [entry.targets[i] EXCEPT !.id = NewId(i)]]

\* The new unique id of an entity whose target has no id.
Renamed(uid) ==
    LET old == {i \in DOMAIN entry.targets :
                   entry.targets[i].id = NoId /\ entry.targets[i].ext = uid}
    IN  IF old = {} THEN uid ELSE NewId(CHOOSE i \in old : TRUE)

RenamedRegistry ==
    [u \in {Renamed(v) : v \in DOMAIN registry} |->
        registry[CHOOSE v \in DOMAIN registry : Renamed(v) = u]]

\* Mutant: the entry is migrated and the registry is not.
MigrateEntryOnly ==
    /\ setup = "starting"
    /\ setup' = IF entry.version > 2 THEN "refused" ELSE "asking"
    /\ IF entry.version = 1
       THEN /\ entry' = [version |-> 2, targets |-> Migrated]
            /\ UNCHANGED registry
       ELSE UNCHANGED <<entry, registry>>
    /\ UNCHANGED <<onDisk, reloads, loaded, sidecar, flow, page, boundVars>>

\* async_migrate_entry, which nothing can interrupt, before the first set-up.
Migrate ==
    /\ setup = "starting"
    /\ setup' = IF entry.version > 2 THEN "refused" ELSE "asking"
    /\ IF entry.version = 1
       THEN /\ Room(Len(entry.targets))
            /\ entry' = [version |-> 2, targets |-> Migrated]
            /\ registry' = RenamedRegistry
       ELSE UNCHANGED <<entry, registry>>
    /\ UNCHANGED <<onDisk, reloads, loaded, sidecar, flow, page, boundVars>>

\* async_setup_entry: /health, and ConfigEntryNotReady if it is unreachable.
AskSidecar ==
    /\ setup = "asking"
    /\ setup' = IF sidecar THEN "ready" ELSE "retrying"
    /\ UNCHANGED <<entryVars, reloads, loaded, sidecar, flow, page, boundVars>>

Retry ==
    /\ setup = "retrying"
    /\ setup' = "asking"
    /\ UNCHANGED <<entryVars, reloads, loaded, sidecar, flow, page, boundVars>>

\* async_forward_entry_setups: the entities are built from the targets there
\* are, and the set-up waits until they have all been added.
ForwardSetup ==
    /\ setup = "ready"
    /\ setup' = "forwarding"
    /\ loaded' = Built /\ unheard' = FALSE
    /\ registry' = [u \in DOMAIN registry \cup {Uid(t) : t \in ToSet(entry.targets)} |->
                       IF u \in DOMAIN registry THEN registry[u] ELSE u]
    /\ UNCHANGED <<entry, onDisk, reloads, sidecar, flow, page, requests, faults, torn>>

\* Only then is the update listener added.
Listen ==
    /\ setup = "forwarding"
    /\ setup' = "loaded"
    /\ UNCHANGED <<entryVars, reloads, loaded, sidecar, flow, page, boundVars>>

\* What the unload does to the pages: the one in hand fails with "shutting
\* down", and nobody will answer for those queued.
Abandoned(p, queued) ==
    LET left == p.asked \ (p.placed \cup p.failed \cup p.lost)
    IN  [p EXCEPT !.lost = @ \cup (left \cap queued), !.failed = @ \cup (left \ queued)]

\* _async_reload_entry: async_unload_entry, and the set-up all over again.
Reload(queued) ==
    /\ reloads > 0 /\ setup \in {"loaded", "retrying"}
    /\ queued \subseteq Entities
    /\ reloads' = reloads - 1
    /\ setup' = "asking"
    /\ loaded' = {}
    /\ page' = [c \in Callers |-> Abandoned(page[c], queued)]
    /\ UNCHANGED <<entryVars, sidecar, flow, boundVars>>

(***************************************************************************)
(* The service media2sip.page.                                             *)
(***************************************************************************)
\* async_page: every entity is looked up before the first page is queued.  The
\* service is registered once and for all when the first set-up ends; here a
\* page may reach the entities that this set-up has made a moment earlier.
Page(c, asked) ==
    /\ page[c].step = "idle" /\ requests < MaxRequests
    /\ requests' = requests + 1
    /\ page' = [page EXCEPT ![c] =
                  IF asked \subseteq Entities
                  THEN [NotAsked EXCEPT !.step = "waiting", !.asked = asked]
                  ELSE [NotAsked EXCEPT !.step = "refused", !.asked = asked]]
    /\ UNCHANGED <<entryVars, setup, reloads, loaded, sidecar, flow,
                   faults, torn, unheard>>

\* An entity's async_page returns or raises; MediaPlayer says when.
Placed(c, e, well) ==
    /\ page[c].step = "waiting"
    /\ e \in page[c].asked \ (page[c].placed \cup page[c].failed \cup page[c].lost)
    /\ page' = IF well THEN [page EXCEPT ![c] = [@ EXCEPT !.placed = page[c].placed \cup {e}]]
               ELSE [page EXCEPT ![c] = [@ EXCEPT !.failed = page[c].failed \cup {e}]]
    /\ UNCHANGED <<entryVars, setup, reloads, loaded, sidecar, flow, boundVars>>

\* Mutant: gather without return_exceptions ends with the first exception.
GatheredFirst(p) ==
    p.failed # {} \/ p.asked = p.placed

\* gather(..., return_exceptions=True) waits for all of them.
Gathered(p) == p.asked = p.placed \cup p.failed

\* Mutant: the results are not looked at, only that there were failures.
TellOfAll(c) ==
    /\ page[c].step = "waiting" /\ Gathered(page[c])
    /\ page' = [page EXCEPT ![c] =
                  [@ EXCEPT !.step = "told",
                            !.told = IF page[c].failed = {} THEN {} ELSE page[c].asked]]
    /\ UNCHANGED <<entryVars, setup, reloads, loaded, sidecar, flow, boundVars>>

\* The caller learns which targets failed, if any did.
Tell(c) ==
    /\ page[c].step = "waiting" /\ Gathered(page[c])
    /\ page' = [page EXCEPT ![c] = [@ EXCEPT !.step = "told", !.told = page[c].failed]]
    /\ UNCHANGED <<entryVars, setup, reloads, loaded, sidecar, flow, boundVars>>

(***************************************************************************)
(* Home Assistant's storage, and faults.                                   *)
(***************************************************************************)
SaveEntry ==
    /\ onDisk.entry # entry
    /\ onDisk' = [onDisk EXCEPT !.entry = entry]
    /\ UNCHANGED <<entry, registry, setup, reloads, loaded, sidecar, flow,
                   page, boundVars>>

SaveRegistry ==
    /\ onDisk.registry # registry
    /\ onDisk' = [onDisk EXCEPT !.registry = registry]
    /\ UNCHANGED <<entry, registry, setup, reloads, loaded, sidecar, flow,
                   page, boundVars>>

\* Home Assistant goes down and comes up with what is on disk.  `torn' says
\* that it once had the two files from different times.
PowerLoss ==
    /\ faults < MaxFaults
    /\ faults' = faults + 1
    /\ entry' = onDisk.entry /\ registry' = onDisk.registry
    /\ setup' = IF entry'.version = 0 THEN "absent" ELSE "starting"
    /\ reloads' = 0 /\ loaded' = {}
    /\ flow' = [f \in Flows |-> Closed]
    /\ page' = [c \in Callers |-> NotAsked]
    /\ torn' = (torn \/ ~Claimed(onDisk.entry, onDisk.registry))
    /\ unheard' = FALSE
    /\ UNCHANGED <<onDisk, sidecar, requests>>

SidecarFails ==
    /\ faults < MaxFaults /\ sidecar
    /\ faults' = faults + 1
    /\ sidecar' = FALSE
    /\ UNCHANGED <<entryVars, setup, reloads, loaded, flow, page, requests, torn,
                   unheard>>

SidecarReturns ==
    /\ ~sidecar /\ sidecar' = TRUE
    /\ UNCHANGED <<entryVars, setup, reloads, loaded, flow, page, boundVars>>

(***************************************************************************)
(* Specification.                                                          *)
(***************************************************************************)
\* The targets of an entry that is there already.
OldTargets(version) ==
    LET two == CHOOSE p \in Extensions \X Extensions : p[1] # p[2]
    IN  [i \in 1..2 |-> [id |-> IF version = 1 THEN NoId ELSE i, ext |-> two[i]]]

\* It has an entity for each; otherwise a config flow is open.
IntegrationInit ==
    /\ \E v \in FirstVersions :
          /\ entry = [version |-> v,
                      targets |-> IF v = 0 THEN <<>> ELSE OldTargets(v)]
          /\ registry = [u \in {Uid(t) : t \in ToSet(entry.targets)} |-> u]
          /\ setup = IF v = 0 THEN "absent" ELSE "starting"
          /\ flow = [f \in Flows |-> IF v = 0 /\ f = CHOOSE g \in Flows : TRUE
                                     THEN [Closed EXCEPT !.step = "user"] ELSE Closed]
    /\ onDisk = [entry |-> entry, registry |-> registry]
    /\ reloads = 0 /\ loaded = {} /\ sidecar = TRUE
    /\ page = [c \in Callers |-> NotAsked]
    /\ requests = 0 /\ faults = 0 /\ torn = FALSE /\ unheard = FALSE

FlowNext(f) ==
    \/ StepUser(f)
    \/ \E x \in Extensions, another \in BOOLEAN : StepTarget(f, x, another)
    \/ OpenAdd(f) \/ OpenEdit(f)
    \/ \E x \in Extensions : AddTarget(f, x) \/ EditTarget(f, x)

PageNext(c) ==
    \/ \E asked \in kSubset(2, Range(registry)) : Page(c, asked)
    \/ \E e \in page[c].asked, well \in BOOLEAN : Placed(c, e, well)
    \/ Tell(c)

IntegrationNext ==
    \/ \E f \in Flows : FlowNext(f)
    \/ \E c \in Callers : PageNext(c)
    \/ Migrate \/ AskSidecar \/ Retry \/ ForwardSetup \/ Listen
    \/ \E queued \in SUBSET Entities : Reload(queued)
    \/ SaveEntry \/ SaveRegistry
    \/ PowerLoss \/ SidecarFails \/ SidecarReturns

IntegrationSpec == IntegrationInit /\ [][IntegrationNext]_integrationVars

\* Home Assistant runs a set-up it has begun and a reload it was asked for,
\* retries one that was not ready, and the sidecar comes back.  Nobody has to
\* finish a flow or to page.
SetupProgress ==
    /\ WF_integrationVars(Migrate) /\ WF_integrationVars(AskSidecar)
    /\ WF_integrationVars(Retry) /\ WF_integrationVars(ForwardSetup)
    /\ WF_integrationVars(Listen)
    /\ WF_integrationVars(\E queued \in SUBSET Entities : Reload(queued))
    /\ WF_integrationVars(SidecarReturns)

FairIntegrationSpec == IntegrationSpec /\ SetupProgress

(***************************************************************************)
(* Properties.                                                             *)
(***************************************************************************)
\* Every variable holds a value of the kind the code gives it.
IntegrationTypeOK ==
    /\ EntryType(entry) /\ RegistryType(registry)
    /\ EntryType(onDisk.entry) /\ RegistryType(onDisk.registry)
    /\ setup \in SetupType /\ sidecar \in BOOLEAN
    /\ torn \in BOOLEAN /\ unheard \in BOOLEAN
    /\ reloads \in 0..MaxRequests
    /\ loaded \subseteq [entity: Uids, ext: Extensions]
    /\ \A f \in Flows : /\ flow[f].step \in FlowType
                        /\ flow[f].shown \in Seq(Targets)
                        /\ flow[f].editing \in 0..MaxIds
    /\ \A c \in Callers : /\ page[c].asked \subseteq Uids
                          /\ page[c].told \subseteq page[c].failed
                          /\ page[c].placed \cup page[c].failed \cup page[c].lost
                                \subseteq page[c].asked
    /\ requests \in 0..MaxRequests /\ faults \in 0..MaxFaults

\* "duplicate_target": no two targets ring the same handsets, whatever flows
\* were open side by side when they were added or edited.
OneTargetPerExtension ==
    \A i, j \in DOMAIN entry.targets :
       entry.targets[i].ext = entry.targets[j].ext => i = j

\* What a step makes of a target: at most what the flow that edits this very
\* target says, and never another place or another id.
Kept(i) ==
    /\ i \in DOMAIN entry'.targets
    /\ entry'.targets[i].id = entry.targets[i].id
    /\ \/ entry'.targets[i] = entry.targets[i]
       \/ \E f \in Flows : /\ flow[f].step = "edit" /\ flow'[f] = Closed
                          /\ flow[f].editing = entry.targets[i].id

\* Flows that are open at once (config_flow.py:192-203, 280-291) take nothing
\* of each other's: what one has saved of a target is changed by a later edit
\* of this same target only, of which the last wins.  A power loss brings back
\* what is on disk.
NoSaveIsLost ==
    [][faults' = faults /\ entry.version = 2
          => \A i \in DOMAIN entry.targets : Kept(i)]_integrationVars

\* "keeping the entities it already created" (__init__.py:107): no entity is
\* left behind without a target, after a migration or any edit, unless a
\* power loss came between the two saves.
NoEntityLeftBehind == torn \/ Claimed(entry, registry)

\* A call of the service that ends accounts for every target it was given:
\* the caller hears of each that failed, and all the others played.
NothingSwallowed ==
    \A c \in Callers :
       page[c].step = "told" => page[c].asked \ page[c].placed = page[c].told

\* "`async_update_entry` fires the update listener, which reloads the entry
\* and so rebuilds the entities" (config_flow.py:195-196): with a sidecar
\* that comes back, the entities are in the end those of the targets saved,
\* unless the last save fell between their making and the listener
\* (__init__.py:99-100).
EntitiesFollow ==
    <>[](\/ setup \in {"absent", "refused"}
         \/ setup = "loaded" /\ (loaded = Built \/ unheard))
=============================================================================
