------------------------- MODULE IntegrationProofs -------------------------
(***************************************************************************)
(* Theorems about Integration, for any extensions, any number of flows     *)
(* open at once and any bounds.                                            *)
(*                                                                         *)
(* A list of targets is sound if no two share an extension or an id        *)
(* (GoodEntry); the entry, what is on disk of it and what a config flow    *)
(* gathers all are.  Only while there is no entry may a config flow be     *)
(* open, and an options flow only while there is one with ids (FlowsFit),  *)
(* so that every flow that saves finds in the entry what the last one put  *)
(* there.  What the registry, its copy and the entities are called by are  *)
(* unique ids that targets have or had (NamesFit), and a page ends only    *)
(* for targets that it was given (PageFits).                               *)
(***************************************************************************)
EXTENDS Integration, TLAPS

ExtsApart(ts) == \A i, j \in DOMAIN ts : ts[i].ext = ts[j].ext => i = j

IdsApart(ts) ==
    \A i, j \in DOMAIN ts : ts[i].id # NoId /\ (ts[i].id = ts[j].id => i = j)

GoodList(ts) == ts \in Seq(Targets) /\ ExtsApart(ts) /\ IdsApart(ts)

GoodEntry(e) ==
    /\ e \in [version: {0, 1, 2, 3}, targets: Seq(Targets)]
    /\ ExtsApart(e.targets)
    /\ e.version = 0 => e.targets = <<>>
    /\ e.version = 1 => \A i \in DOMAIN e.targets : e.targets[i].id = NoId
    /\ e.version # 1 => IdsApart(e.targets)

Gathering(x) == x.step \in {"user", "target"}

FlowRecords == [step: FlowType, shown: Seq(Targets), editing: 0..MaxIds]

FlowsFit ==
    /\ flow \in [Flows -> FlowRecords]
    /\ \A f \in Flows : Gathering(flow[f]) => entry.version = 0 /\ GoodList(flow[f].shown)
    /\ \A f, g \in Flows : Gathering(flow[f]) /\ Gathering(flow[g]) => f = g
    /\ \A f \in Flows : flow[f].step \in {"add", "edit"} => entry.version = 2

SetupFits ==
    /\ setup \in SetupType
    /\ setup = "absent" <=> entry.version = 0
    /\ setup \notin {"absent", "starting", "refused"} => entry.version = 2

EntriesGood ==
    /\ GoodEntry(entry)
    /\ onDisk = [entry |-> onDisk.entry, registry |-> onDisk.registry]
    /\ GoodEntry(onDisk.entry)

IInv == EntriesGood /\ FlowsFit /\ SetupFits /\ NoEntityLeftBehind

(***************************************************************************)
(* Lists of targets.                                                       *)
(***************************************************************************)
\* A target is its id and its extension.
LEMMA TargetFields ==
    ASSUME NEW i \in 0..MaxIds, NEW x \in Extensions
    PROVE  /\ [id |-> i, ext |-> x] \in Targets
           /\ [id |-> i, ext |-> x].id = i /\ [id |-> i, ext |-> x].ext = x
BY DEF Targets

\* A new id is in range and has no other use.
LEMMA FreshIsNew ==
    ASSUME NEW n \in Nat, Room(n)
    PROVE  /\ Fresh \in 1..MaxIds /\ Fresh \in 0..MaxIds /\ Fresh # NoId
           /\ Fresh \notin Used /\ Fresh + n - 1 <= MaxIds
<1>1. Above(Used) # {}
  BY DEF Room
<1>2. Fresh \in Above(Used)
  BY <1>1 DEF Fresh
<1>3. Fresh \in 1..MaxIds /\ \A m \in Used : m < Fresh
  BY <1>2 DEF Above
<1>4. ~(Fresh < Fresh) /\ Fresh # 0
  BY <1>3
<1>5. Fresh \notin Used
  BY <1>3, <1>4
<1>. QED  BY <1>3, <1>4, <1>5, IntegrationAssumption DEF Room, NoId

\* What a list gains by one more target.
LEMMA AppendOne ==
    ASSUME NEW ts \in Seq(Targets), NEW t \in Targets
    PROVE  LET us == Append(ts, t)
           IN  /\ us \in Seq(Targets)
               /\ DOMAIN us = DOMAIN ts \cup {Len(ts) + 1} /\ Len(ts) + 1 \notin DOMAIN ts
               /\ \A i \in DOMAIN ts : us[i] = ts[i]
               /\ us[Len(ts) + 1] = t
OBVIOUS

\* Another target with an extension and an id that no other has.
LEMMA AppendKeepsGood ==
    ASSUME NEW ts, GoodList(ts), NEW t \in Targets, t.id # NoId,
           \A i \in DOMAIN ts : ts[i].ext # t.ext /\ ts[i].id # t.id
    PROVE  GoodList(Append(ts, t)) /\ IdsOf(ts) \subseteq IdsOf(Append(ts, t))
<1>. DEFINE us == Append(ts, t)
            n == Len(ts) + 1
<1>1. ts \in Seq(Targets)
  BY DEF GoodList
<1>2. /\ us \in Seq(Targets)
      /\ DOMAIN us = DOMAIN ts \cup {n} /\ n \notin DOMAIN ts
      /\ \A i \in DOMAIN ts : us[i] = ts[i]
      /\ us[n] = t
  BY <1>1, AppendOne
<1>. HIDE DEF us, n
<1>3. ExtsApart(us)
  BY <1>2 DEF GoodList, ExtsApart
<1>4. IdsApart(us)
  BY <1>2 DEF GoodList, IdsApart
<1>5. IdsOf(ts) \subseteq IdsOf(us)
  <2>1. \A i \in DOMAIN ts : i \in DOMAIN us /\ us[i] = ts[i]
    BY <1>2
  <2>. QED  BY <1>1, <1>2, <2>1 DEF IdsOf, ToSet
<1>. QED  BY <1>2, <1>3, <1>4, <1>5 DEF GoodList, us

\* What an edit makes of a list.
Edited(ts, id, x) ==
    [i \in DOMAIN ts |-> IF ts[i].id = id THEN [ts[i] EXCEPT !.ext = x] ELSE ts[i]]

\* The extension of one target becomes one that no other has.
LEMMA EditKeepsGood ==
    ASSUME NEW ts, GoodList(ts), NEW id, NEW x \in Extensions,
           \A i \in DOMAIN ts : ts[i].ext = x => ts[i].id = id
    PROVE  GoodList(Edited(ts, id, x)) /\ IdsOf(Edited(ts, id, x)) = IdsOf(ts)
<1>. DEFINE us == Edited(ts, id, x)
<1>1. ts \in Seq(Targets) /\ DOMAIN ts = 1..Len(ts) /\ Len(ts) \in Nat
  BY DEF GoodList
<1>2. ASSUME NEW i \in DOMAIN ts
      PROVE  /\ us[i] \in Targets /\ us[i].id = ts[i].id
             /\ us[i].ext = IF ts[i].id = id THEN x ELSE ts[i].ext
  <2>1. ts[i] \in Targets
    BY <1>1
  <2>. QED  BY <2>1 DEF Targets, Edited
<1>3. DOMAIN us = DOMAIN ts
  BY DEF Edited
<1>. HIDE DEF us
<1>4. us \in Seq(Targets)
  <2>1. us = [i \in 1..Len(ts) |-> us[i]]
    BY <1>1 DEF us, Edited
  <2>. QED  BY <1>1, <1>2, <2>1
<1>5. IdsApart(us)
  BY <1>2, <1>3 DEF GoodList, IdsApart
<1>6. ExtsApart(us)
  <2>. SUFFICES ASSUME NEW i \in DOMAIN ts, NEW j \in DOMAIN ts, us[i].ext = us[j].ext
                PROVE  i = j
    BY <1>3 DEF ExtsApart
  <2>1. CASE ts[i].id = id /\ ts[j].id = id
    BY <2>1 DEF GoodList, IdsApart
  <2>2. CASE ts[i].id # id /\ ts[j].id # id
    BY <1>2, <2>2 DEF GoodList, ExtsApart
  <2>3. CASE ~(ts[i].id = id <=> ts[j].id = id)
    BY <1>2, <2>3
  <2>. QED  BY <2>1, <2>2, <2>3
<1>7. IdsOf(us) = IdsOf(ts)
  BY <1>2, <1>3 DEF IdsOf, ToSet
<1>. QED  BY <1>4, <1>5, <1>6, <1>7 DEF GoodList, us

\* No target of a list has this extension, but one that is ignored.
LEMMA NotTaken ==
    ASSUME NEW ts \in Seq(Targets), NEW x, NEW id, ~TakenIn(ts, x, id)
    PROVE  \A i \in DOMAIN ts : ts[i].ext = x => ts[i].id = id
BY DEF TakenIn, ToSet

\* What a target has for an id is in use.
LEMMA IdsAreUsed ==
    /\ \A i \in DOMAIN entry.targets : entry.targets[i].id \in Used
    /\ \A f \in Flows : \A i \in DOMAIN flow[f].shown : flow[f].shown[i].id \in Used
BY DEF Used, IdsOf, ToSet

\* An entry with ids and the list of its targets are sound together.
LEMMA GoodEntryList ==
    ASSUME NEW e, GoodEntry(e), e.version # 1
    PROVE  GoodList(e.targets)
BY DEF GoodEntry, GoodList

\* The unique ids of targets with ids are these ids.
LEMMA ClaimedById ==
    ASSUME NEW ts, GoodList(ts)
    PROVE  {Uid(t) : t \in ToSet(ts)} = IdsOf(ts)
<1>1. \A i \in DOMAIN ts : Uid(ts[i]) = ts[i].id
  BY DEF GoodList, IdsApart, Uid
<1>2. \A t \in ToSet(ts) : Uid(t) = t.id
  BY <1>1 DEF ToSet
<1>. QED  BY <1>2 DEF IdsOf

(***************************************************************************)
(* The steps of the flows.                                                 *)
(***************************************************************************)
\* A flow that opens, closes or goes on without the entry.
LEMMA FlowStep ==
    ASSUME IInv, NEW f \in Flows, NEW x \in FlowRecords,
           flow' = [flow EXCEPT ![f] = x],
           UNCHANGED <<entry, onDisk, registry, setup, torn>>,
           Gathering(x) => Gathering(flow[f]) /\ GoodList(x.shown),
           x.step \in {"add", "edit"} => entry.version = 2
    PROVE  IInv'
<1>1. FlowsFit /\ flow \in [Flows -> FlowRecords]
  BY DEF IInv, FlowsFit
<1>2. flow'[f] = x /\ \A g \in Flows : g # f => flow'[g] = flow[g]
  BY <1>1
<1>3. flow' \in [Flows -> FlowRecords]
  BY <1>1
<1>4. \A g \in Flows : Gathering(flow'[g]) => Gathering(flow[g])
  BY <1>2
<1>5. ASSUME NEW g \in Flows, Gathering(flow'[g])
      PROVE  entry'.version = 0 /\ GoodList(flow'[g].shown)
  <2>1. entry.version = 0
    BY <1>1, <1>4, <1>5 DEF FlowsFit
  <2>2. CASE g = f
    BY <1>2, <1>5, <2>1, <2>2
  <2>3. CASE g # f
    BY <1>1, <1>2, <1>5, <2>1, <2>3 DEF FlowsFit
  <2>. QED  BY <2>2, <2>3
<1>6. \A g, h \in Flows : Gathering(flow'[g]) /\ Gathering(flow'[h]) => g = h
  BY <1>1, <1>4 DEF FlowsFit
<1>7. \A g \in Flows : flow'[g].step \in {"add", "edit"} => entry'.version = 2
  BY <1>1, <1>2 DEF FlowsFit
<1>8. FlowsFit'
  BY <1>3, <1>5, <1>6, <1>7 DEF FlowsFit, Gathering
<1>9. EntriesGood' /\ SetupFits' /\ NoEntityLeftBehind'
  BY DEF IInv, EntriesGood, GoodEntry, ExtsApart, IdsApart, SetupFits,
         NoEntityLeftBehind, Claimed
<1>. QED  BY <1>8, <1>9 DEF IInv

\* A target of a config flow.
LEMMA GatheredOne ==
    ASSUME IInv, NEW f \in Flows, flow[f].step = "target", Room(1),
           NEW x \in Extensions, ~TakenIn(flow[f].shown, x, NoId)
    PROVE  /\ GoodList(Append(flow[f].shown, [id |-> Fresh, ext |-> x]))
           /\ entry.version = 0
<1>. DEFINE ts == flow[f].shown
            t == [id |-> Fresh, ext |-> x]
<1>1. GoodList(ts) /\ ts \in Seq(Targets) /\ entry.version = 0
  BY DEF IInv, FlowsFit, Gathering, GoodList
<1>2. Fresh \in 0..MaxIds /\ Fresh # NoId /\ Fresh \notin Used
  BY FreshIsNew
<1>3. t \in Targets /\ t.id = Fresh /\ t.ext = x
  BY <1>2, TargetFields
<1>4. \A i \in DOMAIN ts : ts[i].ext = x => ts[i].id = NoId
  BY <1>1, NotTaken
<1>5. \A i \in DOMAIN ts : ts[i].ext # x /\ ts[i].id # Fresh
  BY <1>1, <1>2, <1>4, IdsAreUsed DEF GoodList, IdsApart
<1>. HIDE DEF t, ts
<1>6. GoodList(Append(ts, t))
  BY <1>1, <1>2, <1>3, <1>5, AppendKeepsGood
<1>. QED  BY <1>1, <1>6 DEF t, ts

\* The config flow gathers a target, or makes the entry.
LEMMA StepTargetStep ==
    ASSUME IInv, NEW f \in Flows, NEW x \in Extensions, NEW another \in BOOLEAN,
           StepTarget(f, x, another)
    PROVE  IInv'
<1>. DEFINE ts == Append(flow[f].shown, [id |-> Fresh, ext |-> x])
<1>1. /\ flow[f].step = "target" /\ UNCHANGED <<registry, onDisk, torn>>
      /\ flow \in [Flows -> FlowRecords]
  BY DEF StepTarget, IInv, FlowsFit
<1>2. GoodList(ts) /\ entry.version = 0
  BY GatheredOne DEF StepTarget
<1>3. CASE another
  <2>. DEFINE y == [flow[f] EXCEPT !.shown = ts]
  <2>1. flow' = [flow EXCEPT ![f] = y] /\ UNCHANGED <<entry, setup>>
    BY <1>3 DEF StepTarget
  <2>2. y \in FlowRecords /\ y.step = "target" /\ y.shown = ts
    BY <1>1, <1>2 DEF FlowRecords, GoodList
  <2>. HIDE DEF y
  <2>. QED  BY <1>1, <1>2, <2>1, <2>2, FlowStep DEF Gathering
<1>4. CASE ~another
  <2>. HIDE DEF ts
  <2>1. /\ flow' = [flow EXCEPT ![f] = Closed]
        /\ entry' = [version |-> 2, targets |-> ts] /\ setup' = "starting"
    BY <1>4 DEF StepTarget, ts
  <2>2. Closed \in FlowRecords /\ Closed.step = "closed"
    BY IntegrationAssumption DEF Closed, FlowRecords, FlowType, NoId
  <2>3. /\ flow' \in [Flows -> FlowRecords] /\ flow'[f].step = "closed"
        /\ \A g \in Flows : g # f => flow'[g] = flow[g]
    BY <1>1, <2>1, <2>2
  <2>4. \A g \in Flows : ~Gathering(flow'[g])
    BY <1>1, <2>3 DEF IInv, FlowsFit, Gathering
  <2>5. entry'.version = 2 /\ entry'.targets = ts
    BY <2>1
  <2>6. FlowsFit'
    BY <2>3, <2>4, <2>5 DEF FlowsFit, Gathering
  <2>7. entry' \in [version: {0, 1, 2, 3}, targets: Seq(Targets)]
    BY <1>2, <2>1 DEF GoodList
  <2>8. GoodEntry(entry')
    BY <1>2, <2>5, <2>7 DEF GoodEntry, GoodList
  <2>9. EntriesGood'
    BY <1>1, <2>8 DEF IInv, EntriesGood, GoodEntry, ExtsApart, IdsApart
  <2>10. SetupFits'
    BY <2>1, <2>5 DEF SetupFits, SetupType
  <2>11. NoEntityLeftBehind'
    <3>1. entry.targets = <<>>
      BY <1>2 DEF IInv, EntriesGood, GoodEntry
    <3>2. ToSet(entry.targets) = {}
      BY <3>1 DEF ToSet
    <3>3. torn \/ DOMAIN registry = {}
      BY <3>2 DEF IInv, NoEntityLeftBehind, Claimed
    <3>. QED  BY <1>1, <3>3 DEF NoEntityLeftBehind, Claimed
  <2>. QED  BY <2>6, <2>9, <2>10, <2>11 DEF IInv
<1>. QED  BY <1>3, <1>4

\* A list that a flow may make of another: what differs is what it edits.
Amends(f, ts, us) ==
    \A i \in DOMAIN ts :
       /\ i \in DOMAIN us /\ us[i].id = ts[i].id
       /\ \/ us[i] = ts[i]
          \/ flow[f].step = "edit" /\ flow[f].editing = ts[i].id

AllKept == entry.version = 2 => \A i \in DOMAIN entry.targets : Kept(i)

\* What is saved has all the ids there were, and is sound.
LEMMA SaveStep ==
    ASSUME IInv, NEW f \in Flows, NEW ts, entry.version = 2, GoodList(ts),
           IdsOf(entry.targets) \subseteq IdsOf(ts), Amends(f, entry.targets, ts),
           Save(f, ts)
    PROVE  IInv' /\ AllKept
<1>1. /\ entry \in [version: {0, 1, 2, 3}, targets: Seq(Targets)]
      /\ flow \in [Flows -> FlowRecords] /\ UNCHANGED <<registry, onDisk, setup, torn>>
  BY DEF IInv, EntriesGood, GoodEntry, FlowsFit, Save
<1>2. entry' = [entry EXCEPT !.targets = ts] /\ flow' = [flow EXCEPT ![f] = Closed]
  BY DEF Save
<1>3. /\ entry' \in [version: {0, 1, 2, 3}, targets: Seq(Targets)]
      /\ entry'.version = 2 /\ entry'.targets = ts
  BY <1>1, <1>2 DEF GoodList
<1>4. GoodEntry(entry')
  BY <1>3 DEF GoodEntry, GoodList
<1>5. EntriesGood'
  BY <1>1, <1>4 DEF IInv, EntriesGood, GoodEntry, ExtsApart, IdsApart
<1>6. Closed \in FlowRecords /\ Closed.step = "closed"
  BY IntegrationAssumption DEF Closed, FlowRecords, FlowType, NoId
<1>7. /\ flow' \in [Flows -> FlowRecords] /\ flow'[f].step = "closed"
      /\ \A g \in Flows : g # f => flow'[g] = flow[g]
  BY <1>1, <1>2, <1>6
<1>8. \A g \in Flows : ~Gathering(flow'[g])
  BY <1>7 DEF IInv, FlowsFit, Gathering
<1>9. FlowsFit'
  BY <1>3, <1>7, <1>8 DEF FlowsFit, Gathering
<1>10. SetupFits'
  BY <1>1, <1>3 DEF IInv, SetupFits
<1>11. NoEntityLeftBehind'
  <2>1. /\ {Uid(t) : t \in ToSet(entry.targets)} = IdsOf(entry.targets)
        /\ {Uid(t) : t \in ToSet(ts)} = IdsOf(ts)
    BY GoodEntryList, ClaimedById DEF IInv, EntriesGood
  <2>2. torn \/ DOMAIN registry \subseteq IdsOf(entry.targets)
    BY <2>1 DEF IInv, NoEntityLeftBehind, Claimed
  <2>3. torn' \/ DOMAIN registry' \subseteq {Uid(t) : t \in ToSet(entry'.targets)}
    BY <1>1, <1>3, <2>1, <2>2
  <2>. QED  BY <2>3 DEF NoEntityLeftBehind, Claimed, Uid
<1>12. flow'[f] = Closed
  BY <1>1, <1>2, <1>6
<1>13. AllKept
  BY <1>3, <1>12 DEF Amends, AllKept, Kept
<1>. QED  BY <1>5, <1>9, <1>10, <1>11, <1>13 DEF IInv

\* A target is added to those that are there now.
LEMMA AddTargetStep ==
    ASSUME IInv, NEW f \in Flows, NEW x \in Extensions, AddTarget(f, x)
    PROVE  IInv' /\ AllKept
<1>. DEFINE ts == entry.targets
            t == [id |-> Fresh, ext |-> x]
<1>1. entry.version = 2 /\ Room(1) /\ ~TakenIn(ts, x, NoId) /\ Save(f, Append(ts, t))
  BY DEF AddTarget, IInv, FlowsFit, Duplicate, TargetsNow
<1>2. GoodList(ts) /\ ts \in Seq(Targets)
  BY <1>1, GoodEntryList DEF IInv, EntriesGood, GoodList
<1>3. Fresh \in 0..MaxIds /\ Fresh # NoId /\ Fresh \notin Used
  BY <1>1, FreshIsNew
<1>4. t \in Targets /\ t.id = Fresh /\ t.ext = x
  BY <1>3, TargetFields
<1>5. \A i \in DOMAIN ts : ts[i].ext = x => ts[i].id = NoId
  BY <1>1, <1>2, NotTaken
<1>6. \A i \in DOMAIN ts : ts[i].ext # x /\ ts[i].id # Fresh
  BY <1>2, <1>3, <1>5, IdsAreUsed DEF GoodList, IdsApart
<1>. HIDE DEF t
<1>7. GoodList(Append(ts, t)) /\ IdsOf(ts) \subseteq IdsOf(Append(ts, t))
  BY <1>2, <1>3, <1>4, <1>6, AppendKeepsGood
<1>8. Amends(f, ts, Append(ts, t))
  BY <1>2, <1>4, AppendOne DEF Amends
<1>. QED  BY <1>1, <1>7, <1>8, SaveStep

\* One of those that are there now is edited.
LEMMA EditTargetStep ==
    ASSUME IInv, NEW f \in Flows, NEW x \in Extensions, EditTarget(f, x)
    PROVE  IInv' /\ AllKept
<1>. DEFINE ts == entry.targets
            id == flow[f].editing
            us == Edited(ts, id, x)
<1>1. entry.version = 2 /\ ~TakenIn(ts, x, id) /\ Save(f, us)
  BY DEF EditTarget, IInv, FlowsFit, Duplicate, TargetsNow, Edited
<1>2. GoodList(ts) /\ ts \in Seq(Targets)
  BY <1>1, GoodEntryList DEF IInv, EntriesGood, GoodList
<1>3. \A i \in DOMAIN ts : ts[i].ext = x => ts[i].id = id
  BY <1>1, <1>2, NotTaken
<1>4. Amends(f, ts, us)
  <2>1. flow[f].step = "edit" /\ DOMAIN us = DOMAIN ts
    BY DEF EditTarget, Edited
  <2>2. ASSUME NEW i \in DOMAIN ts
        PROVE  us[i].id = ts[i].id /\ (us[i] = ts[i] \/ ts[i].id = id)
    <3>1. ts[i] \in Targets
      BY <1>2
    <3>. QED  BY <3>1 DEF Targets, Edited
  <2>. QED  BY <2>1, <2>2 DEF Amends
<1>. HIDE DEF id
<1>5. GoodList(us) /\ IdsOf(us) = IdsOf(ts)
  BY <1>2, <1>3, EditKeepsGood
<1>. QED  BY <1>1, <1>4, <1>5, SaveStep

\* A form that is opened is built from the entry, which has ids.
LEMMA OpenStep ==
    ASSUME IInv, NEW f \in Flows, NEW step \in {"add", "edit"}, NEW id \in 0..MaxIds,
           Open(f, step, id)
    PROVE  IInv'
<1>. DEFINE x == [step |-> step, shown |-> entry.targets, editing |-> id]
<1>1. /\ flow' = [flow EXCEPT ![f] = x]
      /\ UNCHANGED <<entry, onDisk, registry, setup, torn>>
      /\ entry.version = 2 /\ entry.targets \in Seq(Targets)
  BY DEF Open, entryVars, boundVars, IInv, SetupFits, EntriesGood, GoodEntry
<1>2. x \in FlowRecords /\ x.step = step
  BY <1>1 DEF FlowRecords, FlowType
<1>. HIDE DEF x
<1>. QED  BY <1>1, <1>2, FlowStep DEF Gathering

(***************************************************************************)
(* The steps of the set-up.                                                *)
(***************************************************************************)
\* The registry keeps an entity for none but the targets.
LEMMA RenamedAreClaimed ==
    ASSUME entry.targets \in Seq(Targets), Claimed(entry, registry),
           \A i \in DOMAIN entry.targets : entry.targets[i].id = NoId
    PROVE  \A u \in DOMAIN RenamedRegistry :
              \E i \in DOMAIN entry.targets : u = NewId(i)
<1>. DEFINE ts == entry.targets
<1>. SUFFICES ASSUME NEW v \in DOMAIN registry
              PROVE  \E i \in DOMAIN ts : Renamed(v) = NewId(i)
  BY DEF RenamedRegistry
<1>1. PICK t \in ToSet(ts) : v = Uid(t)
  BY DEF Claimed
<1>2. PICK j \in DOMAIN ts : t = ts[j]
  BY <1>1 DEF ToSet
<1>3. ts[j].id = NoId /\ ts[j].ext = v
  BY <1>1, <1>2 DEF Uid
<1>. DEFINE old == {i \in DOMAIN ts : ts[i].id = NoId /\ ts[i].ext = v}
<1>4. old # {} /\ (CHOOSE i \in old : TRUE) \in old
  BY <1>3
<1>5. Renamed(v) = NewId(CHOOSE i \in old : TRUE)
  BY <1>4 DEF Renamed
<1>. HIDE DEF old
<1>6. (CHOOSE i \in old : TRUE) \in DOMAIN ts
  BY <1>4 DEF old
<1>. QED  BY <1>5, <1>6

\* The migration gives each target an id of its own.
LEMMA MigratedIsGood ==
    ASSUME GoodEntry(entry), entry.version = 1, Room(Len(entry.targets))
    PROVE  /\ GoodList(Migrated) /\ DOMAIN Migrated = DOMAIN entry.targets
           /\ \A i \in DOMAIN Migrated : Migrated[i].id = NewId(i)
<1>. DEFINE ts == entry.targets
            n == Len(ts)
<1>1. /\ ts \in Seq(Targets) /\ n \in Nat /\ DOMAIN ts = 1..n
      /\ \A i \in DOMAIN ts : ts[i].id = NoId
      /\ ExtsApart(ts)
  BY DEF GoodEntry
<1>2. Fresh \in 1..MaxIds /\ Fresh + n - 1 <= MaxIds
  BY <1>1, FreshIsNew
<1>3. \A i \in 1..n : NewId(i) \in 0..MaxIds /\ NewId(i) # NoId
  <2>. DEFINE fresh == Fresh
  <2>1. fresh \in 1..MaxIds /\ fresh + n - 1 <= MaxIds /\ n \in Nat /\ MaxIds \in Nat
    BY <1>1, <1>2, IntegrationAssumption
  <2>. HIDE DEF fresh, n
  <2>2. \A i \in 1..n : fresh + i - 1 \in 0..MaxIds /\ fresh + i - 1 # 0
    BY <2>1
  <2>. QED  BY <2>2 DEF fresh, NewId, NoId
<1>4. \A i, j \in 1..n : NewId(i) = NewId(j) => i = j
  <2>. DEFINE fresh == Fresh
  <2>1. fresh \in Int /\ n \in Nat
    BY <1>1, <1>2
  <2>. HIDE DEF fresh, n
  <2>2. \A i, j \in 1..n : fresh + i - 1 = fresh + j - 1 => i = j
    BY <2>1
  <2>. QED  BY <2>2 DEF fresh, NewId
<1>5. DOMAIN Migrated = DOMAIN ts
  BY DEF Migrated
<1>6. ASSUME NEW i \in DOMAIN ts
      PROVE  Migrated[i] \in Targets /\ Migrated[i].id = NewId(i) /\ Migrated[i].ext = ts[i].ext
  <2>1. Migrated[i] = [ts[i] EXCEPT !.id = NewId(i)]
    BY <1>1 DEF Migrated
  <2>2. ts[i] \in Targets /\ NewId(i) \in 0..MaxIds
    BY <1>1, <1>3
  <2>. QED  BY <2>1, <2>2 DEF Targets
<1>7. Migrated \in Seq(Targets)
  <2>1. Migrated = [i \in 1..n |-> Migrated[i]]
    BY <1>1 DEF Migrated
  <2>. QED  BY <1>1, <1>6, <2>1
<1>8. ExtsApart(Migrated)
  BY <1>1, <1>5, <1>6 DEF ExtsApart
<1>9. IdsApart(Migrated)
  BY <1>1, <1>3, <1>4, <1>5, <1>6 DEF IdsApart
<1>. QED  BY <1>5, <1>6, <1>7, <1>8, <1>9 DEF GoodList

\* Version 1 becomes version 2, and nothing newer is touched.
LEMMA MigrateStep ==
    ASSUME IInv, Migrate
    PROVE  IInv' /\ (entry.version = 2 => entry' = entry)
<1>1. /\ setup = "starting" /\ UNCHANGED <<onDisk, flow, torn>>
      /\ setup' = IF entry.version > 2 THEN "refused" ELSE "asking"
      /\ entry.version \in {0, 1, 2, 3} /\ entry.version # 0
  BY DEF Migrate, boundVars, IInv, SetupFits, EntriesGood, GoodEntry
<1>2. CASE entry.version # 1
  <2>1. entry' = entry /\ registry' = registry
    BY <1>2 DEF Migrate
  <2>2. EntriesGood' /\ FlowsFit' /\ NoEntityLeftBehind'
    BY <1>1, <2>1 DEF IInv, EntriesGood, GoodEntry, ExtsApart, IdsApart, FlowsFit, Gathering,
                      GoodList, NoEntityLeftBehind, Claimed
  <2>3. SetupFits'
    BY <1>1, <1>2, <2>1 DEF SetupFits, SetupType
  <2>. QED  BY <2>1, <2>2, <2>3 DEF IInv
<1>3. CASE entry.version = 1
  <2>. DEFINE ts == Migrated
  <2>1. /\ Room(Len(entry.targets)) /\ entry' = [version |-> 2, targets |-> ts]
        /\ registry' = RenamedRegistry
    BY <1>3 DEF Migrate
  <2>2. /\ GoodList(ts) /\ DOMAIN ts = DOMAIN entry.targets
        /\ \A i \in DOMAIN ts : ts[i].id = NewId(i)
    BY <1>3, <2>1, MigratedIsGood DEF IInv, EntriesGood
  <2>3. NoEntityLeftBehind'
    <3>1. CASE torn
      BY <1>1, <3>1 DEF NoEntityLeftBehind
    <3>2. CASE ~torn
      <4>1. \A u \in DOMAIN RenamedRegistry : \E i \in DOMAIN ts : u = ts[i].id
        BY <1>3, <2>2, <3>2, RenamedAreClaimed
           DEF IInv, EntriesGood, GoodEntry, NoEntityLeftBehind
      <4>2. \A u \in DOMAIN registry' : u \in IdsOf(ts)
        BY <2>1, <4>1 DEF IdsOf, ToSet
      <4>3. {Uid(t) : t \in ToSet(ts)} = IdsOf(ts)
        BY <2>2, ClaimedById
      <4>4. entry'.targets = ts
        BY <2>1
      <4>5. DOMAIN registry' \subseteq {Uid(t) : t \in ToSet(entry'.targets)}
        BY <4>2, <4>3, <4>4
      <4>. QED  BY <4>5 DEF NoEntityLeftBehind, Claimed, Uid
    <3>. QED  BY <3>1, <3>2
  <2>. HIDE DEF ts
  <2>4. /\ entry' \in [version: {0, 1, 2, 3}, targets: Seq(Targets)]
        /\ entry'.version = 2 /\ entry'.targets = ts
    BY <2>1, <2>2 DEF GoodList
  <2>5. GoodEntry(entry')
    BY <2>2, <2>4 DEF GoodEntry, GoodList
  <2>6. EntriesGood'
    BY <1>1, <2>5 DEF IInv, EntriesGood, GoodEntry, ExtsApart, IdsApart
  <2>7. \A f \in Flows : ~Gathering(flow[f])
    BY <1>3 DEF IInv, FlowsFit
  <2>8. FlowsFit'
    BY <1>1, <2>4, <2>7 DEF IInv, FlowsFit, Gathering
  <2>9. SetupFits'
    BY <1>1, <1>3, <2>4 DEF SetupFits, SetupType
  <2>. QED  BY <1>3, <2>3, <2>6, <2>8, <2>9 DEF IInv
<1>. QED  BY <1>2, <1>3

\* The set-up goes on, or begins again, with the entry that is there.
LEMMA SetupStep ==
    ASSUME IInv, UNCHANGED <<entry, onDisk, registry, flow, torn>>,
           setup' = setup \/ (setup \notin {"absent", "starting", "refused"} /\ setup' \in SetupType
                                 /\ setup' \notin {"absent", "starting", "refused"})
    PROVE  IInv'
<1>1. EntriesGood' /\ FlowsFit' /\ NoEntityLeftBehind'
  BY DEF IInv, EntriesGood, GoodEntry, ExtsApart, IdsApart, FlowsFit, Gathering,
         GoodList, NoEntityLeftBehind, Claimed
<1>2. SetupFits'
  BY DEF IInv, SetupFits
<1>. QED  BY <1>1, <1>2 DEF IInv

\* The entities that are made are those of the targets.
LEMMA ForwardSetupStep ==
    ASSUME IInv, ForwardSetup
    PROVE  IInv'
<1>1. /\ UNCHANGED <<entry, onDisk, flow, torn>> /\ setup = "ready" /\ setup' = "forwarding"
      /\ DOMAIN registry' = DOMAIN registry \cup {Uid(t) : t \in ToSet(entry.targets)}
  BY DEF ForwardSetup
<1>2. EntriesGood' /\ FlowsFit'
  BY <1>1 DEF IInv, EntriesGood, GoodEntry, ExtsApart, IdsApart, FlowsFit, Gathering, GoodList
<1>3. SetupFits'
  BY <1>1 DEF IInv, SetupFits, SetupType
<1>4. NoEntityLeftBehind'
  BY <1>1 DEF IInv, NoEntityLeftBehind, Claimed
<1>. QED  BY <1>2, <1>3, <1>4 DEF IInv

(***************************************************************************)
(* The steps of Home Assistant's storage.                                  *)
(***************************************************************************)
\* What is on disk of the entry was the entry once.
LEMMA SavedStep ==
    ASSUME IInv, UNCHANGED <<entry, registry, setup, flow, torn>>,
           \/ onDisk' = [onDisk EXCEPT !.entry = entry]
           \/ onDisk' = [onDisk EXCEPT !.registry = registry]
    PROVE  IInv'
<1>1. GoodEntry(entry) /\ GoodEntry(onDisk.entry)
      /\ onDisk = [entry |-> onDisk.entry, registry |-> onDisk.registry]
  BY DEF IInv, EntriesGood
<1>2. /\ onDisk'.entry \in {entry, onDisk.entry}
      /\ onDisk' = [entry |-> onDisk'.entry, registry |-> onDisk'.registry]
  BY <1>1
<1>3. GoodEntry(onDisk'.entry) /\ GoodEntry(entry')
  BY <1>1, <1>2
<1>4. EntriesGood'
  BY <1>2, <1>3 DEF EntriesGood, GoodEntry, ExtsApart, IdsApart
<1>5. FlowsFit' /\ SetupFits' /\ NoEntityLeftBehind'
  BY DEF IInv, FlowsFit, Gathering, GoodList, ExtsApart, IdsApart, SetupFits,
         NoEntityLeftBehind, Claimed
<1>. QED  BY <1>4, <1>5 DEF IInv

\* After a power loss the entry is one there was.
LEMMA PowerLossStep ==
    ASSUME IInv, PowerLoss
    PROVE  IInv'
<1>1. /\ entry' = onDisk.entry /\ registry' = onDisk.registry /\ onDisk' = onDisk
      /\ setup' = IF entry'.version = 0 THEN "absent" ELSE "starting"
      /\ flow' = [f \in Flows |-> Closed]
      /\ torn' = (torn \/ ~Claimed(onDisk.entry, onDisk.registry))
  BY DEF PowerLoss
<1>2. EntriesGood'
  BY <1>1 DEF IInv, EntriesGood, GoodEntry, ExtsApart, IdsApart
<1>3. Closed \in FlowRecords /\ Closed.step = "closed"
  BY IntegrationAssumption DEF Closed, FlowRecords, FlowType, NoId
<1>4. FlowsFit'
  BY <1>1, <1>3 DEF FlowsFit, Gathering
<1>5. SetupFits'
  BY <1>1 DEF SetupFits, SetupType
<1>6. NoEntityLeftBehind'
  BY <1>1 DEF NoEntityLeftBehind, Claimed
<1>. QED  BY <1>2, <1>4, <1>5, <1>6 DEF IInv

(***************************************************************************)
(* All the steps.                                                          *)
(***************************************************************************)
\* Who leaves the entry alone keeps its targets.
LEMMA SameTargets ==
    ASSUME entry.version = 2 => entry' = entry
    PROVE  AllKept
BY DEF AllKept, Kept

\* A flow keeps the invariant, and every target that it does not edit.
LEMMA FlowNextStep ==
    ASSUME IInv, NEW f \in Flows, FlowNext(f)
    PROVE  IInv' /\ AllKept
<1>1. CASE StepUser(f)
  <2>. DEFINE x == [flow[f] EXCEPT !.step = "target"]
  <2>1. /\ flow' = [flow EXCEPT ![f] = x] /\ flow[f].step = "user"
        /\ UNCHANGED <<entry, onDisk, registry, setup, torn>>
        /\ flow[f] \in FlowRecords
    BY <1>1 DEF StepUser, entryVars, boundVars, IInv, FlowsFit
  <2>2. x \in FlowRecords /\ x.step = "target" /\ x.shown = flow[f].shown
    BY <2>1 DEF FlowRecords, FlowType
  <2>3. Gathering(flow[f]) /\ GoodList(flow[f].shown)
    BY <2>1 DEF IInv, FlowsFit, Gathering
  <2>. HIDE DEF x
  <2>. QED  BY <2>1, <2>2, <2>3, FlowStep, SameTargets
<1>2. CASE \E x \in Extensions, another \in BOOLEAN : StepTarget(f, x, another)
  <2>1. IInv'
    BY <1>2, StepTargetStep
  <2>2. entry.version = 0
    BY <1>2 DEF StepTarget, IInv, FlowsFit, Gathering
  <2>. QED  BY <2>1, <2>2 DEF AllKept
<1>3. CASE OpenAdd(f) \/ OpenEdit(f)
  <2>1. entry' = entry
    BY <1>3 DEF OpenAdd, OpenEdit, Open, entryVars
  <2>2. CASE OpenAdd(f)
    BY <2>1, <2>2, OpenStep, SameTargets, IntegrationAssumption DEF OpenAdd, NoId
  <2>3. CASE OpenEdit(f)
    <3>1. PICK id \in IdsOf(entry.targets) : Open(f, "edit", id)
      BY <2>3 DEF OpenEdit
    <3>2. entry.targets \in Seq(Targets)
      BY DEF IInv, EntriesGood, GoodEntry
    <3>3. PICK i \in DOMAIN entry.targets : id = entry.targets[i].id
      BY <3>1 DEF IdsOf, ToSet
    <3>4. entry.targets[i] \in Targets
      BY <3>2
    <3>5. id \in 0..MaxIds
      BY <3>3, <3>4 DEF Targets
    <3>. QED  BY <2>1, <3>1, <3>5, OpenStep, SameTargets
  <2>. QED  BY <1>3, <2>2, <2>3
<1>4. CASE \E x \in Extensions : AddTarget(f, x) \/ EditTarget(f, x)
  BY <1>4, AddTargetStep, EditTargetStep
<1>. QED  BY <1>1, <1>2, <1>3, <1>4 DEF FlowNext

\* The service reads the entities and writes nothing of the entry.
LEMMA PageNextStep ==
    ASSUME IInv, NEW c \in Callers, PageNext(c)
    PROVE  IInv' /\ entry' = entry
<1>1. UNCHANGED <<entry, onDisk, registry, setup, flow, torn>>
  <2>1. ASSUME NEW asked, Page(c, asked) PROVE UNCHANGED <<entry, onDisk, registry, setup, flow, torn>>
    BY <2>1 DEF Page, entryVars
  <2>2. ASSUME NEW e, NEW well, Placed(c, e, well)
        PROVE  UNCHANGED <<entry, onDisk, registry, setup, flow, torn>>
    BY <2>2 DEF Placed, entryVars, boundVars
  <2>3. ASSUME Tell(c) PROVE UNCHANGED <<entry, onDisk, registry, setup, flow, torn>>
    BY <2>3 DEF Tell, entryVars, boundVars
  <2>. QED  BY <2>1, <2>2, <2>3 DEF PageNext
<1>. QED  BY <1>1, SetupStep

\* Every step keeps the invariant and, but for a power loss, the targets.
LEMMA IntegrationStep ==
    ASSUME IInv, [IntegrationNext]_integrationVars
    PROVE  /\ IInv'
           /\ \/ PowerLoss
              \/ AllKept
<1>1. CASE \E f \in Flows : FlowNext(f)
  BY <1>1, FlowNextStep
<1>2. CASE \E c \in Callers : PageNext(c)
  BY <1>2, PageNextStep, SameTargets
<1>3. CASE Migrate
  BY <1>3, MigrateStep, SameTargets
<1>4. CASE AskSidecar \/ Retry \/ Listen \/ \E queued \in SUBSET Entities : Reload(queued)
  <2>1. UNCHANGED <<entry, onDisk, registry, flow, torn>>
    BY <1>4 DEF AskSidecar, Retry, Listen, Reload, entryVars, boundVars
  <2>2. /\ setup \notin {"absent", "starting", "refused"} /\ setup' \in SetupType
        /\ setup' \notin {"absent", "starting", "refused"}
    BY <1>4 DEF AskSidecar, Retry, Listen, Reload, SetupType
  <2>. QED  BY <2>1, <2>2, SetupStep, SameTargets
<1>5. CASE ForwardSetup
  <2>1. entry' = entry
    BY <1>5 DEF ForwardSetup
  <2>. QED  BY <1>5, <2>1, ForwardSetupStep, SameTargets
<1>6. CASE SaveEntry \/ SaveRegistry
  <2>1. UNCHANGED <<entry, registry, setup, flow, torn>>
    BY <1>6 DEF SaveEntry, SaveRegistry, boundVars
  <2>. QED  BY <1>6, <2>1, SavedStep, SameTargets DEF SaveEntry, SaveRegistry
<1>7. CASE PowerLoss
  BY <1>7, PowerLossStep
<1>8. CASE SidecarFails \/ SidecarReturns
  <2>1. UNCHANGED <<entry, onDisk, registry, setup, flow, torn>>
    BY <1>8 DEF SidecarFails, SidecarReturns, entryVars, boundVars
  <2>. QED  BY <2>1, SetupStep, SameTargets
<1>9. CASE UNCHANGED integrationVars
  <2>1. UNCHANGED <<entry, onDisk, registry, setup, flow, torn>>
    BY <1>9 DEF integrationVars
  <2>. QED  BY <2>1, SetupStep, SameTargets
<1>. QED  BY <1>1, <1>2, <1>3, <1>4, <1>5, <1>6, <1>7, <1>8, <1>9 DEF IntegrationNext

\* The entry of before has two sound targets.
LEMMA OldTargetsAreGood ==
    ASSUME NEW v \in {1, 3}
    PROVE  /\ OldTargets(v) \in Seq(Targets) /\ ExtsApart(OldTargets(v))
           /\ v = 1 => \A i \in DOMAIN OldTargets(v) : OldTargets(v)[i].id = NoId
           /\ v = 3 => IdsApart(OldTargets(v))
<1>. DEFINE two == CHOOSE p \in Extensions \X Extensions : p[1] # p[2]
            id(i) == IF v = 1 THEN NoId ELSE i
            ts == [i \in 1..2 |-> [id |-> id(i), ext |-> two[i]]]
<1>1. two \in Extensions \X Extensions /\ two[1] # two[2]
  <2>1. \E p \in Extensions \X Extensions : p[1] # p[2]
    <3>1. PICK x \in Extensions, y \in Extensions : x # y
      BY IntegrationAssumption
    <3>2. <<x, y>> \in Extensions \X Extensions /\ <<x, y>>[1] # <<x, y>>[2]
      BY <3>1
    <3>. QED  BY <3>2
  <2>. QED  BY <2>1
<1>2. OldTargets(v) = ts
  BY DEF OldTargets
<1>. HIDE DEF two
<1>3. \A i \in 1..2 : two[i] \in Extensions /\ \A j \in 1..2 : two[i] = two[j] => i = j
  BY <1>1
<1>4. \A i \in 1..2 : id(i) \in 0..MaxIds
  BY IntegrationAssumption DEF NoId
<1>5. DOMAIN ts = 1..2 /\ \A i \in 1..2 : ts[i] \in Targets /\ ts[i].id = id(i) /\ ts[i].ext = two[i]
  BY <1>3, <1>4 DEF Targets
<1>6. ts \in Seq(Targets)
  <2>1. 2 \in Nat /\ ts = [i \in 1..2 |-> ts[i]]
    OBVIOUS
  <2>. QED  BY <1>5, <2>1
<1>7. ExtsApart(ts)
  BY <1>3, <1>5 DEF ExtsApart
<1>8. v = 1 => \A i \in DOMAIN ts : ts[i].id = NoId
  BY <1>5
<1>9. v = 3 => IdsApart(ts)
  BY <1>5 DEF IdsApart, NoId
<1>. QED  BY <1>2, <1>6, <1>7, <1>8, <1>9

\* An entry of before, or a config flow for the first one.
LEMMA IntegrationStart ==
    ASSUME IntegrationInit
    PROVE  IInv
<1>1. PICK v \in FirstVersions :
         /\ entry = [version |-> v, targets |-> IF v = 0 THEN <<>> ELSE OldTargets(v)]
         /\ registry = [u \in {Uid(t) : t \in ToSet(entry.targets)} |-> u]
         /\ setup = IF v = 0 THEN "absent" ELSE "starting"
         /\ flow = [f \in Flows |-> IF v = 0 /\ f = CHOOSE g \in Flows : TRUE
                                    THEN [Closed EXCEPT !.step = "user"] ELSE Closed]
  BY DEF IntegrationInit
<1>2. onDisk = [entry |-> entry, registry |-> registry]
  BY DEF IntegrationInit
<1>3. v \in {0, 1, 3}
  BY IntegrationAssumption
<1>4. entry.version = v /\ entry.targets = IF v = 0 THEN <<>> ELSE OldTargets(v)
  BY <1>1
<1>5. GoodEntry(entry)
  <2>1. CASE v = 0
    <3>1. entry = [version |-> 0, targets |-> <<>>] /\ <<>> \in Seq(Targets)
      BY <1>1, <2>1
    <3>. QED  BY <3>1 DEF GoodEntry, ExtsApart, IdsApart
  <2>2. CASE v # 0
    <3>1. v \in {1, 3} /\ entry = [version |-> v, targets |-> OldTargets(v)]
      BY <1>1, <1>3, <2>2
    <3>. QED  BY <3>1, <1>4, <2>2, OldTargetsAreGood DEF GoodEntry
  <2>. QED  BY <2>1, <2>2
<1>6. EntriesGood
  BY <1>2, <1>5 DEF EntriesGood
<1>7. FlowsFit
  <2>. DEFINE first == CHOOSE g \in Flows : TRUE
              user == [Closed EXCEPT !.step = "user"]
  <2>1. Closed \in FlowRecords /\ Closed.step = "closed"
    BY IntegrationAssumption DEF Closed, FlowRecords, FlowType, NoId
  <2>2. user \in FlowRecords /\ user.step = "user" /\ user.shown = <<>>
    BY <2>1 DEF Closed, FlowRecords, FlowType
  <2>3. GoodList(<<>>)
    BY DEF GoodList, ExtsApart, IdsApart
  <2>4. flow = [f \in Flows |-> IF v = 0 /\ f = first THEN user ELSE Closed]
    BY <1>1
  <2>. HIDE DEF first, user
  <2>5. flow \in [Flows -> FlowRecords]
    BY <2>1, <2>2, <2>4
  <2>6. \A f \in Flows : Gathering(flow[f]) => v = 0 /\ f = first /\ flow[f] = user
    BY <2>1, <2>4 DEF Gathering
  <2>7. \A f \in Flows : flow[f].step \notin {"add", "edit"}
    BY <2>1, <2>2, <2>4
  <2>. QED  BY <1>4, <2>2, <2>3, <2>5, <2>6, <2>7 DEF FlowsFit
<1>8. SetupFits
  BY <1>1, <1>3, <1>4 DEF SetupFits, SetupType
<1>9. NoEntityLeftBehind
  BY <1>1 DEF NoEntityLeftBehind, Claimed
<1>. QED  BY <1>6, <1>7, <1>8, <1>9 DEF IInv

(***************************************************************************)
(* The theorems about the entry.                                           *)
(***************************************************************************)
\* The entry, its copy on disk and the flows fit each other in every
\* reachable state.
THEOREM EntryInvariance == IntegrationSpec => []IInv
<1>1. IntegrationInit => IInv
  BY IntegrationStart
<1>2. IInv /\ [IntegrationNext]_integrationVars => IInv'
  BY IntegrationStep
<1>. QED  BY <1>1, <1>2, PTL DEF IntegrationSpec

\* However many flows add and edit targets at once, no two ring the same
\* handsets (config_flow.py:186-190).
THEOREM NeverTwoPerExtension == IntegrationSpec => []OneTargetPerExtension
<1>1. IInv => OneTargetPerExtension
  BY DEF IInv, EntriesGood, GoodEntry, ExtsApart, OneTargetPerExtension
<1>. QED  BY <1>1, EntryInvariance, PTL

\* No migration, addition or edit leaves an entity without its target
\* (__init__.py:107, config_flow.py:259-291).
THEOREM EntitiesKeepTheirTargets == IntegrationSpec => []NoEntityLeftBehind
<1>1. IInv => NoEntityLeftBehind
  BY DEF IInv
<1>. QED  BY <1>1, EntryInvariance, PTL

(***************************************************************************)
(* What Home Assistant keeps of the entities, and what is counted.         *)
(***************************************************************************)
NamesFit ==
    /\ RegistryType(registry) /\ RegistryType(onDisk.registry)
    /\ loaded \subseteq [entity: Uids, ext: Extensions]

\* Each reload that is due was asked for by a form that was saved.
CountsFit ==
    /\ sidecar \in BOOLEAN /\ torn \in BOOLEAN /\ unheard \in BOOLEAN
    /\ requests \in 0..MaxRequests /\ faults \in 0..MaxFaults
    /\ reloads \in 0..requests

KeptInv == NamesFit /\ CountsFit

\* A target's unique id is one.
LEMMA UidsOfTargets ==
    ASSUME NEW ts \in Seq(Targets)
    PROVE  \A t \in ToSet(ts) : t \in Targets /\ Uid(t) \in Uids /\ t.ext \in Extensions
<1>. SUFFICES ASSUME NEW t \in ToSet(ts)
              PROVE  t \in Targets /\ Uid(t) \in Uids /\ t.ext \in Extensions
  OBVIOUS
<1>1. t \in Targets
  BY DEF ToSet
<1>2. t.id \in 0..MaxIds /\ t.ext \in Extensions
  BY <1>1 DEF Targets
<1>3. t.id # 0 => t.id \in 1..MaxIds
  BY <1>2, IntegrationAssumption
<1>. QED  BY <1>1, <1>2, <1>3 DEF Uid, Uids, NoId

\* An entity is known by the unique id it was first made for.
LEMMA EntitiesAreNamed ==
    ASSUME RegistryType(registry), entry.targets \in Seq(Targets)
    PROVE  Built \subseteq [entity: Uids, ext: Extensions]
<1>. SUFFICES ASSUME NEW t \in ToSet(entry.targets)
              PROVE  EntityOf(t) \in Uids /\ t.ext \in Extensions
  BY DEF Built
<1>1. Uid(t) \in Uids /\ t.ext \in Extensions
  BY UidsOfTargets
<1>2. Uid(t) \in DOMAIN registry => registry[Uid(t)] \in Uids
  BY DEF RegistryType, Range
<1>. QED  BY <1>1, <1>2 DEF EntityOf

\* The migration renames entities to ids, and leaves each its name.
LEMMA RenamedType ==
    ASSUME IInv, RegistryType(registry), Room(Len(entry.targets))
    PROVE  RegistryType(RenamedRegistry)
<1>1. entry.targets \in Seq(Targets) /\ DOMAIN entry.targets = 1..Len(entry.targets)
      /\ Len(entry.targets) \in Nat
  BY DEF IInv, EntriesGood, GoodEntry
<1>2. Fresh \in 1..MaxIds /\ Fresh + Len(entry.targets) - 1 <= MaxIds /\ MaxIds \in Nat
  BY <1>1, FreshIsNew, IntegrationAssumption
<1>3. \A i \in DOMAIN entry.targets : NewId(i) \in 1..MaxIds
  <2>. DEFINE fresh == Fresh
              n == Len(entry.targets)
  <2>. HIDE DEF fresh, n
  <2>1. \A i \in 1..n : fresh + i - 1 \in 1..MaxIds
    BY <1>1, <1>2 DEF fresh, n
  <2>. QED  BY <1>1, <2>1 DEF fresh, n, NewId
<1>4. ASSUME NEW v \in DOMAIN registry
      PROVE  Renamed(v) \in Uids
  <2>. DEFINE old == {i \in DOMAIN entry.targets :
                         entry.targets[i].id = NoId /\ entry.targets[i].ext = v}
  <2>1. Renamed(v) = IF old = {} THEN v ELSE NewId(CHOOSE i \in old : TRUE)
    BY DEF Renamed
  <2>2. old # {} => (CHOOSE i \in old : TRUE) \in DOMAIN entry.targets
    <3>1. old # {} => (CHOOSE i \in old : TRUE) \in old
      OBVIOUS
    <3>. QED  BY <3>1
  <2>. HIDE DEF old
  <2>3. v \in Uids
    BY DEF RegistryType
  <2>. QED  BY <1>3, <2>1, <2>2, <2>3 DEF Uids
<1>. DEFINE new == {Renamed(v) : v \in DOMAIN registry}
            was(u) == CHOOSE v \in DOMAIN registry : Renamed(v) = u
<1>5. \A u \in new : was(u) \in DOMAIN registry
  OBVIOUS
<1>6. \A u \in new : registry[was(u)] \in Uids
  BY <1>5 DEF RegistryType, Range
<1>7. new \subseteq Uids
  BY <1>4
<1>8. RenamedRegistry = [u \in new |-> registry[was(u)]]
  BY DEF RenamedRegistry
<1>. HIDE DEF new, was
<1>. QED  BY <1>6, <1>7, <1>8 DEF RegistryType, Range

\* The entities the set-up makes are added to the registry.
LEMMA ForwardedType ==
    ASSUME IInv, NamesFit, ForwardSetup
    PROVE  NamesFit'
<1>. DEFINE new == DOMAIN registry \cup {Uid(t) : t \in ToSet(entry.targets)}
<1>1. /\ registry' = [u \in new |-> IF u \in DOMAIN registry THEN registry[u] ELSE u]
      /\ loaded' = Built /\ onDisk' = onDisk
      /\ entry.targets \in Seq(Targets) /\ RegistryType(registry)
  BY DEF ForwardSetup, IInv, EntriesGood, GoodEntry, NamesFit
<1>2. new \subseteq Uids
  BY <1>1, UidsOfTargets DEF RegistryType
<1>3. \A u \in DOMAIN registry : registry[u] \in Uids
  BY <1>1 DEF RegistryType, Range
<1>. HIDE DEF new
<1>4. DOMAIN registry' \subseteq Uids /\ Range(registry') \subseteq Uids
  BY <1>1, <1>2, <1>3 DEF Range
<1>5. loaded' \subseteq [entity: Uids, ext: Extensions]
  BY <1>1, EntitiesAreNamed
<1>. QED  BY <1>1, <1>4, <1>5 DEF NamesFit, RegistryType, Range

\* Who leaves the registry and the entities alone.
LEMMA NamesKept ==
    ASSUME NamesFit, UNCHANGED <<registry, onDisk, loaded>>
    PROVE  NamesFit'
BY DEF NamesFit, RegistryType, Range

\* Names come from the targets, and go to and from the disk as they are.
LEMMA NamesStep ==
    ASSUME IInv, NamesFit, [IntegrationNext]_integrationVars
    PROVE  NamesFit'
<1>1. ASSUME NEW f \in Flows, FlowNext(f) PROVE NamesFit'
  <2>1. UNCHANGED <<registry, onDisk, loaded>>
    <3>1. CASE StepUser(f)
      BY <3>1 DEF StepUser, entryVars
    <3>2. CASE \E x \in Extensions, another \in BOOLEAN : StepTarget(f, x, another)
      BY <3>2 DEF StepTarget
    <3>3. CASE OpenAdd(f) \/ OpenEdit(f)
      BY <3>3 DEF OpenAdd, OpenEdit, Open, entryVars
    <3>4. CASE \E x \in Extensions : AddTarget(f, x) \/ EditTarget(f, x)
      BY <3>4 DEF AddTarget, EditTarget, Save
    <3>. QED  BY <1>1, <3>1, <3>2, <3>3, <3>4 DEF FlowNext
  <2>. QED  BY <2>1, NamesKept
<1>2. ASSUME NEW c \in Callers, PageNext(c) PROVE NamesFit'
  <2>1. ASSUME NEW asked, Page(c, asked) PROVE UNCHANGED <<registry, onDisk, loaded>>
    BY <2>1 DEF Page, entryVars
  <2>2. ASSUME NEW e, NEW well, Placed(c, e, well)
        PROVE  UNCHANGED <<registry, onDisk, loaded>>
    BY <2>2 DEF Placed, entryVars
  <2>3. ASSUME Tell(c) PROVE UNCHANGED <<registry, onDisk, loaded>>
    BY <2>3 DEF Tell, entryVars
  <2>. QED  BY <1>2, <2>1, <2>2, <2>3, NamesKept DEF PageNext
<1>3. CASE Migrate
  <2>1. UNCHANGED <<onDisk, loaded>>
    BY <1>3 DEF Migrate
  <2>2. registry' = registry \/ (registry' = RenamedRegistry /\ Room(Len(entry.targets)))
    BY <1>3 DEF Migrate
  <2>3. RegistryType(registry')
    BY <2>2, RenamedType DEF NamesFit
  <2>. QED  BY <2>1, <2>3 DEF NamesFit, RegistryType, Range
<1>4. CASE ForwardSetup
  BY <1>4, ForwardedType
<1>5. CASE \E queued \in SUBSET Entities : Reload(queued)
  <2>1. UNCHANGED <<registry, onDisk>> /\ loaded' = {}
    BY <1>5 DEF Reload, entryVars
  <2>. QED  BY <2>1 DEF NamesFit, RegistryType, Range
<1>6. CASE SaveEntry \/ SaveRegistry
  <2>1. /\ UNCHANGED <<registry, loaded>>
        /\ \/ onDisk' = [onDisk EXCEPT !.entry = entry]
           \/ onDisk' = [onDisk EXCEPT !.registry = registry]
    BY <1>6 DEF SaveEntry, SaveRegistry
  <2>2. onDisk = [entry |-> onDisk.entry, registry |-> onDisk.registry]
    BY DEF IInv, EntriesGood
  <2>3. onDisk'.registry \in {registry, onDisk.registry}
    BY <2>1, <2>2
  <2>. QED  BY <2>1, <2>3 DEF NamesFit, RegistryType, Range
<1>7. CASE PowerLoss
  <2>1. registry' = onDisk.registry /\ onDisk' = onDisk /\ loaded' = {}
    BY <1>7 DEF PowerLoss
  <2>. QED  BY <2>1 DEF NamesFit, RegistryType, Range
<1>8. CASE AskSidecar \/ Retry \/ Listen \/ SidecarFails \/ SidecarReturns
           \/ UNCHANGED integrationVars
  <2>1. UNCHANGED <<registry, onDisk, loaded>>
    BY <1>8 DEF AskSidecar, Retry, Listen, SidecarFails, SidecarReturns, entryVars, integrationVars
  <2>. QED  BY <2>1, NamesKept
<1>. QED  BY <1>1, <1>2, <1>3, <1>4, <1>5, <1>6, <1>7, <1>8 DEF IntegrationNext

\* A form saved is a request and at most one reload.
LEMMA FlowCounts ==
    ASSUME CountsFit, NEW f \in Flows, FlowNext(f)
    PROVE  CountsFit'
<1>1. UNCHANGED <<sidecar, faults, torn>> /\ unheard' \in BOOLEAN
      /\ requests' \in {requests, requests + 1} /\ requests' \in 0..MaxRequests
      /\ \/ reloads' = reloads
         \/ requests' = requests + 1 /\ reloads' = reloads + 1
  <2>. USE IntegrationAssumption DEF CountsFit
  <2>1. CASE StepUser(f)
    BY <2>1 DEF StepUser, boundVars
  <2>2. CASE \E x \in Extensions, another \in BOOLEAN : StepTarget(f, x, another)
    BY <2>2 DEF StepTarget
  <2>3. CASE OpenAdd(f) \/ OpenEdit(f)
    BY <2>3 DEF OpenAdd, OpenEdit, Open, boundVars
  <2>4. CASE \E x \in Extensions : AddTarget(f, x) \/ EditTarget(f, x)
    <3>1. PICK ts : Save(f, ts)
      BY <2>4 DEF AddTarget, EditTarget
    <3>. QED  BY <3>1 DEF Save, Listener
  <2>. QED  BY <2>1, <2>2, <2>3, <2>4 DEF FlowNext
<1>. QED  BY <1>1, IntegrationAssumption DEF CountsFit

LEMMA CountsStep ==
    ASSUME CountsFit, [IntegrationNext]_integrationVars
    PROVE  CountsFit'
<1>. USE IntegrationAssumption DEF CountsFit
<1>1. ASSUME NEW c \in Callers, PageNext(c) PROVE CountsFit'
  <2>1. UNCHANGED <<sidecar, faults, torn, unheard, reloads>>
        /\ (requests' = requests \/ (requests < MaxRequests /\ requests' = requests + 1))
    <3>1. ASSUME NEW asked, Page(c, asked)
          PROVE  UNCHANGED <<sidecar, faults, torn, unheard, reloads>>
                 /\ requests < MaxRequests /\ requests' = requests + 1
      BY <3>1 DEF Page
    <3>2. ASSUME NEW e, NEW well, Placed(c, e, well)
          PROVE  UNCHANGED <<sidecar, faults, torn, unheard, reloads, requests>>
      BY <3>2 DEF Placed, boundVars
    <3>3. ASSUME Tell(c) PROVE UNCHANGED <<sidecar, faults, torn, unheard, reloads, requests>>
      BY <3>3 DEF Tell, boundVars
    <3>. QED  BY <1>1, <3>1, <3>2, <3>3 DEF PageNext
  <2>. QED  BY <2>1
<1>2. CASE Migrate \/ AskSidecar \/ Retry \/ ForwardSetup \/ Listen \/ SaveEntry
           \/ SaveRegistry \/ UNCHANGED integrationVars
  <2>1. /\ UNCHANGED <<sidecar, faults, torn, reloads, requests>>
        /\ unheard' = unheard \/ unheard' = FALSE
    BY <1>2 DEF Migrate, AskSidecar, Retry, ForwardSetup, Listen, SaveEntry, SaveRegistry,
                boundVars, integrationVars
  <2>. QED  BY <2>1
<1>3. CASE \E queued \in SUBSET Entities : Reload(queued)
  <2>1. UNCHANGED <<sidecar, faults, torn, unheard, requests>> /\ reloads > 0 /\ reloads' = reloads - 1
    BY <1>3 DEF Reload, boundVars
  <2>. QED  BY <2>1
<1>4. CASE PowerLoss
  <2>1. /\ UNCHANGED <<sidecar, requests>> /\ reloads' = 0 /\ unheard' = FALSE
        /\ faults < MaxFaults /\ faults' = faults + 1
        /\ torn' = (torn \/ ~Claimed(onDisk.entry, onDisk.registry))
    BY <1>4 DEF PowerLoss
  <2>2. torn' \in BOOLEAN /\ unheard' \in BOOLEAN /\ sidecar' \in BOOLEAN
    BY <2>1
  <2>3. reloads' \in 0..requests' /\ requests' \in 0..MaxRequests
    BY <2>1
  <2>4. faults' \in 0..MaxFaults
    BY <2>1
  <2>. QED  BY <2>2, <2>3, <2>4
<1>5. CASE SidecarFails
  <2>1. /\ UNCHANGED <<requests, reloads, torn, unheard>> /\ sidecar' = FALSE
        /\ faults < MaxFaults /\ faults' = faults + 1
    BY <1>5 DEF SidecarFails
  <2>2. sidecar' \in BOOLEAN
    BY <2>1
  <2>3. faults' \in 0..MaxFaults
    BY <2>1
  <2>. QED  BY <2>1, <2>2, <2>3
<1>6. CASE SidecarReturns
  BY <1>6 DEF SidecarReturns, boundVars
<1>. QED  BY <1>1, <1>2, <1>3, <1>4, <1>5, <1>6, FlowCounts DEF IntegrationNext

LEMMA KeptStart ==
    ASSUME IntegrationInit
    PROVE  KeptInv
<1>1. IInv
  BY IntegrationStart
<1>2. /\ registry = [u \in {Uid(t) : t \in ToSet(entry.targets)} |-> u]
      /\ onDisk = [entry |-> entry, registry |-> registry]
      /\ loaded = {} /\ entry.targets \in Seq(Targets)
  BY <1>1 DEF IntegrationInit, IInv, EntriesGood, GoodEntry
<1>3. {Uid(t) : t \in ToSet(entry.targets)} \subseteq Uids
  BY <1>2, UidsOfTargets
<1>4. RegistryType(registry) /\ onDisk.registry = registry
  BY <1>2, <1>3 DEF RegistryType, Range
<1>5. CountsFit
  <2>1. sidecar = TRUE /\ torn = FALSE /\ unheard = FALSE
    BY DEF IntegrationInit
  <2>2. /\ requests \in 0..MaxRequests /\ faults \in 0..MaxFaults
        /\ reloads \in 0..requests
    BY IntegrationAssumption DEF IntegrationInit
  <2>. QED  BY <2>1, <2>2 DEF CountsFit
<1>. QED  BY <1>2, <1>4, <1>5 DEF KeptInv, NamesFit

\* The registry, its copy on disk and the entities keep to the unique ids
\* there can be, and no more reloads are due than forms were saved.
THEOREM KeptInvariance == IntegrationSpec => []KeptInv
<1>1. IntegrationInit => KeptInv
  BY KeptStart
<1>2. IInv /\ KeptInv /\ [IntegrationNext]_integrationVars => KeptInv'
  BY NamesStep, CountsStep DEF KeptInv
<1>. QED  BY <1>1, <1>2, EntryInvariance, PTL DEF IntegrationSpec

\* Whatever other flows are open and in whatever order their forms come
\* back, a saved target is changed by an edit of this same target only, and
\* keeps its id and its place (config_flow.py:192-203, 280-291).
THEOREM SavesStay == IntegrationSpec => NoSaveIsLost
<1>1. ASSUME IInv, KeptInv, [IntegrationNext]_integrationVars
      PROVE  [faults' = faults /\ entry.version = 2
                => \A i \in DOMAIN entry.targets : Kept(i)]_integrationVars
  <2>1. PowerLoss => faults' # faults
    BY <1>1 DEF PowerLoss, KeptInv, CountsFit
  <2>. QED  BY <1>1, <2>1, IntegrationStep DEF AllKept
<1>. QED  BY <1>1, EntryInvariance, KeptInvariance, PTL DEF IntegrationSpec, NoSaveIsLost

(***************************************************************************)
(* The service.                                                            *)
(***************************************************************************)
IsPage(p) ==
    \E step, asked, placed, failed, lost, told :
       p = [step |-> step, asked |-> asked, placed |-> placed,
            failed |-> failed, lost |-> lost, told |-> told]

\* A page is never both placed and failed, has an end for targets it has only,
\* and who was told was told all.
PageFits(p) ==
    /\ IsPage(p)
    /\ p.asked \subseteq Uids
    /\ p.placed \cup p.failed \cup p.lost \subseteq p.asked
    /\ p.placed \cap p.failed = {} /\ p.told \subseteq p.failed
    /\ p.step = "told" => p.asked = p.placed \cup p.failed /\ p.told = p.failed

PagesFit == page = [c \in Callers |-> page[c]] /\ \A c \in Callers : PageFits(page[c])

\* One caller's page changes.
LEMMA OnePage ==
    ASSUME PagesFit, NEW c \in Callers, NEW p, PageFits(p), page' = [page EXCEPT ![c] = p]
    PROVE  PagesFit'
<1>1. page' = [d \in Callers |-> IF d = c THEN p ELSE page[d]]
  BY DEF PagesFit
<1>2. \A d \in Callers : PageFits(page'[d])
  BY <1>1 DEF PagesFit
<1>3. page' = [d \in Callers |-> page'[d]]
  BY <1>1
<1>. QED  BY <1>2, <1>3 DEF PagesFit, PageFits, IsPage

\* The unload ends only pages that were still open.
LEMMA AbandonedFits ==
    ASSUME NEW p, PageFits(p), NEW queued
    PROVE  PageFits(Abandoned(p, queued))
<1>1. PICK step, asked, placed, failed, lost, told :
         p = [step |-> step, asked |-> asked, placed |-> placed,
              failed |-> failed, lost |-> lost, told |-> told]
  BY DEF PageFits, IsPage
<1>. DEFINE left == asked \ (placed \cup failed \cup lost)
            gone == failed \cup (left \ queued)
            forgotten == lost \cup (left \cap queued)
            q == [step |-> step, asked |-> asked, placed |-> placed,
                  failed |-> gone, lost |-> forgotten, told |-> told]
<1>2. Abandoned(p, queued) = q
  <2>1. Abandoned(p, queued) = [p EXCEPT !.lost = forgotten, !.failed = gone]
    BY <1>1 DEF Abandoned
  <2>. HIDE DEF gone, forgotten, left
  <2>. DEFINE p1 == [p EXCEPT !.lost = forgotten]
  <2>2. p1 = [step |-> step, asked |-> asked, placed |-> placed,
              failed |-> failed, lost |-> forgotten, told |-> told]
    BY <1>1
  <2>3. [p EXCEPT !.lost = forgotten, !.failed = gone] = [p1 EXCEPT !.failed = gone]
    OBVIOUS
  <2>. HIDE DEF p1
  <2>4. [p1 EXCEPT !.failed = gone] = q
    BY <2>2
  <2>. QED  BY <2>1, <2>3, <2>4
<1>3. /\ asked \subseteq Uids /\ placed \cup failed \cup lost \subseteq asked
      /\ placed \cap failed = {} /\ told \subseteq failed
      /\ step = "told" => asked = placed \cup failed /\ told = failed
  BY <1>1 DEF PageFits
<1>4. /\ placed \cap gone = {} /\ told \subseteq gone
      /\ placed \cup gone \cup forgotten \subseteq asked
      /\ step = "told" => gone = failed
  BY <1>3
<1>. HIDE DEF gone, forgotten
<1>5. IsPage(q)
  BY DEF IsPage
<1>6. PageFits(q)
  BY <1>3, <1>4, <1>5 DEF PageFits
<1>. QED  BY <1>2, <1>6

\* The service, and the answers of the entities.
LEMMA PagesStep ==
    ASSUME PagesFit, RegistryType(registry), [IntegrationNext]_integrationVars
    PROVE  PagesFit'
<1>1. ASSUME NEW c \in Callers, NEW asked \in SUBSET Range(registry), Page(c, asked)
      PROVE  PagesFit'
  <2>1. PICK step \in {"waiting", "refused"} :
           page' = [page EXCEPT ![c] = [NotAsked EXCEPT !.step = step, !.asked = asked]]
    BY <1>1 DEF Page
  <2>. DEFINE p1 == [NotAsked EXCEPT !.step = step]
              p == [NotAsked EXCEPT !.step = step, !.asked = asked]
              q == [step |-> step, asked |-> asked, placed |-> {}, failed |-> {},
                    lost |-> {}, told |-> {}]
  <2>2. p1 = [step |-> step, asked |-> {}, placed |-> {}, failed |-> {},
              lost |-> {}, told |-> {}]
    BY DEF NotAsked
  <2>3. p = [p1 EXCEPT !.asked = asked]
    OBVIOUS
  <2>. HIDE DEF p1
  <2>4. p = q
    BY <2>2, <2>3
  <2>5. asked \subseteq Uids
    BY DEF RegistryType
  <2>6. PageFits(q)
    BY <2>5 DEF PageFits, IsPage
  <2>. QED  BY <2>1, <2>4, <2>6, OnePage
<1>2. ASSUME NEW c \in Callers, NEW e, NEW well \in BOOLEAN, Placed(c, e, well)
      PROVE  PagesFit'
  <2>1. PICK step, asked, placed, failed, lost, told :
           page[c] = [step |-> step, asked |-> asked, placed |-> placed,
                      failed |-> failed, lost |-> lost, told |-> told]
    BY DEF PagesFit, PageFits, IsPage
  <2>2. /\ step = "waiting" /\ e \in asked /\ e \notin placed /\ e \notin failed
        /\ asked \subseteq Uids /\ placed \cup failed \cup lost \subseteq asked
        /\ placed \cap failed = {} /\ told \subseteq failed
    BY <1>2, <2>1 DEF Placed, PagesFit, PageFits
  <2>3. CASE well
    <3>. DEFINE p == [page[c] EXCEPT !.placed = @ \cup {e}]
                q == [step |-> step, asked |-> asked, placed |-> placed \cup {e},
                      failed |-> failed, lost |-> lost, told |-> told]
    <3>1. page' = [page EXCEPT ![c] = p]
      BY <1>2, <2>3 DEF Placed
    <3>2. p = q
      BY <2>1
    <3>3. PageFits(q)
      BY <2>2 DEF PageFits, IsPage
    <3>. QED  BY <3>1, <3>2, <3>3, OnePage
  <2>4. CASE ~well
    <3>. DEFINE p == [page[c] EXCEPT !.failed = @ \cup {e}]
                q == [step |-> step, asked |-> asked, placed |-> placed,
                      failed |-> failed \cup {e}, lost |-> lost, told |-> told]
    <3>1. page' = [page EXCEPT ![c] = p]
      BY <1>2, <2>4 DEF Placed
    <3>2. p = q
      BY <2>1
    <3>3. PageFits(q)
      BY <2>2 DEF PageFits, IsPage
    <3>. QED  BY <3>1, <3>2, <3>3, OnePage
  <2>. QED  BY <2>3, <2>4
<1>3. ASSUME NEW c \in Callers, Tell(c) PROVE PagesFit'
  <2>1. PICK step, asked, placed, failed, lost, told :
           page[c] = [step |-> step, asked |-> asked, placed |-> placed,
                      failed |-> failed, lost |-> lost, told |-> told]
    BY DEF PagesFit, PageFits, IsPage
  <2>2. /\ asked = placed \cup failed /\ placed \cap failed = {}
        /\ asked \subseteq Uids /\ lost \subseteq asked
    BY <1>3, <2>1 DEF Tell, Gathered, PagesFit, PageFits
  <2>. DEFINE old == page[c]
              p1 == [old EXCEPT !.step = "told"]
              p == [old EXCEPT !.step = "told", !.told = old.failed]
              q == [step |-> "told", asked |-> asked, placed |-> placed,
                    failed |-> failed, lost |-> lost, told |-> failed]
  <2>3. page' = [page EXCEPT ![c] = p]
    BY <1>3 DEF Tell
  <2>. HIDE DEF old
  <2>4. old.failed = failed
    BY <2>1 DEF old
  <2>5. p1 = [step |-> "told", asked |-> asked, placed |-> placed,
              failed |-> failed, lost |-> lost, told |-> told]
    BY <2>1 DEF old
  <2>6. p = [p1 EXCEPT !.told = old.failed]
    OBVIOUS
  <2>. HIDE DEF p1
  <2>7. p = q
    BY <2>4, <2>5, <2>6
  <2>8. PageFits(q)
    BY <2>2 DEF PageFits, IsPage
  <2>. QED  BY <2>3, <2>7, <2>8, OnePage
<1>4. ASSUME NEW queued, Reload(queued) PROVE PagesFit'
  <2>1. page' = [c \in Callers |-> Abandoned(page[c], queued)]
    BY <1>4 DEF Reload
  <2>2. \A c \in Callers : PageFits(page'[c])
    BY <2>1, AbandonedFits DEF PagesFit
  <2>. QED  BY <2>1, <2>2 DEF PagesFit, PageFits, IsPage
<1>5. ASSUME PowerLoss PROVE PagesFit'
  <2>1. page' = [c \in Callers |-> NotAsked]
    BY <1>5 DEF PowerLoss
  <2>2. PageFits(NotAsked)
    BY DEF NotAsked, PageFits, IsPage
  <2>. QED  BY <2>1, <2>2 DEF PagesFit, PageFits, IsPage
<1>6. ASSUME page' = page PROVE PagesFit'
  BY <1>6 DEF PagesFit, PageFits, IsPage
<1>7. ASSUME NEW f \in Flows, FlowNext(f) PROVE page' = page
  <2>1. CASE StepUser(f)
    BY <2>1 DEF StepUser
  <2>2. CASE \E x \in Extensions, another \in BOOLEAN : StepTarget(f, x, another)
    BY <2>2 DEF StepTarget
  <2>3. CASE OpenAdd(f) \/ OpenEdit(f)
    BY <2>3 DEF OpenAdd, OpenEdit, Open
  <2>4. CASE \E x \in Extensions : AddTarget(f, x) \/ EditTarget(f, x)
    BY <2>4 DEF AddTarget, EditTarget, Save
  <2>. QED  BY <1>7, <2>1, <2>2, <2>3, <2>4 DEF FlowNext
<1>8. ASSUME Migrate \/ AskSidecar \/ Retry \/ ForwardSetup \/ Listen \/ SaveEntry \/ SaveRegistry
             \/ SidecarFails \/ SidecarReturns \/ UNCHANGED integrationVars
      PROVE  page' = page
  BY <1>8 DEF Migrate, AskSidecar, Retry, ForwardSetup, Listen, SaveEntry, SaveRegistry,
              SidecarFails, SidecarReturns, integrationVars
<1>9. ASSUME NEW c \in Callers, PageNext(c) PROVE PagesFit'
  <2>1. CASE \E asked \in kSubset(2, Range(registry)) : Page(c, asked)
    BY <1>1, <2>1 DEF kSubset
  <2>. QED  BY <1>2, <1>3, <1>9, <2>1 DEF PageNext
<1>. QED  BY <1>4, <1>5, <1>6, <1>7, <1>8, <1>9 DEF IntegrationNext

LEMMA PagesStart ==
    ASSUME IntegrationInit
    PROVE  PagesFit
<1>1. PageFits(NotAsked)
  BY DEF NotAsked, PageFits, IsPage
<1>. QED  BY <1>1 DEF IntegrationInit, PagesFit

\* The pages of the service fit at any moment.
THEOREM PagesInvariance == IntegrationSpec => []PagesFit
<1>1. IntegrationInit => PagesFit
  BY PagesStart
<1>2. KeptInv /\ PagesFit /\ [IntegrationNext]_integrationVars => PagesFit'
  BY PagesStep DEF KeptInv, NamesFit
<1>. QED  BY <1>1, <1>2, KeptInvariance, PTL DEF IntegrationSpec

\* However many targets a page has and in whatever order they answer, fail or
\* are unloaded, a caller that is told hears of each that failed, and all the
\* others played (__init__.py:209-229).
THEOREM EveryFailureIsTold == IntegrationSpec => []NothingSwallowed
<1>1. PagesFit => NothingSwallowed
  BY DEF PagesFit, PageFits, NothingSwallowed
<1>. QED  BY <1>1, PagesInvariance, PTL

\* The entry, the registry, the flows and the pages keep their kinds: every
\* id that is made is new and in range, no entity is known by a name that no
\* target ever gave it, and no page ends for a target it was not asked for
\* (__init__.py:102-156, config_flow.py:50-52, 124-139).
THEOREM IntegrationKeepsItsTypes == IntegrationSpec => []IntegrationTypeOK
<1>1. ASSUME IInv, KeptInv, PagesFit
      PROVE  IntegrationTypeOK
  <2>1. /\ EntryType(entry) /\ EntryType(onDisk.entry) /\ setup \in SetupType
    BY <1>1 DEF IInv, EntriesGood, GoodEntry, EntryType, SetupFits
  <2>2. ASSUME NEW f \in Flows
        PROVE  /\ flow[f].step \in FlowType /\ flow[f].shown \in Seq(Targets)
               /\ flow[f].editing \in 0..MaxIds
    <3>1. flow[f] \in FlowRecords
      BY <1>1 DEF IInv, FlowsFit
    <3>. QED  BY <3>1 DEF FlowRecords
  <2>3. /\ sidecar \in BOOLEAN /\ torn \in BOOLEAN /\ unheard \in BOOLEAN
        /\ reloads \in 0..MaxRequests
        /\ requests \in 0..MaxRequests /\ faults \in 0..MaxFaults
    BY <1>1, IntegrationAssumption DEF KeptInv, CountsFit
  <2>4. /\ RegistryType(registry) /\ RegistryType(onDisk.registry)
        /\ loaded \subseteq [entity: Uids, ext: Extensions]
    BY <1>1 DEF KeptInv, NamesFit
  <2>5. \A c \in Callers : /\ page[c].asked \subseteq Uids
                           /\ page[c].told \subseteq page[c].failed
                           /\ page[c].placed \cup page[c].failed \cup page[c].lost
                                 \subseteq page[c].asked
    BY <1>1 DEF PagesFit, PageFits
  <2>. QED  BY <2>1, <2>2, <2>3, <2>4, <2>5 DEF IntegrationTypeOK
<1>. QED  BY <1>1, EntryInvariance, KeptInvariance, PagesInvariance, PTL
=============================================================================
