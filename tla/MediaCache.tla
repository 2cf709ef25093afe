----------------------------- MODULE MediaCache -----------------------------
(***************************************************************************)
(* media.py: pages that resolve a chime and an announcement to clips, join *)
(* them and hand the file to the SIP thread, over one directory of files.  *)
(* Between two awaits a request runs alone; each await, for a fetch, a     *)
(* lock or a child process, ends an action.                                *)
(*                                                                         *)
(* A file is named for what it plays: <<"wav", w>> is the clip or the join *)
(* of the sources w, <<"tmp", w>> what ffmpeg writes of a clip.  `age' is  *)
(* the order of modification times of the files and of the sounds: <<x, y>>*)
(* is in it when x is no younger than y.                                   *)
(*                                                                         *)
(* Local paths are left out: the name of their transcode changes with      *)
(* every edit (media.py:149).  So is a sound that shadows another between  *)
(* the look for its path and the lock.                                     *)
(***************************************************************************)
EXTENDS Integers, Sequences, FiniteSets, FiniteSetsExt

CONSTANTS Requests,     \* POST /call, one page each
          Urls,         \* contents behind http(s) URLs, which a hash names
          Sounds,       \* sound: names
          Chimes,       \* of the sources, those asked for as chime
          Bytes,        \* how much the clip of a source takes
          Budget,       \* cache_max_bytes
          MaxEdits,     \* bound on the sounds replaced
          Restarts      \* the sidecar may be killed and started again

VARIABLES request, file, age, lock, edits, masked, broken, robbed

\* No handler reads these: the sounds of which the times may hide the last
\* replacement, the joins that a failure left half, and the requests whose
\* file an eviction took after they had looked for it.
observations == <<masked, broken, robbed>>
cacheVars == <<request, file, age, lock, edits, observations>>

Sources == Urls \cup Sounds

\* What a page asks for: one thing to play, or a chime before it.
Wishes == {<<k>> : k \in Sources} \cup (Chimes \X Sources)
Files   == {"wav", "tmp"} \X Wishes

Nobody == "nobody"

ASSUME CacheAssumption ==
    /\ Nobody \notin Requests /\ Urls \cup Sounds # {}
    /\ Urls \cap Sounds = {} /\ Chimes \subseteq Urls \cup Sounds
    /\ Bytes \in [Urls \cup Sounds -> Nat]
    /\ Budget \in Nat /\ MaxEdits \in Nat /\ Restarts \in BOOLEAN

Absent == [state |-> "absent", old |-> {}]

\* `old' are the sounds of which the file plays a content since replaced.
FileType == [state: {"absent", "half", "whole"}, old: SUBSET Sounds]

\* `done' counts the clips of the wish that are resolved.
RequestType ==
    [stage: {"new", "fetching", "locking", "encoding", "written", "probing",
             "measuring", "ready", "playing", "silent", "failed", "lost"},
     wish: Wishes, done: 0..2]

\* Not asked yet, or over for the cache.
Settled == {"new", "playing", "silent", "failed", "lost"}

Wav(w)    == <<"wav", w>>
Source(k) == <<"source", <<k>>>>

Present(f) == file[f].state # "absent"

(***************************************************************************)
(* The job of a request: the next clip of its wish, or their join.         *)
(***************************************************************************)
Job(q) == IF q.done < Len(q.wish) THEN <<q.wish[q.done + 1]>> ELSE q.wish

IsJoin(w) == Len(w) = 2
IsUrl(w)  == Len(w) = 1 /\ w[1] \in Urls

\* Mutant: ffmpeg writes the clip in place.
WorkInPlace(w) == Wav(w)

\* _transcode_to writes beside the clip, concat writes in place.
Work(w) == IF IsJoin(w) THEN Wav(w) ELSE <<"tmp", w>>

\* resolve and concat up to their first await.  A sound may not be there;
\* one clip needs no join.
Begun(q) ==
    LET s == [q EXCEPT !.stage = IF IsUrl(Job(q)) THEN "fetching" ELSE "locking"]
    IN  IF q.done = 1 /\ Len(q.wish) = 1 THEN {[q EXCEPT !.stage = "ready"]}
        ELSE IF q.done < Len(q.wish) /\ ~IsUrl(Job(q))
             THEN {s, [q EXCEPT !.stage = "failed"]}
             ELSE {s}

\* The duration of the job's file is known.
Got(q) == IF q.done = Len(q.wish) THEN {[q EXCEPT !.stage = "ready"]}
          ELSE Begun([q EXCEPT !.done = @ + 1])

Ask(r) ==
    /\ request[r].stage = "new"
    /\ \E w \in Wishes : \E q \in Begun([request[r] EXCEPT !.wish = w]) :
          request' = [request EXCEPT ![r] = q]
    /\ UNCHANGED <<file, age, lock, edits, observations>>

Becomes(r, stage) == request' = [request EXCEPT ![r].stage = stage]

\* _fetch.
Fetched(r) ==
    /\ request[r].stage = "fetching"
    /\ \E stage \in {"locking", "failed"} : Becomes(r, stage)
    /\ UNCHANGED <<file, age, lock, edits, observations>>

(***************************************************************************)
(* The directory.                                                          *)
(***************************************************************************)
Listed(a) == {p[1] : p \in a}

Without(a, S) == {p \in a : p[1] \notin S /\ p[2] \notin S}

\* Just modified.
Newest(a, f) ==
    LET rest == Without(a, {f})
    IN  rest \cup {<<x, f>> : x \in Listed(rest) \cup {f}}

\* Mutant: a rename counts as a modification.
RenamedNow(a, f, g) == Newest(Without(a, {f}), g)

\* f goes by the name of g and keeps its time.
Renamed(a, f, g) ==
    LET now(x) == IF x = f THEN g ELSE x
    IN  {<<now(p[1]), now(p[2])>> : p \in Without(a, {g})}

Later(a, f, g) == f # g /\ <<g, f>> \in a

NoOlder(a, f)   == {p[2] : p \in {q \in a : q[1] = f}}
NoYounger(a, f) == {p[1] : p \in {q \in a : q[2] = f}}

\* Every place in the order: what was modified before it.
Beginnings(a) == {{}} \cup {NoYounger(a, x) : x \in Listed(a)}

\* Modified after what is in S and before the rest.
Dated(a, f, S) ==
    LET rest == Without(a, {f})
    IN  rest \cup {<<f, f>>} \cup {<<x, f>> : x \in S}
             \cup {<<f, x>> : x \in Listed(rest) \ S}

\* What a file takes; half a file may be empty yet, one of `empty'.
Size(fs, f, empty) ==
    IF f \in empty \/ fs[f].state = "absent" THEN 0
    ELSE MapThenSumSet(LAMBDA i : Bytes[f[2][i]], DOMAIN f[2])

\* Mutant: the sounds of the user are in the way.
EvictedWithSounds(fs, a, empty) ==
    {f \in Listed(a) :
        MapThenSumSet(LAMBDA g : IF g \in Files THEN Size(fs, g, empty) ELSE 1,
                      NoOlder(a, f)) > Budget}

\* _evict: the oldest go until the rest fits, files still being written
\* and files that somebody was just promised included.
Evicted(fs, a, empty) ==
    {f \in Files : MapThenSumSet(LAMBDA g : Size(fs, g, empty),
                                 Files \cap NoOlder(a, f)) > Budget}

\* What may go when the clip of w has its name: nothing, unless w is a URL.
Trimmed(w, fs, a) ==
    IF IsUrl(w)
    THEN {Evicted(fs, a, empty) : empty \in SUBSET {f \in Files : fs[f].state = "half"}}
    ELSE {{}}

Erased(fs, S) == [f \in Files |-> IF f \in S THEN Absent ELSE fs[f]]

(***************************************************************************)
(* Under the lock of the file that is wanted.                              *)
(***************************************************************************)
\* Mutant: an old transcode is never made again.
HitWhenPresent(w) == Present(Wav(w))

\* A URL is named by its content and a join by the paths of its clips: to
\* be there is enough.  _transcode compares modification times.
Hit(w) ==
    /\ Present(Wav(w))
    /\ (~IsJoin(w) /\ ~IsUrl(w)) => ~Later(age, Source(w[1]), Wav(w))

\* Mutant: nobody waits.
Unlocked(w) == TRUE

\* Mutant: concat takes no lock.
JoinsUnlocked(w) == IsJoin(w) \/ lock[w] = Nobody

LockFree(w) == lock[w] = Nobody

\* The lock is there: the file is probed, or ffmpeg is started for it.
Acquire(r) ==
    LET w == Job(request[r])
    IN  /\ request[r].stage = "locking"
        /\ LockFree(w)
        /\ lock' = [lock EXCEPT ![w] = r]
        /\ \/ /\ Hit(w)
              /\ Becomes(r, "probing")
              /\ age' = IF IsUrl(w) THEN Newest(age, Wav(w)) ELSE age
              /\ UNCHANGED <<file, masked, broken>>
           \/ /\ ~Hit(w)
              /\ Becomes(r, "encoding")
              /\ file' = [file EXCEPT ![Work(w)] = [state |-> "half", old |-> {}]]
              /\ age' = Newest(age, Work(w))
              /\ masked' = IF IsJoin(w) THEN masked ELSE masked \ {w[1]}
              /\ broken' = broken \ {w}
        /\ robbed' = robbed \ {r}
        /\ UNCHANGED edits

Released(r) == [lock EXCEPT ![Job(request[r])] = Nobody]

\* What ffmpeg read is what the file plays.
Played(w) ==
    IF IsJoin(w) THEN file[Wav(<<w[1]>>)].old \cup file[Wav(<<w[2]>>)].old ELSE {}

\* ffmpeg writes on.
Writes(r) ==
    LET out == Work(Job(request[r]))
    IN  /\ request[r].stage = "encoding" /\ Present(out)
        /\ age' = Newest(age, out)
        /\ UNCHANGED <<request, file, lock, edits, observations>>

\* ffmpeg has written the last of its output and ends well, which _run learns
\* later; the output may have been evicted under it.  A clip that is gone
\* when its turn comes leaves a join a half.
FfmpegEnds(r) ==
    LET w == Job(request[r])
        whole == IsJoin(w) => \A i \in 1..2 : file[Wav(<<w[i]>>)].state = "whole"
    IN  /\ request[r].stage = "encoding"
        /\ Becomes(r, "written")
        /\ \/ /\ Present(Work(w)) /\ whole
              /\ file' = [file EXCEPT ![Work(w)] =
                             [state |-> "whole", old |-> @.old \cup Played(w)]]
              /\ age' = Newest(age, Work(w))
              /\ UNCHANGED broken
           \/ /\ Present(Work(w)) /\ ~whole
              /\ age' = Newest(age, Work(w))
              /\ broken' = broken \cup {w}
              /\ UNCHANGED file
           \/ /\ ~Present(Work(w))
              /\ UNCHANGED <<file, age, broken>>
        /\ UNCHANGED <<lock, edits, masked, robbed>>

\* The requests under way whose file is among those that go.
Victims(gone) ==
    {r \in Requests : request[r].stage \notin Settled /\ Wav(request[r].wish) \in gone}

\* A clip takes its name, and a new clip of a URL is followed by an eviction
\* before anybody else runs, which may take the clip itself.
ClipEncoded(r) ==
    LET w    == Job(request[r])
        aged == Renamed(age, Work(w), Wav(w))
        made == [file EXCEPT ![Wav(w)] = file[Work(w)], ![Work(w)] = Absent]
    IN  /\ request[r].stage = "written" /\ ~IsJoin(w) /\ Present(Work(w))
        /\ Becomes(r, "measuring")
        /\ \E gone \in Trimmed(w, made, aged) :
              /\ file' = Erased(made, gone)
              /\ age' = Without(aged, gone)
              /\ robbed' = robbed \cup Victims(gone)
        /\ lock' = Released(r)
        /\ UNCHANGED <<edits, masked, broken>>

\* concat goes on after ffmpeg.
Joined(r) ==
    /\ request[r].stage = "written" /\ IsJoin(Job(request[r]))
    /\ Becomes(r, "measuring")
    /\ lock' = Released(r)
    /\ UNCHANGED <<file, age, edits, observations>>

\* Mutant: the lock is kept.
EncodeFailsLocked(r) ==
    /\ request[r].stage = "encoding"
    /\ Becomes(r, "failed")
    /\ broken' = broken \cup {Job(request[r])}
    /\ UNCHANGED <<file, age, lock, edits, masked, robbed>>

\* ffmpeg fails, before it wrote anything or later, and what it wrote
\* stays.
EncodeFails(r) ==
    LET w == Job(request[r])
    IN  /\ request[r].stage = "encoding"
        /\ Becomes(r, "failed")
        /\ \E gone \in {{}, {Work(w)}} :
              file' = Erased(file, gone) /\ age' = Without(age, gone)
        /\ lock' = Released(r)
        /\ broken' = broken \cup {w}
        /\ UNCHANGED <<edits, masked, robbed>>

\* There is nothing left to rename.
RenameFails(r) ==
    LET w == Job(request[r])
    IN  /\ request[r].stage = "written" /\ ~IsJoin(w) /\ ~Present(Work(w))
        /\ Becomes(r, "failed")
        /\ lock' = Released(r)
        /\ UNCHANGED <<file, age, edits, observations>>

\* ffprobe: of nothing it fails, of half a file it may.
Durations(q) ==
    CASE file[Wav(Job(q))].state = "whole"  -> Got(q)
      [] file[Wav(Job(q))].state = "half"   ->
            Got(q) \cup {[q EXCEPT !.stage = "failed"]}
      [] file[Wav(Job(q))].state = "absent" -> {[q EXCEPT !.stage = "failed"]}

\* The duration of a clip that was there, still under its lock.
Probed(r) ==
    /\ request[r].stage = "probing"
    /\ \E q \in Durations(request[r]) : request' = [request EXCEPT ![r] = q]
    /\ lock' = Released(r)
    /\ UNCHANGED <<file, age, edits, observations>>

\* The duration of a clip that was made, after its lock.
Measured(r) ==
    /\ request[r].stage = "measuring"
    /\ \E q \in Durations(request[r]) : request' = [request EXCEPT ![r] = q]
    /\ UNCHANGED <<file, age, lock, edits, observations>>

(***************************************************************************)
(* Around the cache.                                                       *)
(***************************************************************************)
\* The call was answered and its lead-in is over: the SIP thread opens the
\* file (_start_playback).
Opens(r) ==
    /\ request[r].stage = "ready"
    /\ Becomes(r, IF Present(Wav(request[r].wish)) THEN "playing" ELSE "silent")
    /\ UNCHANGED <<file, age, lock, edits, observations>>

PlaysSound(f, k) == \E i \in DOMAIN f[2] : f[2][i] = k

\* A transcode of k, there or in the making, will be younger than k.
Masks(k, a) ==
    \/ Present(Wav(<<k>>)) /\ ~Later(a, Source(k), Wav(<<k>>))
    \/ \E r \in Requests :
          /\ Job(request[r]) = <<k>>
          /\ \/ request[r].stage = "encoding"
             \/ /\ request[r].stage = "written" /\ Present(Work(<<k>>))
                /\ ~Later(a, Source(k), Work(<<k>>))

\* The user replaces a sound, overrides a built-in one or takes the override
\* away: what now goes by the name may be of any age.
Edit(k) ==
    /\ edits < MaxEdits
    /\ edits' = edits + 1
    /\ file' = [f \in Files |-> IF Present(f) /\ PlaysSound(f, k)
                                THEN [file[f] EXCEPT !.old = @ \cup {k}]
                                ELSE file[f]]
    /\ \E S \in Beginnings(Without(age, {Source(k)})) : age' = Dated(age, Source(k), S)
    /\ masked' = IF Masks(k, age') THEN masked \cup {k} ELSE masked \ {k}
    /\ UNCHANGED <<request, lock, broken, robbed>>

\* The process is killed and started again: the files stay as they are.
Restart ==
    /\ Restarts
    /\ \E r \in Requests : request[r].stage \notin Settled
    /\ request' = [r \in Requests |->
                      IF request[r].stage \in Settled THEN request[r]
                      ELSE [request[r] EXCEPT !.stage = "lost"]]
    /\ broken' = broken \cup {Job(request[r]) : r \in
                     {x \in Requests : request[x].stage = "encoding"}}
    /\ lock' = [w \in Wishes |-> Nobody]
    /\ UNCHANGED <<file, age, edits, masked, robbed>>

\* Each of S was modified before or after each other.
Orders(a, S) ==
    /\ a \subseteq S \X S
    /\ \A x, y \in S : <<x, y>> \in a \/ <<y, x>> \in a
    /\ \A x, y \in S : <<x, y>> \in a /\ <<y, x>> \in a => x = y
    /\ \A x, y, z \in S : <<x, y>> \in a /\ <<y, z>> \in a => <<x, z>> \in a

LocalSources == {Source(k) : k \in Sounds}

CacheInit ==
    /\ request = [r \in Requests |->
                     [stage |-> "new", wish |-> CHOOSE w \in Wishes : TRUE, done |-> 0]]
    /\ file = [f \in Files |-> Absent]
    /\ age \in SUBSET (LocalSources \X LocalSources) /\ Orders(age, LocalSources)
    /\ lock = [w \in Wishes |-> Nobody]
    /\ edits = 0 /\ masked = {} /\ broken = {} /\ robbed = {}

CacheNext ==
    \/ \E r \in Requests :
          \/ Ask(r) \/ Fetched(r) \/ Acquire(r)
          \/ Writes(r) \/ FfmpegEnds(r) \/ EncodeFails(r)
          \/ ClipEncoded(r) \/ RenameFails(r) \/ Joined(r)
          \/ Probed(r) \/ Measured(r) \/ Opens(r)
    \/ \E k \in Sounds : Edit(k)
    \/ Restart

CacheSpec == CacheInit /\ [][CacheNext]_cacheVars

(***************************************************************************)
(* A fetch times out, ffmpeg and ffprobe end, and asyncio.Lock hands       *)
(* itself to its waiters in their order.                                   *)
(***************************************************************************)
CacheProgress ==
    \A r \in Requests :
       /\ WF_cacheVars(Fetched(r))
       /\ SF_cacheVars(Acquire(r))
       /\ WF_cacheVars(FfmpegEnds(r) \/ EncodeFails(r))
       /\ WF_cacheVars(ClipEncoded(r) \/ RenameFails(r) \/ Joined(r))
       /\ WF_cacheVars(Probed(r) \/ Measured(r))

FairCacheSpec == CacheSpec /\ CacheProgress

(***************************************************************************)
(* Properties.                                                             *)
(***************************************************************************)
OnDisk == {f \in Files : Present(f)} \cup LocalSources

\* Every variable holds a value of the kind the code gives it, and `age'
\* orders what is on disk and nothing else.
CacheTypeOK ==
    /\ request \in [Requests -> RequestType]
    /\ file \in [Files -> FileType]
    /\ Orders(age, OnDisk)
    /\ lock \in [Wishes -> Requests \cup {Nobody}]
    /\ edits \in 0..MaxEdits
    /\ masked \subseteq Sounds /\ broken \subseteq Wishes /\ robbed \subseteq Requests

\* No two requests have ffmpeg write one file, whatever failed, was evicted
\* or edited before: the lock of a clip covers its transcoding
\* (media.py:160-170, 193-198), that of a join its output (115-124).
OneWriter ==
    \A r, s \in Requests :
       /\ request[r].stage = "encoding" /\ request[s].stage = "encoding"
       /\ Work(Job(request[r])) = Work(Job(request[s]))
       => r = s

\* "atomic, so a concurrent reader never sees a half file" (media.py:204):
\* a clip has its name only once it is whole, also after a failed ffmpeg
\* and after a restart.
ClipsAreWhole ==
    \A k \in Sources : file[Wav(<<k>>)].state # "half"

\* A join is written in place.  Who finds it in the cache finds it whole
\* all the same, and not still being written for another page, unless its
\* ffmpeg failed, lost an input or was killed (media.py:115-124).
JoinsAreWhole ==
    \A r \in Requests :
       LET w == Job(request[r])
       IN  request[r].stage = "probing" /\ file[Wav(w)].state = "half"
              => w \in broken

\* A transcode that is used again plays what the sound is now: "so they can
\* be overridden by name" (media.py:65-68).  The times cannot tell it
\* (media.py:196), and no request can, where what last took the name is
\* older than the transcode or came while ffmpeg read what it replaces.
HitsAreCurrent ==
    [][\A r \in Requests, k \in Sounds :
          /\ request[r].stage = "locking" /\ Job(request[r]) = <<k>>
          /\ request'[r].stage = "probing"
          => k \in masked \/ file[Wav(<<k>>)].old = {}]_cacheVars

\* What is handed to the SIP thread is a whole file when the page begins and
\* still is when its call is answered, whatever other pages have ffmpeg write
\* meanwhile.  Two things break the promise: an eviction, which takes files
\* that somebody was promised (media.py:234-242), and a join of which the
\* ffmpeg failed, lost an input or was killed, which stays a half.
PromisedIsPlayable ==
    \A r \in Requests :
       LET w == request[r].wish
       IN  request[r].stage = "ready" /\ r \notin robbed
              => \/ file[Wav(w)].state = "whole"
                 \/ file[Wav(w)].state = "half" /\ w \in broken

\* Every page's media is resolved or refused, though fetches, ffmpeg and
\* ffprobe fail and the files are evicted under it: no way out of a lock
\* leaves it taken.
EveryPageResolved ==
    \A r \in Requests :
       request[r].stage \in {"fetching", "locking"}
          ~> request[r].stage \in {"ready", "playing", "silent", "failed", "lost"}
=============================================================================
