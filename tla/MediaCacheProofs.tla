------------------------- MODULE MediaCacheProofs -------------------------
(***************************************************************************)
(* Theorems about MediaCache, for any number of pages, sources and edits   *)
(* and any budget.                                                         *)
(*                                                                         *)
(* What the properties rest on is the lock of a name: who probes a file or *)
(* has ffmpeg write it holds the lock of what it plays (Guarded).  A half  *)
(* join is then either its holder's work or was left behind (HalfJoins).   *)
(* What ffmpeg has written of a clip is whole before the rename (Finished).*)
(* The eviction may take anything: it only ever makes files absent.        *)
(* Modification times order what is on disk (Orders); that a transcode of  *)
(* a replaced sound stays older than the sound, under the one name and the *)
(* other (WavFits, DoneFits), is what makes a cached one safe to play.     *)
(***************************************************************************)
EXTENDS MediaCache, TLAPS

WellFormed(q) ==
    /\ q \in RequestType /\ q.done <= Len(q.wish)
    /\ q.stage = "new" => q.done = 0

Busy(q) == q.stage \in {"encoding", "written", "probing"}

Guarded == \A r \in Requests : Busy(request[r]) => lock[Job(request[r])] = r

Encoded(w) == \E r \in Requests : request[r].stage = "encoding" /\ Job(request[r]) = w

HalfJoins ==
    \A w \in Wishes :
       IsJoin(w) /\ file[Wav(w)].state = "half" => w \in broken \/ Encoded(w)

Finished ==
    \A r \in Requests :
       LET w == Job(request[r])
       IN  request[r].stage = "written" /\ ~IsJoin(w) => file[Work(w)].state # "half"

CTyped ==
    /\ request \in [Requests -> RequestType]
    /\ \A r \in Requests : WellFormed(request[r])
    /\ file \in [Files -> FileType]
    /\ lock \in [Wishes -> Requests \cup {Nobody}]

CInv == CTyped /\ Guarded /\ ClipsAreWhole /\ HalfJoins /\ Finished

(***************************************************************************)
(* Wishes, names and jobs.                                                 *)
(***************************************************************************)
\* A wish is one source or a chime and a source.
LEMMA WishShape ==
    ASSUME NEW w \in Wishes
    PROVE  \/ \E k \in Sources : w = <<k>>
           \/ \E c \in Sources, k \in Sources : w = <<c, k>>
<1>1. Chimes \subseteq Sources
  BY CacheAssumption DEF Sources
<1>. QED  BY <1>1 DEF Wishes

\* The parts of a wish may be wished for alone.
LEMMA WishParts ==
    ASSUME NEW w \in Wishes
    PROVE  /\ Len(w) \in 1..2 /\ Len(w) \in Nat
           /\ \A i \in 1..Len(w) : w[i] \in Sources /\ <<w[i]>> \in Wishes
<1>1. \A k \in Sources : <<k>> \in Wishes
  BY DEF Wishes
<1>2. ASSUME NEW k \in Sources, w = <<k>>
      PROVE  Len(w) \in 1..2 /\ \A i \in 1..Len(w) : w[i] \in Sources
  BY <1>2
<1>3. ASSUME NEW c \in Sources, NEW k \in Sources, w = <<c, k>>
      PROVE  Len(w) \in 1..2 /\ \A i \in 1..Len(w) : w[i] \in Sources
  BY <1>3
<1>4. Len(w) \in 1..2 /\ \A i \in 1..Len(w) : w[i] \in Sources
  BY <1>2, <1>3, WishShape
<1>. QED  BY <1>1, <1>4

\* What a request works on is always something it may wish for.
LEMMA JobIsWish ==
    ASSUME NEW q, WellFormed(q)
    PROVE  Job(q) \in Wishes
<1>1. q.wish \in Wishes /\ q.done \in 0..2
  BY DEF WellFormed, RequestType
<1>2. CASE q.done < Len(q.wish)
  <2>1. q.done + 1 \in 1..Len(q.wish)
    BY <1>1, <1>2, WishParts
  <2>2. <<q.wish[q.done + 1]>> \in Wishes
    BY <1>1, <2>1, WishParts
  <2>. QED  BY <1>2, <2>2 DEF Job
<1>3. CASE ~(q.done < Len(q.wish))
  BY <1>1, <1>3 DEF Job
<1>. QED  BY <1>2, <1>3

\* Files are named for what they play.
LEMMA WavNames ==
    ASSUME NEW w \in Wishes
    PROVE  /\ Wav(w) \in Files
           /\ \A v \in Wishes : Wav(w) = Wav(v) => w = v
BY DEF Wav, Files

\* Two jobs never write one file, and what ffmpeg writes of a clip is not
\* the file of anything.
LEMMA WorkNames ==
    ASSUME NEW w \in Wishes
    PROVE  /\ Work(w) \in Files
           /\ IsJoin(w) => Work(w) = Wav(w)
           /\ ~IsJoin(w) => \A v : Work(w) # Wav(v)
           /\ \A v \in Wishes : Work(w) = Work(v) => w = v
<1>1. CASE IsJoin(w)
  BY <1>1 DEF Work, Wav, Files
<1>2. CASE ~IsJoin(w)
  BY <1>2 DEF Work, Wav, Files
<1>. QED  BY <1>1, <1>2

\* A clip is no join.
LEMMA ClipIsNoJoin ==
    \A k \in Sources : <<k>> \in Wishes /\ ~IsJoin(<<k>>)
BY DEF Wishes, IsJoin

\* A request is all of its fields.
LEMMA Fields ==
    ASSUME NEW q \in RequestType
    PROVE  q = [stage |-> q.stage, wish |-> q.wish, done |-> q.done]
BY DEF RequestType

\* A request that changes its stage works on what it worked on.
LEMMA StageKeepsJob ==
    ASSUME NEW q, WellFormed(q),
           NEW stage \in {"fetching", "locking", "encoding", "written", "probing",
                          "measuring", "ready", "playing", "silent", "failed", "lost"}
    PROVE  LET p == [q EXCEPT !.stage = stage]
           IN  /\ WellFormed(p) /\ p.stage = stage
               /\ Job(p) = Job(q)
<1>. DEFINE p == [q EXCEPT !.stage = stage]
<1>1. q \in RequestType
  BY DEF WellFormed
<1>2. p \in RequestType /\ p.stage = stage /\ p.wish = q.wish /\ p.done = q.done
  BY <1>1 DEF RequestType
<1>. QED  BY <1>2 DEF WellFormed, Job

\* resolve and concat begin a job without touching any file.
LEMMA BegunWellFormed ==
    ASSUME NEW q, WellFormed(q), NEW p \in Begun(q)
    PROVE  WellFormed(p) /\ ~Busy(p)
<1>1. \E stage \in {"fetching", "locking", "ready", "failed"} :
         p = [q EXCEPT !.stage = stage]
  <2>1. CASE q.done = 1 /\ Len(q.wish) = 1
    BY <2>1, Zenon DEF Begun
  <2>2. CASE ~(q.done = 1 /\ Len(q.wish) = 1) /\ q.done < Len(q.wish) /\ ~IsUrl(Job(q))
    <3>1. p = [q EXCEPT !.stage = "locking"] \/ p = [q EXCEPT !.stage = "failed"]
      BY <2>2, Zenon DEF Begun
    <3>. QED  BY <3>1
  <2>3. CASE ~(q.done = 1 /\ Len(q.wish) = 1) /\ ~(q.done < Len(q.wish) /\ ~IsUrl(Job(q)))
    <3>1. CASE IsUrl(Job(q))
      <4>1. p = [q EXCEPT !.stage = "fetching"]
        BY <2>3, <3>1, Zenon DEF Begun
      <4>. QED  BY <4>1
    <3>2. CASE ~IsUrl(Job(q))
      <4>1. p = [q EXCEPT !.stage = "locking"]
        BY <2>3, <3>2, Zenon DEF Begun
      <4>. QED  BY <4>1
    <3>. QED  BY <3>1, <3>2
  <2>. QED  BY <2>1, <2>2, <2>3
<1>2. PICK stage \in {"fetching", "locking", "ready", "failed"} :
         p = [q EXCEPT !.stage = stage]
  BY <1>1
<1>3. WellFormed(p) /\ p.stage = stage
  <2>1. stage \in {"fetching", "locking", "encoding", "written", "probing",
                   "measuring", "ready", "playing", "silent", "failed", "lost"}
    OBVIOUS
  <2>2. LET n == [q EXCEPT !.stage = stage] IN WellFormed(n) /\ n.stage = stage
    BY <2>1, StageKeepsJob
  <2>. QED  BY <1>2, <2>2
<1>. QED  BY <1>3 DEF Busy

\* After the last job the page is ready, before it the next one begins.
LEMMA GotWellFormed ==
    ASSUME NEW q, WellFormed(q), q.stage # "new", NEW p \in Got(q)
    PROVE  WellFormed(p) /\ ~Busy(p)
<1>1. CASE q.done = Len(q.wish)
  <2>1. p = [q EXCEPT !.stage = "ready"]
    BY <1>1 DEF Got
  <2>. QED  BY <2>1, StageKeepsJob DEF Busy
<1>2. CASE q.done # Len(q.wish)
  <2>. DEFINE n == [q EXCEPT !.done = @ + 1]
  <2>1. q \in RequestType /\ q.wish \in Wishes /\ q.done \in 0..2 /\ q.done <= Len(q.wish)
    BY DEF WellFormed, RequestType
  <2>2. Len(q.wish) \in 1..2
    BY <2>1, WishParts
  <2>3. q.done + 1 \in 0..2 /\ q.done + 1 <= Len(q.wish)
    <3>. DEFINE done == q.done
                len == Len(q.wish)
    <3>1. done \in 0..2 /\ len \in 1..2 /\ done <= len /\ done # len
      BY <1>2, <2>1, <2>2
    <3>. HIDE DEF done, len
    <3>2. done + 1 \in 0..2 /\ done + 1 <= len
      BY <3>1
    <3>. QED  BY <3>2 DEF done, len
  <2>4. n.done = q.done + 1 /\ n.wish = q.wish /\ n.stage = q.stage /\ n \in RequestType
    BY <2>1, <2>3 DEF RequestType
  <2>5. WellFormed(n)
    BY <2>3, <2>4 DEF WellFormed
  <2>6. p \in Begun(n)
    BY <1>2, Zenon DEF Got
  <2>. QED  BY <2>5, <2>6, BegunWellFormed
<1>. QED  BY <1>1, <1>2

\* Whether ffprobe succeeds or not, the request is not busy afterwards.
LEMMA DurationsWellFormed ==
    ASSUME NEW q, WellFormed(q), q.stage # "new", NEW p \in Durations(q),
           file \in [Files -> FileType]
    PROVE  WellFormed(p) /\ ~Busy(p)
<1>1. Wav(Job(q)) \in Files
  BY JobIsWish, WavNames
<1>2. file[Wav(Job(q))].state \in {"absent", "half", "whole"}
  BY <1>1 DEF FileType
<1>3. p \in Got(q) \/ p = [q EXCEPT !.stage = "failed"]
  <2>1. CASE file[Wav(Job(q))].state = "absent"
    BY <2>1, Zenon DEF Durations
  <2>2. CASE file[Wav(Job(q))].state = "half"
    BY <2>2, Zenon DEF Durations
  <2>3. CASE file[Wav(Job(q))].state = "whole"
    BY <2>3, Zenon DEF Durations
  <2>. QED  BY <1>2, <2>1, <2>2, <2>3
<1>4. CASE p = [q EXCEPT !.stage = "failed"]
  BY <1>4, StageKeepsJob DEF Busy
<1>. QED  BY <1>3, <1>4, GotWellFormed

(***************************************************************************)
(* The steps of one request.                                               *)
(***************************************************************************)
\* A request that neither probes nor has anything written, before or after,
\* disturbs nobody.
LEMMA QuietStep ==
    ASSUME CInv, NEW r \in Requests, NEW q, WellFormed(q), ~Busy(q),
           request[r].stage \notin {"encoding", "written"},
           request' = [request EXCEPT ![r] = q], UNCHANGED <<file, broken>>,
           lock' = lock \/ (request[r].stage = "probing" /\ lock' = Released(r))
    PROVE  CInv'
<1>. USE DEF CInv
<1>1. /\ WellFormed(request[r]) /\ Job(request[r]) \in Wishes
      /\ request \in [Requests -> RequestType]
      /\ lock \in [Wishes -> Requests \cup {Nobody}]
  BY JobIsWish DEF CTyped
<1>2. /\ request'[r] = q
      /\ \A s \in Requests : s # r => request'[s] = request[s]
  BY <1>1
<1>3. lock' \in [Wishes -> Requests \cup {Nobody}]
  BY <1>1 DEF Released
<1>4. CTyped'
  <2>1. request' \in [Requests -> RequestType]
    BY <1>1 DEF WellFormed
  <2>2. \A s \in Requests : WellFormed(request'[s])
    BY <1>2 DEF CTyped
  <2>3. file' \in [Files -> FileType]
    BY DEF CTyped
  <2>. QED  BY <1>3, <2>1, <2>2, <2>3 DEF CTyped, WellFormed
<1>5. Guarded'
  <2>. SUFFICES ASSUME NEW s \in Requests, Busy(request'[s])
                PROVE  lock'[Job(request'[s])] = s
    BY DEF Guarded, Busy, Job
  <2>1. s # r /\ request'[s] = request[s]
    BY <1>2
  <2>2. lock[Job(request[s])] = s /\ Job(request[s]) \in Wishes
    BY <2>1, JobIsWish DEF Guarded, CTyped
  <2>3. CASE lock' = lock
    BY <2>1, <2>2, <2>3
  <2>4. CASE request[r].stage = "probing" /\ lock' = Released(r)
    <3>1. lock[Job(request[r])] = r
      BY <2>4 DEF Guarded, Busy
    <3>2. Job(request[s]) # Job(request[r])
      BY <2>1, <2>2, <3>1
    <3>3. lock'[Job(request[s])] = lock[Job(request[s])]
      BY <1>1, <2>2, <2>4, <3>2 DEF Released
    <3>. QED  BY <2>1, <2>2, <3>3
  <2>. QED  BY <2>3, <2>4
<1>6. ClipsAreWhole'
  BY DEF ClipsAreWhole, Wav
<1>7. HalfJoins'
  <2>1. \A w : Encoded(w) => Encoded(w)'
    BY <1>2 DEF Encoded, Job
  <2>. QED  BY <2>1 DEF HalfJoins, Wav, IsJoin
<1>8. Finished'
  <2>1. \A s \in Requests : request'[s].stage = "written" => request'[s] = request[s]
    BY <1>2 DEF Busy
  <2>. QED  BY <2>1 DEF Finished, Job, Work, Wav, IsJoin
<1>. QED  BY <1>4, <1>5, <1>6, <1>7, <1>8

\* What a change of stage does to one request and to the others.
LEMMA BecomesOf ==
    ASSUME CTyped, NEW r \in Requests,
           NEW stage \in {"fetching", "locking", "encoding", "written", "probing",
                          "measuring", "ready", "playing", "silent", "failed", "lost"},
           Becomes(r, stage)
    PROVE  /\ request' \in [Requests -> RequestType]
           /\ \A s \in Requests :
                 /\ WellFormed(request'[s]) /\ Job(request'[s]) = Job(request[s])
                 /\ Job(request[s]) \in Wishes
           /\ request'[r].stage = stage
           /\ \A s \in Requests : s # r => request'[s] = request[s]
<1>1. request \in [Requests -> RequestType] /\ \A s \in Requests : WellFormed(request[s])
  BY DEF CTyped
<1>. DEFINE p == [request[r] EXCEPT !.stage = stage]
<1>2. WellFormed(p) /\ p.stage = stage /\ Job(p) = Job(request[r])
  BY <1>1, StageKeepsJob
<1>3. request' = [request EXCEPT ![r] = p]
  BY DEF Becomes
<1>. HIDE DEF p
<1>4. p \in RequestType
  BY <1>2 DEF WellFormed
<1>5. request' \in [Requests -> RequestType]
  BY <1>1, <1>3, <1>4
<1>6. request'[r] = p /\ \A s \in Requests : s # r => request'[s] = request[s]
  BY <1>1, <1>3
<1>7. ASSUME NEW s \in Requests
      PROVE  /\ WellFormed(request'[s]) /\ Job(request'[s]) = Job(request[s])
             /\ Job(request[s]) \in Wishes
  <2>1. CASE s = r
    BY <1>1, <1>2, <1>6, <2>1, JobIsWish
  <2>2. CASE s # r
    BY <1>1, <1>6, <2>2, JobIsWish
  <2>. QED  BY <2>1, <2>2
<1>. QED  BY <1>2, <1>5, <1>6, <1>7

\* Who takes the lock of its job keeps the locks of the others.
LEMMA AcquireGuards ==
    ASSUME CInv, NEW r \in Requests, NEW stage \in {"encoding", "probing"},
           lock[Job(request[r])] = Nobody,
           lock' = [lock EXCEPT ![Job(request[r])] = r], Becomes(r, stage)
    PROVE  Guarded' /\ lock' \in [Wishes -> Requests \cup {Nobody}]
<1>. DEFINE w == Job(request[r])
<1>1. CTyped /\ lock \in [Wishes -> Requests \cup {Nobody}]
  BY DEF CInv, CTyped
<1>2. /\ \A s \in Requests : Job(request'[s]) = Job(request[s]) /\ Job(request[s]) \in Wishes
      /\ \A s \in Requests : s # r => request'[s] = request[s]
  BY <1>1, BecomesOf
<1>. SUFFICES ASSUME NEW s \in Requests, Busy(request'[s])
              PROVE  lock'[Job(request'[s])] = s
  BY <1>1, <1>2 DEF Guarded, Busy, Job
<1>3. CASE s = r
  BY <1>1, <1>2, <1>3
<1>4. CASE s # r
  <2>1. lock[Job(request[s])] = s /\ Job(request[s]) \in Wishes
    BY <1>2, <1>4 DEF CInv, Guarded
  <2>2. Job(request[s]) # w
    BY <2>1, CacheAssumption
  <2>. QED  BY <1>1, <1>2, <2>1, <2>2
<1>. QED  BY <1>3, <1>4

\* Who probes a file, has it written or may begin to is alone with it.
LEMMA Alone ==
    ASSUME CInv, NEW r \in Requests, NEW s \in Requests, s # r, Busy(request[s]),
           Busy(request[r]) \/ lock[Job(request[r])] = Nobody
    PROVE  /\ Job(request[s]) # Job(request[r])
           /\ Job(request[s]) \in Wishes /\ Job(request[r]) \in Wishes
<1>1. Job(request[s]) \in Wishes /\ Job(request[r]) \in Wishes
  BY JobIsWish DEF CInv, CTyped
<1>2. lock[Job(request[s])] = s /\ lock[Job(request[r])] \in {r, Nobody}
  BY DEF CInv, Guarded
<1>. QED  BY <1>1, <1>2, CacheAssumption

\* A request that is done gives its own lock back and no other.
LEMMA ReleaseGuards ==
    ASSUME CInv, NEW r \in Requests, request[r].stage \in {"encoding", "written"},
           NEW stage \in {"measuring", "failed"},
           lock' = Released(r), Becomes(r, stage)
    PROVE  Guarded' /\ lock' \in [Wishes -> Requests \cup {Nobody}]
<1>. DEFINE w == Job(request[r])
<1>1. CTyped /\ lock \in [Wishes -> Requests \cup {Nobody}]
  BY DEF CInv, CTyped
<1>2. /\ \A s \in Requests : Job(request'[s]) = Job(request[s]) /\ Job(request[s]) \in Wishes
      /\ \A s \in Requests : s # r => request'[s] = request[s]
      /\ request'[r].stage = stage
  BY <1>1, BecomesOf
<1>3. lock[w] = r
  BY DEF CInv, Guarded, Busy
<1>4. ASSUME NEW s \in Requests, Busy(request'[s])
      PROVE  lock'[Job(request'[s])] = s
  <2>1. s # r
    BY <1>2, <1>4 DEF Busy
  <2>2. lock[Job(request[s])] = s /\ Job(request[s]) \in Wishes
    BY <1>2, <1>4, <2>1 DEF CInv, Guarded
  <2>3. Job(request[s]) # w
    BY <1>3, <2>1, <2>2
  <2>. QED  BY <1>1, <1>2, <2>2, <2>3 DEF Released
<1>. QED  BY <1>1, <1>4 DEF Guarded, Busy, Job, Released

\* The other requests' work is not touched by r's step.
LEMMA EncodedKept ==
    ASSUME CTyped, NEW r \in Requests,
           NEW stage \in {"measuring", "failed", "encoding", "written", "probing"},
           Becomes(r, stage),
           NEW w, Encoded(w), w # Job(request[r]) \/ request[r].stage # "encoding"
    PROVE  Encoded(w)'
<1>1. PICK s \in Requests : request[s].stage = "encoding" /\ Job(request[s]) = w
  BY DEF Encoded
<1>2. s # r
  BY <1>1
<1>3. request'[s] = request[s]
  BY <1>2, BecomesOf
<1>. QED  BY <1>1, <1>3 DEF Encoded, Job

\* An eviction only ever makes files absent.
LEMMA ErasedFiles ==
    ASSUME NEW fs \in [Files -> FileType], NEW S
    PROVE  /\ Erased(fs, S) \in [Files -> FileType]
           /\ \A f \in Files : Erased(fs, S)[f] = fs[f] \/ Erased(fs, S)[f].state = "absent"
BY DEF Erased, Absent, FileType

(***************************************************************************)
(* The steps that write.                                                   *)
(***************************************************************************)
\* The lock is taken, and half a file begun unless there was one.
LEMMA AcquireStep ==
    ASSUME CInv, NEW r \in Requests, Acquire(r)
    PROVE  CInv'
<1>. DEFINE w == Job(request[r])
<1>1. /\ CTyped /\ w \in Wishes /\ lock[w] = Nobody /\ request[r].stage = "locking"
      /\ lock' = [lock EXCEPT ![w] = r]
  BY JobIsWish DEF CInv, CTyped, Acquire, LockFree
<1>2. PICK stage \in {"encoding", "probing"} :
         /\ Becomes(r, stage)
         /\ \/ stage = "probing" /\ file' = file /\ broken' = broken
            \/ /\ stage = "encoding" /\ broken' = broken \ {w}
               /\ file' = [file EXCEPT ![Work(w)] = [state |-> "half", old |-> {}]]
  BY DEF Acquire
<1>3. Guarded' /\ lock' \in [Wishes -> Requests \cup {Nobody}]
  BY <1>1, <1>2, AcquireGuards
<1>4. /\ request' \in [Requests -> RequestType]
      /\ \A s \in Requests : WellFormed(request'[s]) /\ Job(request'[s]) = Job(request[s])
      /\ request'[r].stage = stage
      /\ \A s \in Requests : s # r => request'[s] = request[s]
  BY <1>1, <1>2, BecomesOf
<1>5. Work(w) \in Files /\ file \in [Files -> FileType]
  BY <1>1, WorkNames DEF CTyped
<1>6. file' \in [Files -> FileType]
  BY <1>2, <1>5 DEF FileType
<1>7. CTyped'
  BY <1>3, <1>4, <1>6 DEF CTyped, WellFormed
<1>8. \A v \in Wishes : v # w \/ ~IsJoin(v) => file'[Wav(v)] = file[Wav(v)]
  <2>. SUFFICES ASSUME NEW v \in Wishes, v # w \/ ~IsJoin(v)
                PROVE  file'[Wav(v)] = file[Wav(v)]
    OBVIOUS
  <2>1. Work(w) # Wav(v) /\ Wav(v) \in Files
    BY <1>1, WorkNames, WavNames
  <2>. QED  BY <1>2, <1>5, <2>1
<1>9. ClipsAreWhole'
  BY <1>8, ClipIsNoJoin DEF CInv, ClipsAreWhole, Wav
<1>10. HalfJoins'
  <2>. SUFFICES ASSUME NEW v \in Wishes, IsJoin(v), file'[Wav(v)].state = "half"
                PROVE  v \in broken' \/ Encoded(v)'
    BY DEF HalfJoins, IsJoin, Wav
  <2>1. CASE v = w /\ stage = "encoding"
    BY <1>4, <2>1 DEF Encoded, Job
  <2>2. CASE ~(v = w /\ stage = "encoding")
    <3>1. file[Wav(v)].state = "half"
      BY <1>2, <1>8, <2>2
    <3>2. v \in broken \/ Encoded(v)
      BY <3>1 DEF CInv, HalfJoins
    <3>. QED  BY <1>1, <1>2, <2>2, <3>2, EncodedKept
  <2>. QED  BY <2>1, <2>2
<1>11. Finished'
  <2>. SUFFICES ASSUME NEW s \in Requests, request'[s].stage = "written", ~IsJoin(Job(request[s]))
                PROVE  file'[Work(Job(request[s]))].state # "half"
    BY <1>4 DEF Finished, Work, Wav, IsJoin, Job
  <2>1. s # r /\ request[s].stage = "written"
    BY <1>4
  <2>2. Job(request[s]) # w /\ Job(request[s]) \in Wishes
    BY <1>1, <2>1, Alone DEF Busy
  <2>3. Work(Job(request[s])) # Work(w) /\ Work(Job(request[s])) \in Files
    BY <1>1, <2>2, WorkNames
  <2>4. file[Work(Job(request[s]))].state # "half"
    BY <2>1 DEF CInv, Finished
  <2>. QED  BY <1>2, <1>5, <2>3, <2>4
<1>. QED  BY <1>3, <1>7, <1>9, <1>10, <1>11 DEF CInv

\* ffmpeg ends: its output is whole, or a join known to be broken, or gone.
LEMMA FfmpegEndsStep ==
    ASSUME CInv, NEW r \in Requests, FfmpegEnds(r)
    PROVE  CInv'
<1>. DEFINE w == Job(request[r])
            old == file[Work(w)].old \cup Played(w)
<1>1. /\ CTyped /\ w \in Wishes /\ request[r].stage = "encoding"
      /\ Becomes(r, "written") /\ lock' = lock
  BY JobIsWish DEF CInv, CTyped, FfmpegEnds
<1>2. \/ file' = [file EXCEPT ![Work(w)] = [state |-> "whole", old |-> old]] /\ broken' = broken
      \/ IsJoin(w) /\ file' = file /\ broken' = broken \cup {w}
      \/ file' = file /\ broken' = broken /\ file[Work(w)].state = "absent"
  <2>. DEFINE whole == IsJoin(w) => \A i \in 1..2 : file[Wav(<<w[i]>>)].state = "whole"
  <2>1. \/ Present(Work(w)) /\ whole /\ broken' = broken
           /\ file' = [file EXCEPT ![Work(w)] = [state |-> "whole", old |-> @.old \cup Played(w)]]
        \/ ~whole /\ file' = file /\ broken' = broken \cup {w}
        \/ ~Present(Work(w)) /\ file' = file /\ broken' = broken
    BY Zenon DEF FfmpegEnds
  <2>2. ~whole => IsJoin(w)
    OBVIOUS
  <2>. HIDE DEF whole
  <2>. QED  BY <2>1, <2>2 DEF Present
<1>3. /\ request' \in [Requests -> RequestType]
      /\ \A s \in Requests : WellFormed(request'[s]) /\ Job(request'[s]) = Job(request[s])
      /\ request'[r].stage = "written"
      /\ \A s \in Requests : s # r => request'[s] = request[s]
  BY <1>1, BecomesOf
<1>4. /\ file \in [Files -> FileType] /\ Work(w) \in Files
      /\ IsJoin(w) => Work(w) = Wav(w)
      /\ ~IsJoin(w) => \A v : Work(w) # Wav(v)
  BY <1>1, WorkNames DEF CTyped
<1>5. old \in SUBSET Sounds
  <2>1. file[Work(w)].old \in SUBSET Sounds
    BY <1>4 DEF FileType
  <2>2. Played(w) \in SUBSET Sounds
    <3>1. CASE IsJoin(w)
      <4>1. 1 \in 1..Len(w) /\ 2 \in 1..Len(w)
        BY <3>1 DEF IsJoin
      <4>2. <<w[1]>> \in Wishes /\ <<w[2]>> \in Wishes
        BY <1>1, <4>1, WishParts
      <4>3. Wav(<<w[1]>>) \in Files /\ Wav(<<w[2]>>) \in Files
        BY <4>2, WavNames
      <4>. QED  BY <1>4, <3>1, <4>3 DEF Played, FileType
    <3>2. CASE ~IsJoin(w)
      BY <3>2 DEF Played
    <3>. QED  BY <3>1, <3>2
  <2>. QED  BY <2>1, <2>2
<1>. HIDE DEF old
<1>6. /\ file' \in [Files -> FileType]
      /\ \A f \in Files : file'[f].state = "half" => file[f].state = "half"
      /\ \A f \in Files : f # Work(w) => file'[f] = file[f]
      /\ file'[Work(w)].state = "half" => IsJoin(w) /\ w \in broken'
  <2>1. CASE file' = [file EXCEPT ![Work(w)] = [state |-> "whole", old |-> old]]
    <3>1. [state |-> "whole", old |-> old] \in FileType
      BY <1>5 DEF FileType
    <3>2. file'[Work(w)] = [state |-> "whole", old |-> old]
      BY <1>4, <2>1
    <3>. QED  BY <1>4, <2>1, <3>1, <3>2
  <2>2. CASE file' = file
    <3>1. \/ IsJoin(w) /\ w \in broken'
          \/ file[Work(w)].state = "absent"
          \/ file[Work(w)].state = "whole"
      <4>1. CASE file' = [file EXCEPT ![Work(w)] = [state |-> "whole", old |-> old]]
        <5>1. file'[Work(w)] = [state |-> "whole", old |-> old]
          BY <1>4, <4>1
        <5>. QED  BY <2>2, <5>1
      <4>. QED  BY <1>2, <4>1
    <3>. QED  BY <1>4, <2>2, <3>1
  <2>. QED  BY <1>2, <2>1, <2>2
<1>7. broken \subseteq broken'
  BY <1>2
<1>8. CTyped'
  BY <1>1, <1>3, <1>6 DEF CTyped, WellFormed
<1>9. Guarded'
  <2>1. lock[w] = r
    BY <1>1 DEF CInv, Guarded, Busy
  <2>. SUFFICES ASSUME NEW s \in Requests, Busy(request'[s]) PROVE lock'[Job(request'[s])] = s
    BY DEF Guarded, Busy, Job
  <2>2. CASE s = r
    BY <1>1, <1>3, <2>1, <2>2
  <2>3. CASE s # r
    BY <1>1, <1>3, <2>3 DEF CInv, Guarded
  <2>. QED  BY <2>2, <2>3
<1>10. ClipsAreWhole'
  BY <1>6, ClipIsNoJoin, WavNames DEF CInv, ClipsAreWhole, Wav
<1>11. HalfJoins'
  <2>. SUFFICES ASSUME NEW v \in Wishes, IsJoin(v), file'[Wav(v)].state = "half"
                PROVE  v \in broken' \/ Encoded(v)'
    BY DEF HalfJoins, IsJoin, Wav
  <2>1. CASE v = w
    BY <1>4, <1>6, <2>1
  <2>2. CASE v # w
    <3>1. v \in broken \/ Encoded(v)
      BY <1>6, WavNames DEF CInv, HalfJoins
    <3>. QED  BY <1>1, <1>7, <2>2, <3>1, EncodedKept
  <2>. QED  BY <2>1, <2>2
<1>12. Finished'
  <2>. SUFFICES ASSUME NEW s \in Requests, request'[s].stage = "written", ~IsJoin(Job(request[s]))
                PROVE  file'[Work(Job(request[s]))].state # "half"
    BY <1>3 DEF Finished, Work, Wav, IsJoin, Job
  <2>1. CASE s = r
    BY <1>6, <2>1
  <2>2. CASE s # r
    <3>1. request[s].stage = "written" /\ Job(request[s]) \in Wishes
      BY <1>1, <1>3, <2>2, JobIsWish DEF CTyped
    <3>. QED  BY <1>6, <3>1, WorkNames DEF CInv, Finished
  <2>. QED  BY <2>1, <2>2
<1>. QED  BY <1>8, <1>9, <1>10, <1>11, <1>12 DEF CInv

\* Who is done with writing, well or not, gives its lock back and leaves no
\* half file that there was not, nor a half join that nobody knows of.
LEMMA DoneStep ==
    ASSUME CInv, NEW r \in Requests, request[r].stage \in {"encoding", "written"},
           NEW stage \in {"measuring", "failed"}, Becomes(r, stage), lock' = Released(r),
           file' \in [Files -> FileType],
           \A f \in Files : file'[f].state = "half" => file[f].state = "half",
           broken \subseteq broken',
           request[r].stage = "encoding" => Job(request[r]) \in broken'
    PROVE  CInv'
<1>. DEFINE w == Job(request[r])
<1>1. CTyped
  BY DEF CInv
<1>2. Guarded' /\ lock' \in [Wishes -> Requests \cup {Nobody}]
  BY ReleaseGuards
<1>3. /\ request' \in [Requests -> RequestType]
      /\ \A s \in Requests : WellFormed(request'[s]) /\ Job(request'[s]) = Job(request[s])
      /\ request'[r].stage = stage
      /\ \A s \in Requests : s # r => request'[s] = request[s]
  BY <1>1, BecomesOf
<1>4. CTyped'
  BY <1>2, <1>3 DEF CTyped, WellFormed
<1>5. ClipsAreWhole'
  BY ClipIsNoJoin, WavNames DEF CInv, ClipsAreWhole, Wav
<1>6. HalfJoins'
  <2>. SUFFICES ASSUME NEW v \in Wishes, IsJoin(v), file'[Wav(v)].state = "half"
                PROVE  v \in broken' \/ Encoded(v)'
    BY DEF HalfJoins, IsJoin, Wav
  <2>1. v \in broken \/ Encoded(v)
    BY WavNames DEF CInv, HalfJoins
  <2>. QED  BY <1>1, <2>1, EncodedKept
<1>7. Finished'
  <2>. SUFFICES ASSUME NEW s \in Requests, request'[s].stage = "written", ~IsJoin(Job(request[s]))
                PROVE  file'[Work(Job(request[s]))].state # "half"
    BY <1>3 DEF Finished, Work, Wav, IsJoin, Job
  <2>1. s # r
    BY <1>3
  <2>2. request[s].stage = "written" /\ Job(request[s]) \in Wishes
    BY <1>1, <1>3, <2>1, JobIsWish DEF CTyped
  <2>. QED  BY <2>2, WorkNames DEF CInv, Finished
<1>. QED  BY <1>2, <1>4, <1>5, <1>6, <1>7 DEF CInv

\* The clip of w has taken its name and `gone' was evicted.
Moved(w, gone) ==
    \A f \in Files :
       file'[f] = IF f \in gone \/ f = Work(w) THEN Absent
                  ELSE IF f = Wav(w) THEN file[Work(w)] ELSE file[f]

\* What becomes of the files when a clip takes its name.
LEMMA ClipFiles ==
    ASSUME CInv, NEW r \in Requests, ClipEncoded(r), NEW w, w = Job(request[r]), NEW gone,
           file' = Erased([file EXCEPT ![Wav(w)] = file[Work(w)], ![Work(w)] = Absent], gone)
    PROVE  /\ file' \in [Files -> FileType]
           /\ w \in Wishes /\ Wav(w) \in Files /\ Work(w) \in Files /\ Wav(w) # Work(w)
           /\ file[Work(w)].state = "whole" /\ Moved(w, gone)
<1>. DEFINE made == [file EXCEPT ![Wav(w)] = file[Work(w)], ![Work(w)] = Absent]
<1>1. /\ CTyped /\ w \in Wishes /\ request[r].stage = "written" /\ ~IsJoin(w)
      /\ Present(Work(w)) /\ file \in [Files -> FileType]
  BY JobIsWish DEF CInv, CTyped, ClipEncoded
<1>2. Wav(w) \in Files /\ Work(w) \in Files /\ Wav(w) # Work(w)
  BY <1>1, WavNames, WorkNames
<1>3. file[Work(w)].state \in {"absent", "half", "whole"}
  BY <1>1, <1>2 DEF FileType
<1>4. file[Work(w)].state = "whole"
  BY <1>1, <1>3 DEF CInv, Finished, Present
<1>5. Absent \in FileType
  BY DEF Absent, FileType
<1>6. /\ made \in [Files -> FileType]
      /\ \A f \in Files : made[f] = IF f = Work(w) THEN Absent
                                    ELSE IF f = Wav(w) THEN file[Work(w)] ELSE file[f]
  BY <1>1, <1>2, <1>5
<1>7. file' = Erased(made, gone)
  OBVIOUS
<1>. HIDE DEF made
<1>8. file' \in [Files -> FileType]
  BY <1>6, <1>7, ErasedFiles
<1>9. \A f \in Files : file'[f] = IF f \in gone THEN Absent ELSE made[f]
  BY <1>7 DEF Erased
<1>. QED  BY <1>1, <1>2, <1>4, <1>6, <1>8, <1>9 DEF Moved

\* A clip takes its name whole; what an eviction removes is no half file.
LEMMA ClipEncodedStep ==
    ASSUME CInv, NEW r \in Requests, ClipEncoded(r)
    PROVE  CInv'
<1>. DEFINE w == Job(request[r])
            made == [file EXCEPT ![Wav(w)] = file[Work(w)], ![Work(w)] = Absent]
<1>1. /\ request[r].stage = "written" /\ Becomes(r, "measuring")
      /\ lock' = Released(r) /\ broken' = broken
  BY DEF ClipEncoded
<1>2. PICK gone : file' = Erased(made, gone)
  BY DEF ClipEncoded
<1>. HIDE DEF w
<1>3. file' \in [Files -> FileType] /\ file[Work(w)].state = "whole" /\ Moved(w, gone)
  BY <1>2, ClipFiles DEF w
<1>4. \A f \in Files : file'[f].state = "half" => file[f].state = "half"
  BY <1>3 DEF Absent, Moved
<1>. QED  BY <1>1, <1>3, <1>4, DoneStep

\* What a failed ffmpeg leaves of a join is known to be broken; of a clip it
\* has another name.
LEMMA EncodeFailsStep ==
    ASSUME CInv, NEW r \in Requests, EncodeFails(r)
    PROVE  CInv'
<1>1. /\ request[r].stage = "encoding" /\ Becomes(r, "failed") /\ lock' = Released(r)
      /\ broken' = broken \cup {Job(request[r])} /\ file \in [Files -> FileType]
  BY DEF EncodeFails, CInv, CTyped
<1>2. PICK gone : file' = Erased(file, gone)
  BY DEF EncodeFails
<1>3. /\ file' \in [Files -> FileType]
      /\ \A f \in Files : file'[f] = file[f] \/ file'[f].state = "absent"
  BY <1>1, <1>2, ErasedFiles
<1>4. \A f \in Files : file'[f].state = "half" => file[f].state = "half"
  BY <1>3
<1>. QED  BY <1>1, <1>3, <1>4, DoneStep

\* concat goes on, or there is nothing to rename.
LEMMA NothingMovedStep ==
    ASSUME CInv, NEW r \in Requests, Joined(r) \/ RenameFails(r)
    PROVE  CInv'
<1>1. PICK stage \in {"measuring", "failed"} : Becomes(r, stage)
  BY DEF Joined, RenameFails
<1>2. request[r].stage = "written" /\ lock' = Released(r) /\ UNCHANGED <<file, broken>>
  BY DEF Joined, RenameFails, observations
<1>3. file' \in [Files -> FileType]
  BY <1>2 DEF CInv, CTyped
<1>. QED  BY <1>1, <1>2, <1>3, DoneStep

\* An edit makes no file a half one.
LEMMA EditFiles ==
    ASSUME CTyped, NEW k \in Sounds, Edit(k)
    PROVE  /\ file' \in [Files -> FileType]
           /\ \A f \in Files : /\ file'[f].state = file[f].state
                               /\ ~PlaysSound(f, k) => file'[f] = file[f]
<1>1. file \in [Files -> FileType]
  BY DEF CTyped
<1>2. file' = [f \in Files |-> IF Present(f) /\ PlaysSound(f, k)
                               THEN [file[f] EXCEPT !.old = @ \cup {k}]
                               ELSE file[f]]
  BY DEF Edit
<1>3. ASSUME NEW f \in Files
      PROVE  /\ file'[f] \in FileType /\ file'[f].state = file[f].state
             /\ ~PlaysSound(f, k) => file'[f] = file[f]
  <2>1. file[f] \in FileType
    BY <1>1
  <2>2. [file[f] EXCEPT !.old = @ \cup {k}] \in FileType
    BY <2>1 DEF FileType
  <2>3. [file[f] EXCEPT !.old = @ \cup {k}].state = file[f].state
    BY <2>1 DEF FileType
  <2>. QED  BY <1>2, <2>1, <2>2, <2>3
<1>. QED  BY <1>2, <1>3

LEMMA EditStep ==
    ASSUME CInv, NEW k \in Sounds, Edit(k)
    PROVE  CInv'
<1>1. UNCHANGED <<request, lock, broken>> /\ CTyped
  BY DEF Edit, CInv
<1>2. file' \in [Files -> FileType] /\ \A f \in Files : file'[f].state = file[f].state
  BY <1>1, EditFiles
<1>3. CTyped'
  BY <1>1, <1>2 DEF CTyped, WellFormed
<1>4. Guarded'
  BY <1>1 DEF CInv, Guarded, Busy, Job
<1>5. ClipsAreWhole'
  BY <1>2, ClipIsNoJoin, WavNames DEF CInv, ClipsAreWhole, Wav
<1>6. HalfJoins'
  <2>1. \A w : Encoded(w) => Encoded(w)'
    BY <1>1 DEF Encoded, Job
  <2>. QED  BY <1>1, <1>2, <2>1, WavNames DEF CInv, HalfJoins, Wav, IsJoin
<1>7. Finished'
  <2>1. \A r \in Requests : Work(Job(request[r])) \in Files
    BY <1>1, JobIsWish, WorkNames DEF CTyped
  <2>. QED  BY <1>1, <1>2, <2>1 DEF CInv, Finished, Work, Wav, IsJoin, Job
<1>. QED  BY <1>3, <1>4, <1>5, <1>6, <1>7 DEF CInv

\* The half files of a killed process are known to be broken.
LEMMA RestartStep ==
    ASSUME CInv, Restart
    PROVE  CInv'
<1>1. file' = file /\ CTyped /\ lock' = [w \in Wishes |-> Nobody]
  BY DEF Restart, CInv
<1>2. ASSUME NEW r \in Requests
      PROVE  WellFormed(request'[r]) /\ ~Busy(request'[r])
  <2>1. WellFormed(request[r])
    BY <1>1 DEF CTyped
  <2>2. CASE request[r].stage \in Settled
    <3>1. request'[r] = request[r]
      BY <2>2 DEF Restart
    <3>. QED  BY <2>1, <2>2, <3>1 DEF Busy, Settled
  <2>3. CASE request[r].stage \notin Settled
    <3>1. request'[r] = [request[r] EXCEPT !.stage = "lost"]
      BY <2>3 DEF Restart
    <3>. QED  BY <2>1, <3>1, StageKeepsJob DEF Busy
  <2>. QED  BY <2>2, <2>3
<1>3. request' \in [Requests -> RequestType]
  <2>1. request' = [r \in Requests |-> IF request[r].stage \in Settled THEN request[r]
                                       ELSE [request[r] EXCEPT !.stage = "lost"]]
    BY DEF Restart
  <2>2. \A r \in Requests : request'[r] \in RequestType
    BY <1>2 DEF WellFormed
  <2>. QED  BY <2>1, <2>2
<1>4. CTyped'
  BY <1>1, <1>2, <1>3 DEF CTyped, WellFormed
<1>5. Guarded'
  BY <1>2 DEF Guarded, Busy, Job
<1>6. ClipsAreWhole'
  BY <1>1 DEF CInv, ClipsAreWhole, Wav
<1>7. HalfJoins'
  <2>1. \A w : w \in broken \/ Encoded(w) => w \in broken'
    BY DEF Restart, Encoded
  <2>. QED  BY <1>1, <2>1 DEF CInv, HalfJoins, Wav, IsJoin
<1>8. Finished'
  BY <1>2 DEF Finished, Busy
<1>. QED  BY <1>4, <1>5, <1>6, <1>7, <1>8 DEF CInv

(***************************************************************************)
(* The steps that leave the files and the locks of others alone.           *)
(***************************************************************************)
\* A request that changes to a stage of no work.
LEMMA BecomesQuietly ==
    ASSUME CInv, NEW r \in Requests, request[r].stage \notin {"encoding", "written"},
           NEW stage \in {"fetching", "locking", "failed", "playing", "silent"},
           Becomes(r, stage), UNCHANGED <<file, lock, broken>>
    PROVE  CInv'
<1>. DEFINE q == [request[r] EXCEPT !.stage = stage]
<1>1. WellFormed(request[r])
  BY DEF CInv, CTyped
<1>2. WellFormed(q) /\ q.stage = stage
  <2>1. stage \in {"fetching", "locking", "encoding", "written", "probing",
                   "measuring", "ready", "playing", "silent", "failed", "lost"}
    OBVIOUS
  <2>. QED  BY <1>1, <2>1, StageKeepsJob
<1>3. request' = [request EXCEPT ![r] = q]
  BY DEF Becomes
<1>4. ~Busy(q)
  BY <1>2 DEF Busy
<1>. HIDE DEF q
<1>. QED  BY <1>2, <1>3, <1>4, QuietStep

\* Every step of the cache keeps the invariant.
LEMMA CacheStep ==
    ASSUME CInv, [CacheNext]_cacheVars
    PROVE  CInv'
<1>0. \A r \in Requests : WellFormed(request[r])
  BY DEF CInv, CTyped
<1>1. ASSUME NEW r \in Requests, Ask(r) PROVE CInv'
  <2>1. PICK w \in Wishes : \E q \in Begun([request[r] EXCEPT !.wish = w]) :
           request' = [request EXCEPT ![r] = q]
    BY <1>1 DEF Ask, observations
  <2>. DEFINE n == [request[r] EXCEPT !.wish = w]
  <2>2. n \in RequestType /\ n.wish = w /\ n.done = request[r].done
    BY <1>0 DEF WellFormed, RequestType
  <2>3. n.done = 0 /\ 0 <= Len(w)
    BY <1>0, <1>1, <2>2, WishParts DEF Ask, WellFormed
  <2>4. WellFormed(n)
    BY <2>2, <2>3 DEF WellFormed
  <2>5. PICK q \in Begun(n) : request' = [request EXCEPT ![r] = q]
    BY <2>1
  <2>. HIDE DEF n
  <2>6. WellFormed(q) /\ ~Busy(q)
    BY <2>4, <2>5, BegunWellFormed
  <2>. QED  BY <1>1, <2>5, <2>6, QuietStep DEF Ask, observations
<1>2. ASSUME NEW r \in Requests, Fetched(r) PROVE CInv'
  BY <1>2, BecomesQuietly DEF Fetched, observations
<1>3. ASSUME NEW r \in Requests, Probed(r) PROVE CInv'
  <2>1. PICK q \in Durations(request[r]) : request' = [request EXCEPT ![r] = q]
    BY <1>3 DEF Probed, observations
  <2>2. WellFormed(q) /\ ~Busy(q)
    BY <1>3, <1>0, <2>1, DurationsWellFormed DEF CInv, CTyped, Probed
  <2>. QED  BY <1>3, <2>1, <2>2, QuietStep DEF Probed, observations
<1>4. ASSUME NEW r \in Requests, Measured(r) PROVE CInv'
  <2>1. PICK q \in Durations(request[r]) : request' = [request EXCEPT ![r] = q]
    BY <1>4 DEF Measured, observations
  <2>2. WellFormed(q) /\ ~Busy(q)
    BY <1>4, <1>0, <2>1, DurationsWellFormed DEF CInv, CTyped, Measured
  <2>. QED  BY <1>4, <2>1, <2>2, QuietStep DEF Measured, observations
<1>5. ASSUME NEW r \in Requests, Opens(r) PROVE CInv'
  <2>1. PICK stage \in {"playing", "silent"} : Becomes(r, stage)
    BY <1>5 DEF Opens, observations
  <2>. QED  BY <1>5, <2>1, BecomesQuietly DEF Opens, observations
<1>6. CASE UNCHANGED <<request, file, lock, broken>>
  <2>1. /\ UNCHANGED <<request, file, lock, broken>>
    BY <1>6
  <2>. QED  BY <2>1 DEF CInv, CTyped, WellFormed, Guarded, Busy, Job, ClipsAreWhole,
                        HalfJoins, Encoded, Finished, Wav, Work, IsJoin
<1>7. ASSUME NEW r \in Requests, Writes(r) PROVE CInv'
  BY <1>6, <1>7 DEF Writes, observations
<1>8. CASE UNCHANGED cacheVars
  BY <1>6, <1>8 DEF cacheVars, observations
<1>. QED  BY <1>1, <1>2, <1>3, <1>4, <1>5, <1>7, <1>8, AcquireStep, FfmpegEndsStep,
             ClipEncodedStep, NothingMovedStep, EncodeFailsStep, EditStep, RestartStep
          DEF CacheNext

\* At the start nothing is cached and nobody holds a lock.
LEMMA CacheStart ==
    ASSUME CacheInit
    PROVE  CInv
<1>. DEFINE w == CHOOSE v \in Wishes : TRUE
            q == [stage |-> "new", wish |-> w, done |-> 0]
<1>1. w \in Wishes
  <2>1. PICK k \in Sources : TRUE
    BY CacheAssumption DEF Sources
  <2>2. <<k>> \in Wishes
    BY <2>1, ClipIsNoJoin
  <2>. QED  BY <2>2
<1>. HIDE DEF w
<1>2. 0 \in 0..2 /\ 0 <= Len(w)
  BY <1>1, WishParts
<1>3. q \in RequestType /\ q.done = 0 /\ q.wish = w /\ q.stage = "new"
  BY <1>1, <1>2 DEF RequestType
<1>4. WellFormed(q) /\ ~Busy(q)
  BY <1>2, <1>3 DEF WellFormed, Busy
<1>5. request = [r \in Requests |-> q]
  BY DEF CacheInit, w
<1>. HIDE DEF q
<1>6. \A r \in Requests : WellFormed(request[r]) /\ ~Busy(request[r])
  BY <1>4, <1>5
<1>7. request \in [Requests -> RequestType]
  BY <1>3, <1>5
<1>8. file = [f \in Files |-> Absent] /\ Absent \in FileType /\ Absent.state # "half"
  BY DEF CacheInit, Absent, FileType
<1>9. \A w1 \in Wishes : file[Wav(w1)].state # "half"
  BY <1>8, WavNames
<1>10. CTyped
  BY <1>6, <1>7, <1>8 DEF CTyped, CacheInit
<1>. QED  BY <1>6, <1>9, <1>10, ClipIsNoJoin
          DEF CInv, Guarded, ClipsAreWhole, HalfJoins, Finished, Busy

(***************************************************************************)
(* The theorems.                                                           *)
(***************************************************************************)
\* The locks, and what they protect, hold in every reachable state.
THEOREM CacheInvariance == CacheSpec => []CInv
<1>1. CacheInit => CInv
  BY CacheStart
<1>2. CInv /\ [CacheNext]_cacheVars => CInv'
  BY CacheStep
<1>. QED  BY <1>1, <1>2, PTL DEF CacheSpec

\* However many pages ask for whatever clips, no two have ffmpeg write the
\* same file (media.py:115-124, 160-170, 193-198).
THEOREM NeverTwoWriters == CacheSpec => []OneWriter
<1>1. ASSUME CInv PROVE OneWriter
  <2>. SUFFICES ASSUME NEW r \in Requests, NEW s \in Requests,
                       request[r].stage = "encoding", request[s].stage = "encoding",
                       Work(Job(request[r])) = Work(Job(request[s]))
                PROVE  r = s
    BY DEF OneWriter
  <2>1. Job(request[r]) \in Wishes /\ Job(request[s]) \in Wishes
    BY <1>1, JobIsWish DEF CInv, CTyped
  <2>2. Job(request[r]) = Job(request[s])
    BY <2>1, WorkNames
  <2>3. lock[Job(request[r])] = r /\ lock[Job(request[s])] = s
    BY <1>1 DEF CInv, Guarded, Busy
  <2>. QED  BY <2>2, <2>3
<1>. QED  BY <1>1, CacheInvariance, PTL

\* Nobody ever sees half a clip (media.py:204).
THEOREM ClipsNeverHalf == CacheSpec => []ClipsAreWhole
<1>1. CInv => ClipsAreWhole
  BY DEF CInv
<1>. QED  BY <1>1, CacheInvariance, PTL

\* Half a join found in the cache was left by a failure, never by a page that
\* is still writing it (media.py:115-124).
THEOREM JoinsNeverShared == CacheSpec => []JoinsAreWhole
<1>1. ASSUME CInv PROVE JoinsAreWhole
  <2>. SUFFICES ASSUME NEW r \in Requests, request[r].stage = "probing",
                       file[Wav(Job(request[r]))].state = "half"
                PROVE  Job(request[r]) \in broken
    BY DEF JoinsAreWhole
  <2>. DEFINE w == Job(request[r])
  <2>1. w \in Wishes /\ lock[w] = r
    BY <1>1, JobIsWish DEF CInv, CTyped, Guarded, Busy
  <2>2. IsJoin(w)
    <3>1. SUFFICES ASSUME ~IsJoin(w) PROVE FALSE
      OBVIOUS
    <3>2. PICK k \in Sources : w = <<k>>
      BY <2>1, <3>1, WishShape DEF IsJoin
    <3>. QED  BY <1>1, <3>2 DEF CInv, ClipsAreWhole
  <2>3. ~Encoded(w)
    <3>1. SUFFICES ASSUME NEW s \in Requests, request[s].stage = "encoding",
                          Job(request[s]) = w
                   PROVE  FALSE
      BY DEF Encoded
    <3>2. lock[w] = s
      BY <1>1, <3>1 DEF CInv, Guarded, Busy
    <3>. QED  BY <2>1, <3>1, <3>2
  <2>. QED  BY <1>1, <2>1, <2>2, <2>3 DEF CInv, HalfJoins
<1>. QED  BY <1>1, CacheInvariance, PTL


(***************************************************************************)
(* The order of modification times.                                        *)
(***************************************************************************)
\* The files, the local sources and their names.
LEMMA SourceNames ==
    /\ \A k \in Sounds : Source(k) \in LocalSources /\ Source(k) \notin Files
    /\ \A j, k \in Sounds : Source(j) = Source(k) => j = k
    /\ Files \cap LocalSources = {}
BY DEF Source, LocalSources, Files

\* Leaving things out of an order.
LEMMA WithoutOrders ==
    ASSUME NEW S, NEW T, NEW a, Orders(a, S)
    PROVE  /\ Orders(Without(a, T), S \ T)
           /\ \A x \in S \ T, y \in S \ T : <<x, y>> \in a => <<x, y>> \in Without(a, T)
<1>1. a \subseteq S \X S
  BY DEF Orders
<1>2. \A x, y : <<x, y>> \in Without(a, T) <=> <<x, y>> \in a /\ x \notin T /\ y \notin T
  BY DEF Without
<1>3. Without(a, T) \subseteq (S \ T) \X (S \ T)
  BY <1>1 DEF Without
<1>. HIDE DEF Without
<1>. QED  BY <1>2, <1>3 DEF Orders

\* What was just modified is the youngest, and the rest stays in its order.
LEMMA NewestOrders ==
    ASSUME NEW S, NEW f, NEW a, Orders(a, S)
    PROVE  /\ Orders(Newest(a, f), S \cup {f})
           /\ \A x \in S \cup {f} : <<x, f>> \in Newest(a, f)
           /\ \A x \in S \ {f}, y \in S \ {f} : <<x, y>> \in a => <<x, y>> \in Newest(a, f)
<1>. DEFINE rest == Without(a, {f})
<1>1. /\ Orders(rest, S \ {f})
      /\ \A x \in S \ {f}, y \in S \ {f} : <<x, y>> \in a => <<x, y>> \in rest
  BY WithoutOrders
<1>. HIDE DEF rest
<1>2. Listed(rest) = S \ {f}
  <2>1. rest \subseteq (S \ {f}) \X (S \ {f})
    BY <1>1 DEF Orders
  <2>2. \A x \in S \ {f} : <<x, x>> \in rest
    BY <1>1 DEF Orders
  <2>3. ASSUME NEW x \in S \ {f} PROVE x \in Listed(rest)
    <3>1. <<x, x>> \in rest /\ <<x, x>>[1] = x
      BY <2>2
    <3>. QED  BY <3>1 DEF Listed
  <2>4. ASSUME NEW x \in Listed(rest) PROVE x \in S \ {f}
    <3>1. PICK p \in rest : x = p[1]
      BY DEF Listed
    <3>. QED  BY <2>1, <3>1
  <2>. QED  BY <2>3, <2>4
<1>3. Newest(a, f) = rest \cup {<<x, f>> : x \in S \cup {f}}
  BY <1>2 DEF Newest, rest
<1>. DEFINE n == Newest(a, f)
<1>4. \A x, y : <<x, y>> \in n <=> <<x, y>> \in rest \/ (y = f /\ x \in S \cup {f})
  BY <1>3
<1>5. n \subseteq (S \cup {f}) \X (S \cup {f})
  BY <1>1, <1>3 DEF Orders
<1>6. \A x, y : <<x, y>> \in rest => x \in S \ {f} /\ y \in S \ {f}
  BY <1>1 DEF Orders
<1>. HIDE DEF n
<1>7. Orders(n, S \cup {f})
  BY <1>1, <1>4, <1>5, <1>6 DEF Orders
<1>. QED  BY <1>1, <1>4, <1>7 DEF n

\* A change of name changes nothing in the order.
LEMMA RenamedOrders ==
    ASSUME NEW S, NEW f \in S, NEW g, f # g, NEW a, Orders(a, S)
    PROVE  /\ Orders(Renamed(a, f, g), (S \ {f}) \cup {g})
           /\ \A x \in S \ {f, g}, y \in S \ {f, g} : <<x, y>> \in a => <<x, y>> \in Renamed(a, f, g)
           /\ \A y \in S \ {f, g} : <<f, y>> \in a => <<g, y>> \in Renamed(a, f, g)
<1>. DEFINE rest == Without(a, {g})
            now(x) == IF x = f THEN g ELSE x
            back(x) == IF x = g THEN f ELSE x
            n == Renamed(a, f, g)
            T == (S \ {f}) \cup {g}
<1>1. /\ Orders(rest, S \ {g})
      /\ \A x \in S \ {g}, y \in S \ {g} : <<x, y>> \in a => <<x, y>> \in rest
  BY WithoutOrders
<1>2. \A x, y : <<x, y>> \in rest => x \in S \ {g} /\ y \in S \ {g}
  BY <1>1 DEF Orders
<1>3. n = {<<now(p[1]), now(p[2])>> : p \in rest}
  BY DEF Renamed
<1>. HIDE DEF rest
<1>4. \A x, y : <<x, y>> \in n <=> x \in T /\ y \in T /\ <<back(x), back(y)>> \in rest
  <2>1. ASSUME NEW x, NEW y, <<x, y>> \in n
        PROVE  x \in T /\ y \in T /\ <<back(x), back(y)>> \in rest
    <3>1. PICK p \in rest : <<x, y>> = <<now(p[1]), now(p[2])>>
      BY <1>3, <2>1
    <3>2. p \in (S \ {g}) \X (S \ {g})
      BY <1>1 DEF Orders
    <3>3. p = <<p[1], p[2]>> /\ p[1] \in S \ {g} /\ p[2] \in S \ {g}
      BY <3>2
    <3>4. x = now(p[1]) /\ y = now(p[2])
      BY <3>1
    <3>5. back(x) = p[1] /\ back(y) = p[2] /\ x \in T /\ y \in T
      BY <3>3, <3>4
    <3>. QED  BY <3>3, <3>5
  <2>2. ASSUME NEW x \in T, NEW y \in T, <<back(x), back(y)>> \in rest
        PROVE  <<x, y>> \in n
    <3>1. now(back(x)) = x /\ now(back(y)) = y
      OBVIOUS
    <3>2. <<now(<<back(x), back(y)>>[1]), now(<<back(x), back(y)>>[2])>> \in n
      BY <1>3, <2>2
    <3>. QED  BY <3>1, <3>2
  <2>. QED  BY <2>1, <2>2
<1>5. n \subseteq T \X T
  <2>1. ASSUME NEW p \in n PROVE p \in T \X T
    <3>1. PICK q \in rest : p = <<now(q[1]), now(q[2])>>
      BY <1>3
    <3>2. p = <<p[1], p[2]>>
      BY <3>1
    <3>. QED  BY <1>4, <3>2
  <2>. QED  BY <2>1
<1>6. \A x \in T : back(x) \in S \ {g}
  OBVIOUS
<1>7. \A x \in T, y \in T : back(x) = back(y) => x = y
  OBVIOUS
<1>8. \A x \in S \ {f, g} : back(x) = x /\ x \in T
  OBVIOUS
<1>9. back(g) = f /\ g \in T
  OBVIOUS
<1>. HIDE DEF n, T, back
<1>10. Orders(n, T)
  <2>1. \A x \in T, y \in T : <<x, y>> \in n <=> <<back(x), back(y)>> \in rest
    BY <1>4
  <2>2. ASSUME NEW x \in T, NEW y \in T PROVE <<x, y>> \in n \/ <<y, x>> \in n
    <3>1. <<back(x), back(y)>> \in rest \/ <<back(y), back(x)>> \in rest
      BY <1>1, <1>6 DEF Orders
    <3>. QED  BY <2>1, <3>1
  <2>3. ASSUME NEW x \in T, NEW y \in T, <<x, y>> \in n, <<y, x>> \in n PROVE x = y
    <3>1. <<back(x), back(y)>> \in rest /\ <<back(y), back(x)>> \in rest
      BY <2>1, <2>3
    <3>2. back(x) = back(y)
      BY <1>1, <1>6, <3>1 DEF Orders
    <3>. QED  BY <1>7, <3>2
  <2>4. ASSUME NEW x \in T, NEW y \in T, NEW z \in T, <<x, y>> \in n, <<y, z>> \in n
        PROVE  <<x, z>> \in n
    <3>1. <<back(x), back(y)>> \in rest /\ <<back(y), back(z)>> \in rest
      BY <2>1, <2>4
    <3>2. <<back(x), back(z)>> \in rest
      BY <1>1, <1>6, <3>1 DEF Orders
    <3>. QED  BY <2>1, <3>2
  <2>. QED  BY <1>5, <2>2, <2>3, <2>4 DEF Orders
<1>11. \A x \in S \ {f, g}, y \in S \ {f, g} : <<x, y>> \in a => <<x, y>> \in n
  BY <1>1, <1>4, <1>8
<1>12. \A y \in S \ {f, g} : <<f, y>> \in a => <<g, y>> \in n
  BY <1>1, <1>4, <1>8, <1>9
<1>. QED  BY <1>10, <1>11, <1>12 DEF n, T

\* What is listed is what the order orders.
LEMMA ListedOrders ==
    ASSUME NEW S, NEW a, Orders(a, S)
    PROVE  Listed(a) = S
<1>1. a \subseteq S \X S /\ \A x \in S : <<x, x>> \in a
  BY DEF Orders
<1>2. ASSUME NEW x \in S PROVE x \in Listed(a)
  <2>1. <<x, x>> \in a /\ <<x, x>>[1] = x
    BY <1>1
  <2>. QED  BY <2>1 DEF Listed
<1>3. ASSUME NEW x \in Listed(a) PROVE x \in S
  <2>1. PICK p \in a : x = p[1]
    BY <1>3 DEF Listed
  <2>. QED  BY <1>1, <2>1
<1>. QED  BY <1>2, <1>3

\* A file of any age takes its place, and the rest stays in its order.
LEMMA DatedOrders ==
    ASSUME NEW S, NEW f \in S, NEW a, Orders(a, S), NEW B \in Beginnings(Without(a, {f}))
    PROVE  /\ Orders(Dated(a, f, B), S)
           /\ \A x \in S \ {f}, y \in S \ {f} : <<x, y>> \in a => <<x, y>> \in Dated(a, f, B)
<1>. DEFINE rest == Without(a, {f})
            R == S \ {f}
            n == Dated(a, f, B)
<1>1. Orders(rest, R) /\ \A x \in R, y \in R : <<x, y>> \in a => <<x, y>> \in rest
  BY WithoutOrders
<1>2. Listed(rest) = R
  BY <1>1, ListedOrders
<1>3. n = rest \cup {<<f, f>>} \cup {<<x, f>> : x \in B} \cup {<<f, x>> : x \in R \ B}
  BY <1>2 DEF Dated
<1>4. B = {} \/ \E x \in R : B = NoYounger(rest, x)
  BY <1>2 DEF Beginnings
<1>. HIDE DEF rest
<1>5. \A x, y : <<x, y>> \in rest => x \in R /\ y \in R
  BY <1>1 DEF Orders
<1>6. B \subseteq R /\ \A x \in R, y \in B : <<x, y>> \in rest => x \in B
  <2>1. CASE B = {}
    BY <2>1
  <2>2. ASSUME NEW x \in R, B = NoYounger(rest, x)
        PROVE  B \subseteq R /\ \A u \in R, y \in B : <<u, y>> \in rest => u \in B
    <3>1. \A y : y \in B <=> <<y, x>> \in rest
      <4>1. ASSUME NEW y, <<y, x>> \in rest PROVE y \in B
        <5>1. <<y, x>>[1] = y /\ <<y, x>>[2] = x
          OBVIOUS
        <5>. QED  BY <2>2, <4>1, <5>1 DEF NoYounger
      <4>2. ASSUME NEW y \in B PROVE <<y, x>> \in rest
        <5>1. PICK p \in rest : p[2] = x /\ y = p[1]
          BY <2>2 DEF NoYounger
        <5>2. p \in R \X R
          BY <1>1 DEF Orders
        <5>. QED  BY <5>1, <5>2
      <4>. QED  BY <4>1, <4>2
    <3>. QED  BY <1>1, <1>5, <3>1 DEF Orders
  <2>. QED  BY <1>4, <2>1, <2>2
<1>7. f \notin R /\ S = R \cup {f}
  OBVIOUS
<1>14. /\ \A x \in R, y \in R : <<x, y>> \in rest \/ <<y, x>> \in rest
       /\ \A x \in R, y \in R : <<x, y>> \in rest /\ <<y, x>> \in rest => x = y
       /\ \A x \in R, y \in R, z \in R :
             <<x, y>> \in rest /\ <<y, z>> \in rest => <<x, z>> \in rest
  BY <1>1 DEF Orders
<1>8. \A x, y : <<x, y>> \in n <=> \/ <<x, y>> \in rest
                                   \/ x = f /\ y = f
                                   \/ x \in B /\ y = f
                                   \/ x = f /\ y \in R \ B
  BY <1>3
<1>. HIDE DEF R, n
<1>9. n \subseteq S \X S
  <2>1. rest \subseteq R \X R
    BY <1>1 DEF Orders
  <2>. QED  BY <1>3, <1>6, <1>7, <2>1 DEF n
<1>10. ASSUME NEW x \in S, NEW y \in S
       PROVE  /\ <<x, y>> \in n \/ <<y, x>> \in n
              /\ <<x, y>> \in n /\ <<y, x>> \in n => x = y
  <2>1. CASE x = f /\ y = f
    BY <1>8, <2>1
  <2>2. CASE x = f /\ y # f
    <3>1. y \in R /\ <<x, y>> \notin rest /\ <<y, x>> \notin rest
      BY <1>5, <1>7, <2>2
    <3>. QED  BY <1>8, <2>2, <3>1
  <2>3. CASE x # f /\ y = f
    <3>1. x \in R /\ <<x, y>> \notin rest /\ <<y, x>> \notin rest
      BY <1>5, <1>7, <2>3
    <3>. QED  BY <1>8, <2>3, <3>1
  <2>4. CASE x # f /\ y # f
    <3>1. x \in R /\ y \in R
      BY <1>7, <2>4
    <3>2. (<<x, y>> \in n <=> <<x, y>> \in rest) /\ (<<y, x>> \in n <=> <<y, x>> \in rest)
      BY <1>8, <2>4
    <3>. QED  BY <1>14, <3>1, <3>2
  <2>. QED  BY <2>1, <2>2, <2>3, <2>4
<1>12. ASSUME NEW x \in S, NEW y \in S, NEW z \in S, <<x, y>> \in n, <<y, z>> \in n
       PROVE  <<x, z>> \in n
  <2>1. CASE x = f
    <3>1. CASE z = f
      BY <1>8, <2>1, <3>1
    <3>2. CASE z # f /\ y = f
      BY <1>12, <2>1, <3>2
    <3>3. CASE z # f /\ y # f
      <4>1. y \in R \ B /\ <<y, z>> \in rest /\ z \in R
        BY <1>5, <1>7, <1>8, <1>12, <2>1, <3>3
      <4>2. z \notin B
        BY <1>6, <4>1
      <4>. QED  BY <1>8, <2>1, <4>1, <4>2
    <3>. QED  BY <3>1, <3>2, <3>3
  <2>2. CASE x # f /\ y = f
    <3>1. x \in B
      BY <1>5, <1>7, <1>8, <1>12, <2>2
    <3>2. CASE z = f
      BY <1>8, <2>2, <3>1, <3>2
    <3>3. CASE z # f
      <4>1. z \in R \ B
        BY <1>5, <1>7, <1>8, <1>12, <2>2, <3>3
      <4>2. <<x, z>> \in rest \/ <<z, x>> \in rest
        BY <1>14, <1>6, <3>1, <4>1
      <4>3. <<x, z>> \in rest
        BY <1>6, <3>1, <4>1, <4>2
      <4>. QED  BY <1>8, <4>3
    <3>. QED  BY <3>2, <3>3
  <2>3. CASE x # f /\ y # f
    <3>1. <<x, y>> \in rest /\ x \in R /\ y \in R
      BY <1>5, <1>8, <1>12, <2>3
    <3>2. CASE z = f
      <4>1. y \in B
        BY <1>5, <1>7, <1>8, <1>12, <2>3, <3>2
      <4>. QED  BY <1>6, <1>8, <3>1, <3>2, <4>1
    <3>3. CASE z # f
      <4>1. <<y, z>> \in rest /\ z \in R
        BY <1>5, <1>8, <1>12, <2>3, <3>3
      <4>. QED  BY <1>14, <1>8, <3>1, <4>1
    <3>. QED  BY <3>2, <3>3
  <2>. QED  BY <2>1, <2>2, <2>3
<1>13. Orders(n, S)
  BY <1>9, <1>10, <1>12 DEF Orders
<1>. QED  BY <1>1, <1>8, <1>13 DEF n, R

(***************************************************************************)
(* What is on disk, when it was modified, and what it plays.  A transcode  *)
(* of a replaced sound is older than the sound (WavFits), one that ffmpeg  *)
(* is making reads what the sound is now (WorkFits), and one that waits    *)
(* for its name is older than what was put in place of what it plays       *)
(* (DoneFits), unless the times of the sound are masked.                   *)
(***************************************************************************)
Finishing(w) == \E r \in Requests : request[r].stage = "written" /\ Job(request[r]) = w

Stale(f, k) == file[f].state # "absent" /\ file[f].old # {} /\ k \notin masked

WavFits(k)  == Stale(Wav(<<k>>), k) => <<Wav(<<k>>), Source(k)>> \in age
WorkFits(k) == Encoded(<<k>>) /\ k \notin masked => file[Work(<<k>>)].old = {}
DoneFits(k) ==
    Finishing(<<k>>) /\ Stale(Work(<<k>>), k) => <<Work(<<k>>), Source(k)>> \in age

Fits(k) == WavFits(k) /\ WorkFits(k) /\ DoneFits(k)

DiskInv ==
    /\ Orders(age, OnDisk) /\ \A k \in Sounds : Fits(k)
    /\ edits \in 0..MaxEdits /\ masked \subseteq Sounds
    /\ broken \subseteq Wishes /\ robbed \subseteq Requests

LEMMA SoundNames ==
    ASSUME NEW k \in Sounds
    PROVE  /\ <<k>> \in Wishes /\ ~IsJoin(<<k>>) /\ ~IsUrl(<<k>>)
           /\ Wav(<<k>>) \in Files /\ Work(<<k>>) \in Files
           /\ Work(<<k>>) # Wav(<<k>>) /\ Work(<<k>>) = <<"tmp", <<k>>>>
           /\ Source(k) \in OnDisk /\ Source(k) \notin Files
           /\ \A w \in Wishes : w # <<k>> =>
                 /\ Wav(w) # Wav(<<k>>) /\ Wav(w) # Work(<<k>>)
                 /\ Work(w) # Wav(<<k>>) /\ Work(w) # Work(<<k>>)
<1>1. k \in Sources /\ <<k>> \in Wishes /\ ~IsJoin(<<k>>)
  BY ClipIsNoJoin DEF Sources
<1>2. ~IsUrl(<<k>>)
  BY CacheAssumption DEF IsUrl
<1>3. Wav(<<k>>) \in Files /\ Work(<<k>>) \in Files /\ \A v : Work(<<k>>) # Wav(v)
  BY <1>1, WavNames, WorkNames
<1>4. ASSUME NEW w \in Wishes, w # <<k>>
      PROVE  /\ Wav(w) # Wav(<<k>>) /\ Work(w) # Wav(<<k>>) /\ Work(w) # Work(<<k>>)
  BY <1>1, <1>4, WavNames, WorkNames
<1>5. Source(k) \in OnDisk /\ Source(k) \notin Files
  BY SourceNames DEF OnDisk
<1>. QED  BY <1>1, <1>2, <1>3, <1>4, <1>5 DEF Work

\* A sound whose files stay or go, and stay in their order, fits as before.
LEMMA FitsKept ==
    ASSUME NEW k \in Sounds, Fits(k), k \in masked' <=> k \in masked,
           Encoded(<<k>>)' => Encoded(<<k>>), Finishing(<<k>>)' => Finishing(<<k>>),
           file'[Wav(<<k>>)] \in {file[Wav(<<k>>)], Absent},
           file'[Work(<<k>>)] \in {file[Work(<<k>>)], Absent},
           file'[Wav(<<k>>)].state # "absent" /\ <<Wav(<<k>>), Source(k)>> \in age
              => <<Wav(<<k>>), Source(k)>> \in age',
           Finishing(<<k>>)' /\ file'[Work(<<k>>)].state # "absent"
              /\ <<Work(<<k>>), Source(k)>> \in age => <<Work(<<k>>), Source(k)>> \in age'
    PROVE  Fits(k)'
<1>. DEFINE wav  == Wav(<<k>>)
            work == Work(<<k>>)
            src  == Source(k)
<1>0. Absent.state = "absent" /\ Absent.old = {}
  BY DEF Absent
<1>1. /\ file[wav].state # "absent" /\ file[wav].old # {} /\ k \notin masked => <<wav, src>> \in age
      /\ Encoded(<<k>>) /\ k \notin masked => file[work].old = {}
      /\ Finishing(<<k>>) /\ file[work].state # "absent" /\ file[work].old # {} /\ k \notin masked
            => <<work, src>> \in age
  BY DEF Fits, WavFits, WorkFits, DoneFits, Stale
<1>. HIDE DEF wav, work, src
<1>2. file'[wav].state # "absent" /\ file'[wav].old # {} /\ k \notin masked' => <<wav, src>> \in age'
  BY <1>0, <1>1 DEF wav, work, src
<1>3. Encoded(<<k>>)' /\ k \notin masked' => file'[work].old = {}
  BY <1>0, <1>1 DEF wav, work, src
<1>4. Finishing(<<k>>)' /\ file'[work].state # "absent" /\ file'[work].old # {} /\ k \notin masked'
         => <<work, src>> \in age'
  BY <1>0, <1>1 DEF wav, work, src
<1>. QED  BY <1>2, <1>3, <1>4
          DEF Fits, WavFits, WorkFits, DoneFits, Stale, wav, work, src, Wav, Work, Source, IsJoin

\* Who encodes and who finishes after a change of stage.
LEMMA StagesOf ==
    ASSUME CTyped, NEW r \in Requests,
           NEW stage \in {"fetching", "locking", "encoding", "written", "probing",
                          "measuring", "ready", "playing", "silent", "failed", "lost"},
           Becomes(r, stage), NEW w
    PROVE  /\ stage # "encoding" \/ w # Job(request[r]) => (Encoded(w)' => Encoded(w))
           /\ stage # "written" \/ w # Job(request[r]) => (Finishing(w)' => Finishing(w))
<1>1. /\ \A s \in Requests : Job(request'[s]) = Job(request[s])
      /\ request'[r].stage = stage
      /\ \A s \in Requests : s # r => request'[s] = request[s]
  BY BecomesOf
<1>2. ASSUME stage # "encoding" \/ w # Job(request[r]), Encoded(w)' PROVE Encoded(w)
  <2>1. PICK s \in Requests : request'[s].stage = "encoding" /\ Job(request'[s]) = w
    BY <1>2 DEF Encoded, Job
  <2>2. s # r
    BY <1>1, <1>2, <2>1
  <2>. QED  BY <1>1, <2>1, <2>2 DEF Encoded
<1>3. ASSUME stage # "written" \/ w # Job(request[r]), Finishing(w)' PROVE Finishing(w)
  <2>1. PICK s \in Requests : request'[s].stage = "written" /\ Job(request'[s]) = w
    BY <1>3 DEF Finishing, Job
  <2>2. s # r
    BY <1>1, <1>3, <2>1
  <2>. QED  BY <1>1, <2>1, <2>2 DEF Finishing
<1>. QED  BY <1>2, <1>3

\* Nobody else encodes or finishes what r has to itself.
LEMMA AloneAfter ==
    ASSUME CInv, NEW r \in Requests,
           Busy(request[r]) \/ lock[Job(request[r])] = Nobody,
           NEW stage \in {"encoding", "written", "probing", "measuring", "failed"},
           Becomes(r, stage), NEW w, w = Job(request[r]), NEW s \in Requests,
           request'[s].stage \in {"encoding", "written"}, Job(request'[s]) = w
    PROVE  s = r /\ request'[s].stage = stage
<1>1. /\ Job(request'[s]) = Job(request[s])
      /\ request'[r].stage = stage
      /\ s # r => request'[s] = request[s]
  BY BecomesOf DEF CInv
<1>. QED  BY <1>1, Alone DEF Busy

\* Steps that touch no file and start no ffmpeg.
LEMMA DiskQuiet ==
    ASSUME DiskInv, UNCHANGED <<file, age, edits, masked>>, broken' \subseteq Wishes,
           robbed' \subseteq Requests,
           \A s \in Requests : request'[s].stage \in {"encoding", "written"}
                                  => request'[s] = request[s]
    PROVE  DiskInv'
<1>1. \A w : (Encoded(w)' => Encoded(w)) /\ (Finishing(w)' => Finishing(w))
  BY DEF Encoded, Finishing, Job
<1>2. OnDisk' = OnDisk
  BY DEF OnDisk, Present
<1>3. ASSUME NEW k \in Sounds PROVE Fits(k)'
  BY <1>1, FitsKept DEF DiskInv
<1>. QED  BY <1>2, <1>3 DEF DiskInv

\* f is the youngest now.
LEMMA OrderNewest ==
    ASSUME Orders(age, OnDisk), NEW f \in Files, age' = Newest(age, f),
           \A g \in Files \ {f} : file'[g].state = file[g].state, file'[f].state # "absent"
    PROVE  /\ Orders(age', OnDisk')
           /\ \A x \in OnDisk \ {f}, y \in OnDisk \ {f} : <<x, y>> \in age => <<x, y>> \in age'
<1>1. OnDisk' = OnDisk \cup {f}
  BY DEF OnDisk, Present, LocalSources, Source
<1>. QED  BY <1>1, NewestOrders

\* The files S go.
LEMMA OrderWithout ==
    ASSUME Orders(age, OnDisk), NEW gone, gone \subseteq Files, age' = Without(age, gone),
           file' = Erased(file, gone)
    PROVE  /\ Orders(age', OnDisk')
           /\ \A x \in OnDisk', y \in OnDisk' : <<x, y>> \in age => <<x, y>> \in age'
           /\ \A f \in Files : /\ file'[f] \in {file[f], Absent}
                               /\ file'[f].state # "absent" => f \in OnDisk'
<1>1. \A f \in Files : file'[f] = IF f \in gone THEN Absent ELSE file[f]
  BY DEF Erased
<1>2. \A f \in Files : file'[f].state # "absent" <=> file[f].state # "absent" /\ f \notin gone
  BY <1>1 DEF Absent
<1>3. OnDisk' = OnDisk \ gone
  <2>1. LocalSources' = LocalSources /\ LocalSources \cap gone = {}
    BY SourceNames DEF LocalSources, Source
  <2>2. {f \in Files : Present(f)}' = {f \in Files : Present(f)} \ gone
    BY <1>2 DEF Present
  <2>. QED  BY <2>1, <2>2 DEF OnDisk
<1>4. /\ Orders(age', OnDisk')
      /\ \A x \in OnDisk', y \in OnDisk' : <<x, y>> \in age => <<x, y>> \in age'
  BY <1>3, WithoutOrders
<1>5. \A f \in Files : file'[f].state # "absent" => f \in OnDisk'
  BY DEF OnDisk, Present
<1>. QED  BY <1>1, <1>4, <1>5

\* The lock is taken.
LEMMA DiskAcquire ==
    ASSUME DiskInv, CInv, NEW r \in Requests, Acquire(r)
    PROVE  DiskInv'
<1>. DEFINE w == Job(request[r])
<1>1. /\ CTyped /\ w \in Wishes /\ request[r].stage = "locking" /\ lock[w] = Nobody
      /\ edits' = edits /\ robbed' \subseteq Requests /\ broken \subseteq Wishes
      /\ Orders(age, OnDisk) /\ masked \subseteq Sounds
  BY JobIsWish DEF CInv, CTyped, Acquire, DiskInv, LockFree
<1>2. CASE /\ Hit(w) /\ Becomes(r, "probing") /\ UNCHANGED <<file, masked, broken>>
           /\ age' = IF IsUrl(w) THEN Newest(age, Wav(w)) ELSE age
  <2>1. \A s \in Requests : request'[s].stage \in {"encoding", "written"}
                               => request'[s] = request[s]
    BY <1>1, <1>2, BecomesOf
  <2>2. CASE ~IsUrl(w)
    BY <1>1, <1>2, <2>1, <2>2, DiskQuiet
  <2>3. CASE IsUrl(w)
    <3>1. Wav(w) \in Files /\ file'[Wav(w)].state # "absent"
      BY <1>1, <1>2, WavNames DEF Hit, Present
    <3>2. /\ Orders(age', OnDisk')
          /\ \A x \in OnDisk \ {Wav(w)}, y \in OnDisk \ {Wav(w)} :
                <<x, y>> \in age => <<x, y>> \in age'
      <4>. HIDE DEF w
      <4>. QED  BY <1>1, <1>2, <2>3, <3>1, OrderNewest
    <3>3. ASSUME NEW k \in Sounds PROVE Fits(k)'
      <4>1. w # <<k>>
        BY <2>3, SoundNames
      <4>2. /\ Source(k) \in OnDisk \ {Wav(w)}
            /\ Wav(<<k>>) \in Files \ {Wav(w)} /\ Work(<<k>>) \in Files \ {Wav(w)}
        BY <1>1, <3>1, <4>1, SoundNames
      <4>3. \A f \in Files : file'[f].state # "absent" => f \in OnDisk
        BY <1>2 DEF OnDisk, Present
      <4>4. (Encoded(<<k>>)' => Encoded(<<k>>)) /\ (Finishing(<<k>>)' => Finishing(<<k>>))
        BY <1>1, <1>2, StagesOf
      <4>. HIDE DEF w
      <4>. QED  BY <1>2, <3>2, <4>2, <4>3, <4>4, FitsKept DEF DiskInv
    <3>. QED  BY <1>1, <1>2, <3>2, <3>3 DEF DiskInv
  <2>. QED  BY <2>2, <2>3
<1>3. CASE /\ ~Hit(w) /\ Becomes(r, "encoding") /\ age' = Newest(age, Work(w))
           /\ file' = [file EXCEPT ![Work(w)] = [state |-> "half", old |-> {}]]
           /\ masked' = (IF IsJoin(w) THEN masked ELSE masked \ {w[1]})
           /\ broken' = broken \ {w}
  <2>1. Work(w) \in Files /\ file \in [Files -> FileType]
    BY <1>1, WorkNames DEF CTyped
  <2>2. /\ file'[Work(w)] = [state |-> "half", old |-> {}]
        /\ \A g \in Files \ {Work(w)} : file'[g] = file[g]
    BY <1>3, <2>1
  <2>3. /\ Orders(age', OnDisk')
        /\ \A x \in OnDisk \ {Work(w)}, y \in OnDisk \ {Work(w)} :
              <<x, y>> \in age => <<x, y>> \in age'
    <3>1. file'[Work(w)].state # "absent"
      BY <2>2
    <3>. HIDE DEF w
    <3>. QED  BY <1>1, <1>3, <2>1, <2>2, <3>1, OrderNewest
  <2>4. \A f \in Files \ {Work(w)} : file'[f].state # "absent" => f \in OnDisk
    BY <2>2 DEF OnDisk, Present
  <2>5. ASSUME NEW k \in Sounds, w # <<k>> PROVE Fits(k)'
    <3>1. /\ Source(k) \in OnDisk \ {Work(w)}
          /\ Wav(<<k>>) \in Files \ {Work(w)} /\ Work(<<k>>) \in Files \ {Work(w)}
      BY <1>1, <2>1, <2>5, SoundNames
    <3>2. k \in masked' <=> k \in masked
      <4>1. CASE IsJoin(w)
        BY <1>3, <4>1
      <4>2. CASE ~IsJoin(w)
        <5>1. PICK j \in Sources : w = <<j>>
          BY <1>1, <4>2, WishShape DEF IsJoin
        <5>2. w[1] = j /\ j # k
          BY <2>5, <5>1
        <5>. QED  BY <1>3, <4>2, <5>2
      <4>. QED  BY <4>1, <4>2
    <3>3. (Encoded(<<k>>)' => Encoded(<<k>>)) /\ (Finishing(<<k>>)' => Finishing(<<k>>))
      BY <1>1, <1>3, <2>5, StagesOf
    <3>. HIDE DEF w
    <3>. QED  BY <2>2, <2>3, <2>4, <3>1, <3>2, <3>3, FitsKept DEF DiskInv
  <2>6. ASSUME NEW k \in Sounds, w = <<k>> PROVE Fits(k)'
    <3>1. /\ ~IsJoin(w) /\ ~IsUrl(w) /\ Wav(<<k>>) \in Files /\ Work(<<k>>) # Wav(<<k>>)
          /\ Source(k) \in OnDisk /\ Source(k) \notin Files
      BY <2>6, SoundNames
    <3>2. file[Wav(<<k>>)].state # "absent" => <<Wav(<<k>>), Source(k)>> \in age
      BY <1>3, <2>6, <3>1 DEF Hit, Later, Present
    <3>3. file'[Wav(<<k>>)] = file[Wav(<<k>>)]
      BY <2>2, <2>6, <3>1
    <3>4. file'[Wav(<<k>>)].state # "absent" => Wav(<<k>>) \in OnDisk
      BY <2>4, <2>6, <3>1
    <3>5. file'[Wav(<<k>>)].state # "absent" => <<Wav(<<k>>), Source(k)>> \in age'
      BY <2>1, <2>3, <2>6, <3>1, <3>2, <3>3, <3>4
    <3>6. file'[Work(<<k>>)].old = {}
      BY <2>2, <2>6
    <3>7. ~Finishing(<<k>>)'
      <4>1. SUFFICES ASSUME NEW s \in Requests, request'[s].stage = "written",
                            Job(request'[s]) = <<k>>
                     PROVE  FALSE
        BY DEF Finishing, Job
      <4>. QED  BY <1>1, <1>3, <2>6, <4>1, AloneAfter
    <3>. QED  BY <3>5, <3>6, <3>7
              DEF Fits, WavFits, WorkFits, DoneFits, Stale, Wav, Work, Source, IsJoin
  <2>7. masked' \subseteq Sounds /\ broken' \subseteq Wishes
    BY <1>1, <1>3
  <2>. QED  BY <1>1, <2>3, <2>5, <2>6, <2>7 DEF DiskInv
<1>4. \/ /\ Hit(w) /\ Becomes(r, "probing") /\ UNCHANGED <<file, masked, broken>>
         /\ age' = IF IsUrl(w) THEN Newest(age, Wav(w)) ELSE age
      \/ /\ ~Hit(w) /\ Becomes(r, "encoding") /\ age' = Newest(age, Work(w))
         /\ file' = [file EXCEPT ![Work(w)] = [state |-> "half", old |-> {}]]
         /\ masked' = (IF IsJoin(w) THEN masked ELSE masked \ {w[1]})
         /\ broken' = broken \ {w}
  BY Zenon DEF Acquire
<1>. QED  BY <1>2, <1>3, <1>4

\* ffmpeg writes.
LEMMA DiskWrites ==
    ASSUME DiskInv, CInv, NEW r \in Requests, Writes(r)
    PROVE  DiskInv'
<1>1. PICK w \in Wishes : w = Job(request[r])
  BY JobIsWish DEF CInv, CTyped
<1>2. /\ CTyped /\ request[r].stage = "encoding" /\ file[Work(w)].state # "absent"
      /\ age' = Newest(age, Work(w)) /\ Work(w) \in Files
      /\ UNCHANGED <<request, file, lock, edits, masked, broken, robbed>>
  BY <1>1, WorkNames DEF CInv, Writes, Present, observations
<1>3. /\ Orders(age', OnDisk')
      /\ \A x \in OnDisk \ {Work(w)}, y \in OnDisk \ {Work(w)} :
            <<x, y>> \in age => <<x, y>> \in age'
  BY <1>2, OrderNewest DEF DiskInv
<1>4. ASSUME NEW k \in Sounds PROVE Fits(k)'
  <2>1. (Encoded(<<k>>)' => Encoded(<<k>>)) /\ (Finishing(<<k>>)' => Finishing(<<k>>))
    BY <1>2 DEF Encoded, Finishing, Job
  <2>2. w = <<k>> => ~Finishing(<<k>>)
    <3>1. SUFFICES ASSUME w = <<k>>, NEW s \in Requests, request[s].stage = "written",
                          Job(request[s]) = w
                   PROVE  FALSE
      BY DEF Finishing
    <3>2. s # r
      BY <1>2, <3>1
    <3>. QED  BY <1>1, <1>2, <3>1, <3>2, Alone DEF Busy
  <2>3. /\ Wav(<<k>>) # Work(w) /\ (w # <<k>> => Work(<<k>>) # Work(w))
        /\ Wav(<<k>>) \in Files /\ Work(<<k>>) \in Files
        /\ Source(k) \in OnDisk /\ Source(k) \notin Files
    BY <1>1, SoundNames
  <2>4. \A f \in Files : file[f].state # "absent" => f \in OnDisk
    BY DEF OnDisk, Present
  <2>. QED  BY <1>2, <1>3, <2>1, <2>2, <2>3, <2>4, FitsKept DEF DiskInv
<1>. QED  BY <1>2, <1>3, <1>4 DEF DiskInv

\* ffmpeg ends.
LEMMA DiskFfmpegEnds ==
    ASSUME DiskInv, CInv, NEW r \in Requests, FfmpegEnds(r)
    PROVE  DiskInv'
<1>1. PICK w \in Wishes : w = Job(request[r])
  BY JobIsWish DEF CInv, CTyped
<1>2. /\ CTyped /\ request[r].stage = "encoding" /\ Becomes(r, "written") /\ Work(w) \in Files
      /\ file \in [Files -> FileType] /\ UNCHANGED <<lock, edits, masked, robbed>>
      /\ broken' \subseteq Wishes
  BY <1>1, WorkNames DEF CInv, CTyped, FfmpegEnds, DiskInv
<1>3. \/ file[Work(w)].state # "absent" /\ age' = Newest(age, Work(w))
      \/ file[Work(w)].state = "absent" /\ age' = age /\ file' = file
  BY <1>1 DEF FfmpegEnds, Present
<1>4. file' = file \/ file' = [file EXCEPT ![Work(w)] =
                                  [state |-> "whole", old |-> @.old \cup Played(w)]]
  BY <1>1 DEF FfmpegEnds
<1>5. /\ \A f \in Files \ {Work(w)} : file'[f] = file[f]
      /\ file[Work(w)].state # "absent" => file'[Work(w)].state # "absent"
      /\ file'[Work(w)].old \in {file[Work(w)].old, file[Work(w)].old \cup Played(w)}
  <2>1. CASE file' = file
    BY <2>1
  <2>2. CASE file' = [file EXCEPT ![Work(w)] =
                         [state |-> "whole", old |-> @.old \cup Played(w)]]
    <3>1. file'[Work(w)] = [state |-> "whole", old |-> file[Work(w)].old \cup Played(w)]
      BY <1>2, <2>2
    <3>. QED  BY <1>2, <2>2, <3>1
  <2>. QED  BY <1>4, <2>1, <2>2
<1>6. /\ Orders(age', OnDisk')
      /\ \A x \in OnDisk \ {Work(w)}, y \in OnDisk \ {Work(w)} :
            <<x, y>> \in age => <<x, y>> \in age'
  <2>1. CASE file[Work(w)].state # "absent" /\ age' = Newest(age, Work(w))
    BY <1>2, <1>5, <2>1, OrderNewest DEF DiskInv
  <2>2. CASE age' = age /\ file' = file
    <3>1. OnDisk' = OnDisk
      BY <2>2 DEF OnDisk, Present
    <3>. QED  BY <2>2, <3>1 DEF DiskInv
  <2>. QED  BY <1>3, <2>1, <2>2
<1>7. \A f \in Files : file[f].state # "absent" => f \in OnDisk
  BY DEF OnDisk, Present
<1>8. ASSUME NEW k \in Sounds, w # <<k>> PROVE Fits(k)'
  <2>1. (Encoded(<<k>>)' => Encoded(<<k>>)) /\ (Finishing(<<k>>)' => Finishing(<<k>>))
    BY <1>1, <1>2, <1>8, StagesOf
  <2>2. /\ Wav(<<k>>) # Work(w) /\ Work(<<k>>) # Work(w)
        /\ Wav(<<k>>) \in Files /\ Work(<<k>>) \in Files
        /\ Source(k) \in OnDisk /\ Source(k) \notin Files
    BY <1>1, <1>8, SoundNames
  <2>. QED  BY <1>2, <1>5, <1>6, <1>7, <2>1, <2>2, FitsKept DEF DiskInv
<1>9. ASSUME NEW k \in Sounds, w = <<k>> PROVE Fits(k)'
  <2>1. /\ Wav(<<k>>) # Work(<<k>>) /\ ~IsJoin(<<k>>) /\ Wav(<<k>>) \in Files
        /\ Source(k) \in OnDisk /\ Source(k) \notin Files
    BY SoundNames
  <2>2. ~Encoded(<<k>>)'
    <3>1. SUFFICES ASSUME NEW s \in Requests, request'[s].stage = "encoding",
                          Job(request'[s]) = w
                   PROVE  FALSE
      BY <1>9 DEF Encoded, Job
    <3>. QED  BY <1>1, <1>2, <3>1, AloneAfter DEF Busy
  <2>3. Played(<<k>>) = {}
    BY <2>1 DEF Played
  <2>4. Encoded(<<k>>)
    BY <1>1, <1>2, <1>9 DEF Encoded
  <2>5. k \notin masked => file'[Work(<<k>>)].old = {}
    BY <1>5, <1>9, <2>3, <2>4 DEF DiskInv, Fits, WorkFits
  <2>6. Stale(Wav(<<k>>), k)' => <<Wav(<<k>>), Source(k)>> \in age'
    <3>1. file'[Wav(<<k>>)] = file[Wav(<<k>>)]
      BY <1>5, <1>9, <2>1
    <3>2. Stale(Wav(<<k>>), k) => <<Wav(<<k>>), Source(k)>> \in age
      BY DEF DiskInv, Fits, WavFits
    <3>. QED  BY <1>2, <1>6, <1>7, <1>9, <2>1, <3>1, <3>2 DEF Stale, Wav
  <2>. QED  BY <1>2, <2>2, <2>5, <2>6
            DEF Fits, WavFits, WorkFits, DoneFits, Stale, Wav, Work, Source, IsJoin
<1>. QED  BY <1>2, <1>6, <1>8, <1>9 DEF DiskInv

\* A clip takes its name, and an eviction may follow.
LEMMA DiskClip ==
    ASSUME DiskInv, CInv, NEW r \in Requests, ClipEncoded(r)
    PROVE  DiskInv'
<1>1. PICK w \in Wishes : w = Job(request[r])
  BY JobIsWish DEF CInv, CTyped
<1>. DEFINE made == [file EXCEPT ![Wav(w)] = file[Work(w)], ![Work(w)] = Absent]
            aged == Renamed(age, Work(w), Wav(w))
<1>2. /\ CTyped /\ ~IsJoin(w) /\ request[r].stage = "written" /\ Becomes(r, "measuring")
      /\ UNCHANGED <<edits, masked, broken>> /\ Orders(age, OnDisk)
  BY <1>1 DEF CInv, ClipEncoded, DiskInv
<1>3. PICK gone \in Trimmed(w, made, aged) :
         /\ file' = Erased(made, gone) /\ age' = Without(aged, gone)
         /\ robbed' = robbed \cup Victims(gone)
  BY <1>1, Zenon DEF ClipEncoded
<1>4. gone \subseteq Files
  <2>1. CASE IsUrl(w)
    <3>1. \E empty : gone = Evicted(made, aged, empty)
      BY <1>3, <2>1 DEF Trimmed
    <3>. QED  BY <3>1 DEF Evicted
  <2>2. CASE ~IsUrl(w)
    <3>1. gone \in {{}}
      BY <1>3, <2>2 DEF Trimmed
    <3>. QED  BY <3>1
  <2>. QED  BY <2>1, <2>2
<1>5. robbed' \subseteq Requests
  BY <1>3 DEF Victims, DiskInv
<1>6. /\ Wav(w) \in Files /\ Work(w) \in Files /\ Wav(w) # Work(w)
      /\ file[Work(w)].state = "whole"
      /\ \A f \in Files :
            file'[f] = IF f \in gone \/ f = Work(w) THEN Absent
                       ELSE IF f = Wav(w) THEN file[Work(w)] ELSE file[f]
  <2>1. file' = Erased([file EXCEPT ![Wav(w)] = file[Work(w)], ![Work(w)] = Absent], gone)
    BY <1>3
  <2>2. w = Job(request[r]) /\ ClipEncoded(r) /\ CInv
    BY <1>1
  <2>. HIDE DEF made, aged
  <2>3. /\ Wav(w) \in Files /\ Work(w) \in Files /\ Wav(w) # Work(w)
        /\ file[Work(w)].state = "whole" /\ Moved(w, gone)
    BY <2>1, <2>2, ClipFiles
  <2>. QED  BY <2>3 DEF Moved
<1>. HIDE DEF made
<1>7. Work(w) \in OnDisk
  BY <1>6 DEF OnDisk, Present
<1>8. /\ Orders(aged, (OnDisk \ {Work(w)}) \cup {Wav(w)})
      /\ \A x \in OnDisk \ {Work(w), Wav(w)}, y \in OnDisk \ {Work(w), Wav(w)} :
            <<x, y>> \in age => <<x, y>> \in aged
      /\ \A y \in OnDisk \ {Work(w), Wav(w)} : <<Work(w), y>> \in age => <<Wav(w), y>> \in aged
  BY <1>2, <1>6, <1>7, RenamedOrders
<1>. HIDE DEF aged
<1>9. OnDisk' = ((OnDisk \ {Work(w)}) \cup {Wav(w)}) \ gone
  <2>1. LocalSources' = LocalSources /\ LocalSources \cap Files = {}
    BY SourceNames DEF LocalSources, Source
  <2>2. \A f \in Files : file'[f].state # "absent"
                            <=> f \notin gone /\ f # Work(w) /\ (f = Wav(w) \/ Present(f))
    BY <1>6 DEF Absent, Present
  <2>3. {f \in Files : Present(f)}' =
           (({f \in Files : Present(f)} \ {Work(w)}) \cup {Wav(w)}) \ gone
    BY <1>6, <2>2 DEF Present
  <2>. QED  BY <1>4, <1>6, <2>1, <2>3 DEF OnDisk
<1>10. /\ Orders(age', OnDisk')
       /\ \A x \in OnDisk', y \in OnDisk' : <<x, y>> \in aged => <<x, y>> \in age'
  BY <1>3, <1>8, <1>9, WithoutOrders
<1>11. \A f \in Files : file'[f].state # "absent" => f \in OnDisk'
  BY DEF OnDisk, Present
<1>12. ASSUME NEW k \in Sounds
       PROVE  Source(k) \in OnDisk' /\ Source(k) \in OnDisk \ {Work(w), Wav(w)}
  BY <1>4, <1>6, <1>9, SoundNames
<1>13. ASSUME NEW k \in Sounds, w # <<k>> PROVE Fits(k)'
  <2>1. (Encoded(<<k>>)' => Encoded(<<k>>)) /\ (Finishing(<<k>>)' => Finishing(<<k>>))
    BY <1>1, <1>2, StagesOf
  <2>2. /\ Wav(<<k>>) \in Files \ {Work(w), Wav(w)} /\ Work(<<k>>) \in Files \ {Work(w), Wav(w)}
    BY <1>1, <1>13, SoundNames
  <2>3. /\ file'[Wav(<<k>>)] \in {file[Wav(<<k>>)], Absent}
        /\ file'[Work(<<k>>)] \in {file[Work(<<k>>)], Absent}
    BY <1>6, <2>2
  <2>4. \A f \in Files \ {Work(w), Wav(w)} :
           file'[f].state # "absent" /\ <<f, Source(k)>> \in age => <<f, Source(k)>> \in age'
    BY <1>8, <1>9, <1>10, <1>11, <1>12
  <2>. QED  BY <1>2, <2>1, <2>2, <2>3, <2>4, FitsKept DEF DiskInv
<1>14. ASSUME NEW k \in Sounds, w = <<k>> PROVE Fits(k)'
  <2>1. Finishing(<<k>>)
    BY <1>1, <1>2, <1>14 DEF Finishing
  <2>2. file[Work(<<k>>)].old # {} /\ k \notin masked => <<Work(<<k>>), Source(k)>> \in age
    BY <1>6, <1>14, <2>1 DEF DiskInv, Fits, DoneFits, Stale
  <2>3. file'[Work(<<k>>)].state = "absent" /\ file'[Work(<<k>>)].old = {}
    BY <1>6, <1>14 DEF Absent
  <2>4. file'[Wav(<<k>>)].state # "absent" =>
           /\ file'[Wav(<<k>>)] = file[Work(<<k>>)]
           /\ <<Work(<<k>>), Source(k)>> \in age => <<Wav(<<k>>), Source(k)>> \in age'
    <3>1. SUFFICES ASSUME file'[Wav(<<k>>)].state # "absent"
                   PROVE  /\ file'[Wav(<<k>>)] = file[Work(<<k>>)]
                          /\ <<Work(<<k>>), Source(k)>> \in age => <<Wav(<<k>>), Source(k)>> \in age'
      OBVIOUS
    <3>2. file'[Wav(<<k>>)] = file[Work(<<k>>)]
      BY <1>6, <1>14, <3>1 DEF Absent
    <3>3. Wav(<<k>>) \in OnDisk'
      BY <1>6, <1>11, <1>14, <3>1
    <3>4. <<Work(<<k>>), Source(k)>> \in age => <<Wav(<<k>>), Source(k)>> \in aged
      BY <1>8, <1>12, <1>14
    <3>. QED  BY <1>10, <1>12, <3>2, <3>3, <3>4
  <2>. QED  BY <1>2, <2>2, <2>3, <2>4
            DEF Fits, WavFits, WorkFits, DoneFits, Stale, Wav, Work, Source, IsJoin
<1>15. masked' \subseteq Sounds /\ broken' \subseteq Wishes /\ edits' \in 0..MaxEdits
  BY <1>2 DEF DiskInv
<1>. QED  BY <1>5, <1>10, <1>13, <1>14, <1>15 DEF DiskInv

\* ffmpeg fails, and what it wrote may stay.
LEMMA DiskFails ==
    ASSUME DiskInv, CInv, NEW r \in Requests, EncodeFails(r)
    PROVE  DiskInv'
<1>1. PICK w \in Wishes : w = Job(request[r])
  BY JobIsWish DEF CInv, CTyped
<1>2. /\ CTyped /\ Becomes(r, "failed") /\ UNCHANGED <<edits, masked, robbed>>
      /\ broken' \subseteq Wishes
  BY <1>1 DEF CInv, EncodeFails, DiskInv
<1>3. PICK gone \in {{}, {Work(w)}} : file' = Erased(file, gone) /\ age' = Without(age, gone)
  BY <1>1 DEF EncodeFails
<1>4. gone \subseteq Files
  BY <1>3, WorkNames
<1>5. /\ Orders(age', OnDisk')
      /\ \A x \in OnDisk', y \in OnDisk' : <<x, y>> \in age => <<x, y>> \in age'
      /\ \A f \in Files : /\ file'[f] \in {file[f], Absent}
                          /\ file'[f].state # "absent" => f \in OnDisk'
  BY <1>3, <1>4, OrderWithout DEF DiskInv
<1>6. ASSUME NEW k \in Sounds PROVE Fits(k)'
  <2>1. (Encoded(<<k>>)' => Encoded(<<k>>)) /\ (Finishing(<<k>>)' => Finishing(<<k>>))
    BY <1>2, StagesOf
  <2>2. Source(k) \in OnDisk'
    <3>1. Source(k) \in LocalSources'
      BY DEF LocalSources, Source
    <3>. QED  BY <3>1 DEF OnDisk
  <2>. QED  BY <1>2, <1>5, <2>1, <2>2, FitsKept, SoundNames DEF DiskInv
<1>. QED  BY <1>2, <1>5, <1>6 DEF DiskInv

\* A sound takes its place among the rest, and whatever it does not look
\* younger than is masked.
LEMMA DiskEdit ==
    ASSUME DiskInv, CTyped, NEW k \in Sounds, Edit(k)
    PROVE  DiskInv'
<1>1. /\ Orders(age, OnDisk) /\ UNCHANGED <<request, lock, broken, robbed>>
      /\ masked' = (IF Masks(k, age') THEN masked \cup {k} ELSE masked \ {k})
      /\ edits' = edits + 1 /\ edits < MaxEdits /\ edits \in 0..MaxEdits
      /\ masked \subseteq Sounds /\ broken \subseteq Wishes /\ robbed \subseteq Requests
  BY DEF DiskInv, Edit
<1>2. PICK S \in Beginnings(Without(age, {Source(k)})) : age' = Dated(age, Source(k), S)
  BY DEF Edit
<1>3. \A f \in Files : file'[f].state = file[f].state /\ (~PlaysSound(f, k) => file'[f] = file[f])
  BY EditFiles
<1>4. OnDisk' = OnDisk /\ Source(k) \in OnDisk
  BY <1>3, SoundNames DEF OnDisk, Present, LocalSources, Source
<1>5. /\ Orders(age', OnDisk')
      /\ \A x \in OnDisk \ {Source(k)}, y \in OnDisk \ {Source(k)} :
            <<x, y>> \in age => <<x, y>> \in age'
  BY <1>1, <1>2, <1>4, DatedOrders
<1>6. \A w : (Encoded(w)' <=> Encoded(w)) /\ (Finishing(w)' <=> Finishing(w))
  BY <1>1 DEF Encoded, Finishing, Job
<1>7. ASSUME NEW j \in Sounds, j # k PROVE Fits(j)'
  <2>1. /\ Wav(<<j>>) \in Files /\ Work(<<j>>) \in Files /\ Work(<<j>>) = <<"tmp", <<j>>>>
        /\ Source(j) \in OnDisk /\ Source(k) \notin Files
    BY SoundNames
  <2>2. ~PlaysSound(Wav(<<j>>), k) /\ ~PlaysSound(Work(<<j>>), k)
    BY <1>7, <2>1 DEF PlaysSound, Wav
  <2>3. file'[Wav(<<j>>)] = file[Wav(<<j>>)] /\ file'[Work(<<j>>)] = file[Work(<<j>>)]
    BY <1>3, <2>1, <2>2
  <2>4. Source(j) # Source(k)
    BY <1>7, SourceNames
  <2>5. \A f \in Files : file[f].state # "absent" => f \in OnDisk
    BY DEF OnDisk, Present
  <2>6. j \in masked' <=> j \in masked
    BY <1>1, <1>7
  <2>7. \A f \in Files : file[f].state # "absent" /\ <<f, Source(j)>> \in age
                            => <<f, Source(j)>> \in age'
    BY <1>5, <2>1, <2>4, <2>5
  <2>. QED  BY <1>6, <2>1, <2>3, <2>6, <2>7, FitsKept DEF DiskInv
<1>8. Fits(k)'
  <2>1. CASE k \in masked'
    BY <2>1 DEF Fits, WavFits, WorkFits, DoneFits, Stale
  <2>2. CASE k \notin masked'
    <3>1. ~Masks(k, age')
      BY <1>1, <2>2
    <3>2. Wav(<<k>>) \in Files /\ Work(<<k>>) \in Files
      BY SoundNames
    <3>3. file'[Wav(<<k>>)].state # "absent" => <<Wav(<<k>>), Source(k)>> \in age'
      BY <1>3, <3>1, <3>2 DEF Masks, Present, Later
    <3>4. ~Encoded(<<k>>)
      BY <3>1 DEF Masks, Encoded
    <3>5. Finishing(<<k>>) /\ file'[Work(<<k>>)].state # "absent"
             => <<Work(<<k>>), Source(k)>> \in age'
      BY <1>3, <3>1, <3>2 DEF Masks, Finishing, Present, Later
    <3>. QED  BY <1>6, <3>3, <3>4, <3>5
              DEF Fits, WavFits, WorkFits, DoneFits, Stale, Wav, Work, Source, IsJoin
  <2>. QED  BY <2>1, <2>2
<1>9. edits' \in 0..MaxEdits
  BY <1>1, CacheAssumption
<1>10. masked' \subseteq Sounds
  BY <1>1
<1>. QED  BY <1>1, <1>5, <1>7, <1>8, <1>9, <1>10 DEF DiskInv

\* Everything but the files: what a request asks, waits for and is told.
LEMMA DiskAsks ==
    ASSUME DiskInv, CInv, NEW r \in Requests,
           Ask(r) \/ Fetched(r) \/ Joined(r) \/ RenameFails(r) \/ Probed(r) \/ Measured(r)
              \/ Opens(r)
    PROVE  DiskInv'
<1>1. /\ CTyped /\ request \in [Requests -> RequestType] /\ WellFormed(request[r])
      /\ UNCHANGED <<file, age, edits, masked, broken, robbed>>
      /\ broken \subseteq Wishes /\ robbed \subseteq Requests
  BY DEF CInv, CTyped, DiskInv, Ask, Fetched, Joined, RenameFails, Probed, Measured, Opens,
         observations
<1>2. \E q : request' = [request EXCEPT ![r] = q] /\ q.stage \notin {"encoding", "written"}
  <2>1. CASE Ask(r)
    <3>1. PICK w \in Wishes : \E q \in Begun([request[r] EXCEPT !.wish = w]) :
             request' = [request EXCEPT ![r] = q]
      BY <2>1 DEF Ask
    <3>. DEFINE n == [request[r] EXCEPT !.wish = w]
    <3>2. n \in RequestType /\ n.wish = w /\ n.done = request[r].done
      BY <1>1 DEF RequestType
    <3>3. WellFormed(n)
      BY <1>1, <2>1, <3>2, WishParts DEF Ask, WellFormed
    <3>4. PICK q \in Begun(n) : request' = [request EXCEPT ![r] = q]
      BY <3>1
    <3>. HIDE DEF n
    <3>5. ~Busy(q)
      BY <3>3, <3>4, BegunWellFormed
    <3>. QED  BY <3>4, <3>5 DEF Busy
  <2>2. CASE Probed(r) \/ Measured(r)
    <3>1. PICK q \in Durations(request[r]) : request' = [request EXCEPT ![r] = q]
      BY <2>2 DEF Probed, Measured
    <3>2. ~Busy(q)
      BY <1>1, <2>2, <3>1, DurationsWellFormed DEF CTyped, Probed, Measured
    <3>. QED  BY <3>1, <3>2 DEF Busy
  <2>3. CASE Fetched(r) \/ Joined(r) \/ RenameFails(r) \/ Opens(r)
    <3>1. PICK stage \in {"locking", "measuring", "failed", "playing", "silent"} :
             Becomes(r, stage)
      BY <2>3 DEF Fetched, Joined, RenameFails, Opens
    <3>2. [request[r] EXCEPT !.stage = stage].stage = stage
      BY <1>1 DEF RequestType
    <3>. QED  BY <3>1, <3>2 DEF Becomes
  <2>. QED  BY <2>1, <2>2, <2>3
<1>3. \A s \in Requests : request'[s].stage \in {"encoding", "written"}
                             => request'[s] = request[s]
  BY <1>1, <1>2
<1>. QED  BY <1>1, <1>3, DiskQuiet

\* A restart: nothing is being written any more, and what is there stays.
LEMMA DiskRestart ==
    ASSUME DiskInv, CInv, Restart
    PROVE  DiskInv'
<1>1. CTyped /\ UNCHANGED <<file, age, edits, masked, robbed>> /\ robbed \subseteq Requests
  BY DEF CInv, Restart, DiskInv
<1>2. broken' \subseteq Wishes
  <2>1. \A r \in Requests : Job(request[r]) \in Wishes
    BY <1>1, JobIsWish DEF CTyped
  <2>. QED  BY <2>1 DEF Restart, DiskInv
<1>3. ASSUME NEW s \in Requests, request'[s].stage \in {"encoding", "written"}
      PROVE  request'[s] = request[s]
  <2>1. request'[s] = IF request[s].stage \in Settled THEN request[s]
                      ELSE [request[s] EXCEPT !.stage = "lost"]
    BY DEF Restart
  <2>2. [request[s] EXCEPT !.stage = "lost"].stage = "lost"
    BY <1>1 DEF CTyped, RequestType
  <2>. QED  BY <1>3, <2>1, <2>2
<1>. QED  BY <1>1, <1>2, <1>3, DiskQuiet

LEMMA DiskStep ==
    ASSUME DiskInv, CInv, [CacheNext]_cacheVars
    PROVE  DiskInv'
<1>1. CASE UNCHANGED cacheVars
  BY <1>1, DiskQuiet DEF cacheVars, observations, DiskInv
<1>. QED  BY <1>1, DiskAsks, DiskAcquire, DiskWrites, DiskFfmpegEnds, DiskClip, DiskFails,
             DiskEdit, DiskRestart DEF CacheNext, CInv

LEMMA DiskStart ==
    ASSUME CacheInit
    PROVE  DiskInv
<1>1. \A f \in Files : file[f].state = "absent" /\ file[f].old = {}
  BY DEF CacheInit, Absent
<1>2. OnDisk = LocalSources
  BY <1>1 DEF OnDisk, Present
<1>3. \A k \in Sounds : Fits(k)
  BY <1>1, SoundNames DEF Fits, WavFits, WorkFits, DoneFits, Stale
<1>. QED  BY <1>2, <1>3, CacheAssumption DEF DiskInv, CacheInit

(***************************************************************************)
(* What a page was promised.  Once a request has looked for its file, the  *)
(* file is whole, or a half known to be broken, or an eviction has taken   *)
(* it; and whoever writes a join in its place has seen it gone before, so  *)
(* whoever was promised the former one had been robbed of it.              *)
(***************************************************************************)
Kept(w, r) ==
    file[Wav(w)].state = "whole" \/ r \in robbed \/ (file[Wav(w)].state = "half" /\ w \in broken)

Kind(r) == request[r].stage
OnWish(r) == Job(request[r]) = request[r].wish

Promise(r) ==
    /\ Kind(r) = "ready" => OnWish(r)
    /\ Kind(r) \in {"probing", "measuring", "ready"} /\ OnWish(r) => Kept(request[r].wish, r)
    /\ Kind(r) \in {"encoding", "written"} /\ OnWish(r) /\ IsJoin(request[r].wish)
          => r \in robbed \/ file[Wav(request[r].wish)].state # "absent"
    /\ Kind(r) = "encoding" /\ OnWish(r) /\ IsJoin(request[r].wish)
          => request[r].wish \notin broken /\ file[Wav(request[r].wish)].state # "whole"

Promises == \A r \in Requests : Promise(r)

\* Who works on a join works on all it wishes for.
LEMMA JoinIsWish ==
    ASSUME NEW q, WellFormed(q), IsJoin(Job(q))
    PROVE  Job(q) = q.wish
<1>1. SUFFICES ASSUME q.done < Len(q.wish) PROVE FALSE
  BY DEF Job
<1>2. Job(q) = <<q.wish[q.done + 1]>>
  BY <1>1 DEF Job
<1>3. Len(Job(q)) = 1
  BY <1>2
<1>. QED  BY <1>3 DEF IsJoin

\* A request that neither acts nor sees its file change keeps its promise.
LEMMA Undisturbed ==
    ASSUME NEW s \in Requests, Promise(s), request'[s] = request[s],
           s \in robbed => s \in robbed',
           NEW w, w = request[s].wish,
           \/ ~OnWish(s)
           \/ Kind(s) \in Settled \cup {"fetching", "locking"}
           \/ /\ s \in robbed'
              /\ Kind(s) = "encoding" => ~IsJoin(w)
           \/ /\ s \in robbed' /\ w \notin broken' /\ file'[Wav(w)].state # "whole"
           \/ /\ file'[Wav(w)].state = file[Wav(w)].state
              /\ w \in broken <=> w \in broken'
           \/ /\ file'[Wav(w)].state \in {file[Wav(w)].state, "whole"}
              /\ w \in broken => w \in broken'
              /\ Kind(s) = "encoding" => ~IsJoin(w)
    PROVE  Promise(s)'
<1>1. /\ request'[s].stage = request[s].stage /\ request'[s].wish = w
      /\ Job(request'[s]) = Job(request[s])
  OBVIOUS
<1>2. OnWish(s)' <=> OnWish(s)
  BY <1>1 DEF OnWish, Job
<1>3. Kind(s)' = Kind(s)
  BY <1>1 DEF Kind
<1>4. Kind(s) = "ready" => OnWish(s)
  BY DEF Promise
<1>5. ASSUME Kind(s) \in {"probing", "measuring", "ready"}, OnWish(s)
      PROVE  \/ file'[Wav(w)].state = "whole" \/ s \in robbed'
             \/ file'[Wav(w)].state = "half" /\ w \in broken'
  <2>1. file[Wav(w)].state = "whole" \/ s \in robbed \/ (file[Wav(w)].state = "half" /\ w \in broken)
    BY <1>5 DEF Promise, Kept
  <2>. QED  BY <1>5, <2>1 DEF Settled
<1>6. ASSUME Kind(s) \in {"encoding", "written"}, OnWish(s), IsJoin(w)
      PROVE  s \in robbed' \/ file'[Wav(w)].state # "absent"
  <2>1. s \in robbed \/ file[Wav(w)].state # "absent"
    BY <1>6 DEF Promise
  <2>. QED  BY <1>6, <2>1 DEF Settled
<1>7. ASSUME Kind(s) = "encoding", OnWish(s), IsJoin(w)
      PROVE  w \notin broken' /\ file'[Wav(w)].state # "whole"
  <2>1. w \notin broken /\ file[Wav(w)].state # "whole"
    BY <1>7 DEF Promise
  <2>. QED  BY <1>7, <2>1 DEF Settled
<1>. QED  BY <1>1, <1>2, <1>3, <1>4, <1>5, <1>6, <1>7 DEF Promise, Kept, Wav, IsJoin

\* What a job that begins, or one that is measured, may become.
LEMMA BegunKinds ==
    ASSUME NEW q, WellFormed(q), NEW p \in Begun(q)
    PROVE  /\ p.stage \in {"fetching", "locking", "ready", "failed"}
           /\ p.wish = q.wish /\ p.done = q.done
           /\ p.stage = "ready" => q.done = 1 /\ Len(q.wish) = 1
<1>1. \/ p = [q EXCEPT !.stage = "ready"] /\ q.done = 1 /\ Len(q.wish) = 1
      \/ p = [q EXCEPT !.stage = "fetching"] \/ p = [q EXCEPT !.stage = "locking"]
      \/ p = [q EXCEPT !.stage = "failed"]
  <2>1. CASE q.done = 1 /\ Len(q.wish) = 1
    BY <2>1, Zenon DEF Begun
  <2>2. CASE ~(q.done = 1 /\ Len(q.wish) = 1)
    <3>. DEFINE s == [q EXCEPT !.stage = IF IsUrl(Job(q)) THEN "fetching" ELSE "locking"]
    <3>1. s = [q EXCEPT !.stage = "fetching"] \/ s = [q EXCEPT !.stage = "locking"]
      <4>1. CASE IsUrl(Job(q))
        BY <4>1, Zenon
      <4>2. CASE ~IsUrl(Job(q))
        BY <4>2, Zenon
      <4>. QED  BY <4>1, <4>2
    <3>2. p = s \/ p = [q EXCEPT !.stage = "failed"]
      <4>1. CASE q.done < Len(q.wish) /\ ~IsUrl(Job(q))
        BY <2>2, <4>1, Zenon DEF Begun
      <4>2. CASE ~(q.done < Len(q.wish) /\ ~IsUrl(Job(q)))
        BY <2>2, <4>2, Zenon DEF Begun
      <4>. QED  BY <4>1, <4>2
    <3>. HIDE DEF s
    <3>. QED  BY <3>1, <3>2
  <2>. QED  BY <2>1, <2>2
<1>2. q \in RequestType
  BY DEF WellFormed
<1>. QED  BY <1>1, <1>2 DEF RequestType

LEMMA DurationsKinds ==
    ASSUME NEW q, WellFormed(q), q.stage # "new", NEW p \in Durations(q),
           file \in [Files -> FileType]
    PROVE  /\ p.stage \in {"fetching", "locking", "ready", "failed"}
           /\ p.stage = "ready" => Job(q) = q.wish /\ p.wish = q.wish /\ Job(p) = p.wish
<1>1. Wav(Job(q)) \in Files
  BY JobIsWish, WavNames
<1>2. file[Wav(Job(q))].state \in {"absent", "half", "whole"}
  BY <1>1 DEF FileType
<1>3. p \in Got(q) \/ p = [q EXCEPT !.stage = "failed"]
  <2>1. CASE file[Wav(Job(q))].state = "absent"
    BY <2>1, Zenon DEF Durations
  <2>2. CASE file[Wav(Job(q))].state = "half"
    BY <2>2, Zenon DEF Durations
  <2>3. CASE file[Wav(Job(q))].state = "whole"
    BY <2>3, Zenon DEF Durations
  <2>. QED  BY <1>2, <2>1, <2>2, <2>3
<1>4. /\ q \in RequestType /\ q.wish \in Wishes /\ q.done \in 0..2 /\ q.done <= Len(q.wish)
      /\ Len(q.wish) \in 1..2
  <2>1. q \in RequestType /\ q.wish \in Wishes /\ q.done \in 0..2 /\ q.done <= Len(q.wish)
    BY DEF WellFormed, RequestType
  <2>. QED  BY <2>1, WishParts
<1>5. CASE p = [q EXCEPT !.stage = "failed"]
  BY <1>4, <1>5 DEF RequestType
<1>6. CASE p \in Got(q) /\ q.done = Len(q.wish)
  <2>1. p = [q EXCEPT !.stage = "ready"]
    BY <1>6 DEF Got
  <2>2. p.stage = "ready" /\ p.wish = q.wish /\ p.done = q.done
    BY <1>4, <2>1 DEF RequestType
  <2>3. Job(q) = q.wish /\ Job(p) = p.wish
    BY <1>4, <1>6, <2>2 DEF Job
  <2>. QED  BY <2>2, <2>3
<1>7. CASE p \in Got(q) /\ q.done # Len(q.wish)
  <2>. DEFINE n == [q EXCEPT !.done = @ + 1]
  <2>1. p \in Begun(n)
    BY <1>7, Zenon DEF Got
  <2>2. q.done + 1 \in 0..2 /\ q.done + 1 <= Len(q.wish)
    <3>. DEFINE done == q.done
                len == Len(q.wish)
    <3>1. done \in 0..2 /\ len \in 1..2 /\ done <= len /\ done # len
      BY <1>4, <1>7
    <3>. HIDE DEF done, len
    <3>2. done + 1 \in 0..2 /\ done + 1 <= len
      BY <3>1
    <3>. QED  BY <3>2 DEF done, len
  <2>3. n.done = q.done + 1 /\ n.wish = q.wish /\ n.stage = q.stage /\ n \in RequestType
    BY <1>4, <2>2 DEF RequestType
  <2>4. WellFormed(n)
    BY <2>2, <2>3 DEF WellFormed
  <2>. HIDE DEF n
  <2>5. /\ p.stage \in {"fetching", "locking", "ready", "failed"}
        /\ p.wish = n.wish /\ p.done = n.done
        /\ p.stage = "ready" => n.done = 1 /\ Len(n.wish) = 1
    BY <2>1, <2>4, BegunKinds
  <2>6. ASSUME p.stage = "ready" PROVE Job(q) = q.wish /\ p.wish = q.wish /\ Job(p) = p.wish
    <3>1. p.wish = q.wish /\ p.done = 1 /\ Len(q.wish) = 1 /\ q.done + 1 = 1
      BY <2>3, <2>5, <2>6
    <3>2. q.done = 0
      BY <1>4, <3>1
    <3>3. PICK k \in Sources : q.wish = <<k>>
      <4>1. \A c, k : Len(<<c, k>>) = 2
        OBVIOUS
      <4>. QED  BY <1>4, <3>1, <4>1, WishShape
    <3>4. Job(q) = <<q.wish[1]>>
      BY <3>1, <3>2 DEF Job
    <3>5. Job(p) = p.wish
      BY <3>1 DEF Job
    <3>. QED  BY <3>1, <3>3, <3>4, <3>5
  <2>. QED  BY <2>5, <2>6
<1>. QED  BY <1>3, <1>5, <1>6, <1>7

\* A request whose stage promises nothing.
LEMMA NothingPromised ==
    ASSUME NEW r \in Requests, request'[r].stage \in Settled \cup {"fetching", "locking"}
    PROVE  Promise(r)'
<1>1. Kind(r)' \in Settled \cup {"fetching", "locking"}
  BY DEF Kind
<1>. QED  BY <1>1 DEF Promise, Settled

\* The lock is taken: what was promised of a join that is begun again had
\* been taken away.
LEMMA PromiseAcquire ==
    ASSUME Promises, CInv, NEW r \in Requests, Acquire(r)
    PROVE  Promises'
<1>1. PICK w \in Wishes : w = Job(request[r])
  BY JobIsWish DEF CInv, CTyped
<1>2. /\ CTyped /\ request[r].stage = "locking" /\ lock[w] = Nobody /\ robbed' = robbed \ {r}
      /\ file \in [Files -> FileType]
  BY <1>1 DEF CInv, CTyped, Acquire, LockFree
<1>3. \/ /\ Hit(w) /\ Becomes(r, "probing") /\ UNCHANGED <<file, broken>>
      \/ /\ ~Hit(w) /\ Becomes(r, "encoding") /\ broken' = broken \ {w}
         /\ file' = [file EXCEPT ![Work(w)] = [state |-> "half", old |-> {}]]
  BY <1>1, Zenon DEF Acquire
<1>4. PICK stage \in {"probing", "encoding"} : Becomes(r, stage)
  BY <1>3
<1>5. /\ \A s \in Requests : WellFormed(request[s]) /\ Job(request[s]) \in Wishes
      /\ \A s \in Requests : s # r => request'[s] = request[s]
      /\ request'[r].stage = stage /\ Job(request'[r]) = w
  BY <1>1, <1>2, <1>4, BecomesOf, JobIsWish DEF CTyped
<1>6. Work(w) \in Files /\ Wav(w) \in Files /\ (IsJoin(w) => Work(w) = Wav(w))
      /\ (~IsJoin(w) => \A v : Work(w) # Wav(v))
  BY WorkNames, WavNames
<1>7. ASSUME NEW s \in Requests, s # r PROVE Promise(s)'
  <2>1. Promise(s) /\ request'[s] = request[s] /\ (s \in robbed => s \in robbed')
    BY <1>2, <1>5, <1>7 DEF Promises
  <2>2. CASE UNCHANGED <<file, broken>>
    BY <2>1, <2>2, Undisturbed
  <2>3. CASE /\ ~Hit(w) /\ broken' = broken \ {w}
             /\ file' = [file EXCEPT ![Work(w)] = [state |-> "half", old |-> {}]]
    <3>1. PICK v : v = request[s].wish
      OBVIOUS
    <3>2. v \in Wishes /\ Wav(v) \in Files
      <4>1. v \in Wishes
        BY <1>5, <3>1 DEF WellFormed, RequestType
      <4>. QED  BY <4>1, WavNames
    <3>3. CASE ~OnWish(s) \/ Kind(s) \in Settled \cup {"fetching", "locking"}
      BY <2>1, <3>1, <3>3, Undisturbed
    <3>4. CASE v # w
      <4>1. Work(w) # Wav(v)
        BY <1>6, <3>2, <3>4, WavNames
      <4>2. file'[Wav(v)] = file[Wav(v)] /\ (v \in broken <=> v \in broken')
        BY <1>2, <2>3, <3>2, <3>4, <4>1
      <4>. QED  BY <2>1, <3>1, <4>2, Undisturbed
    <3>5. CASE v = w /\ OnWish(s) /\ Kind(s) \notin Settled \cup {"fetching", "locking"}
      <4>1. Job(request[s]) = w
        BY <3>1, <3>5 DEF OnWish
      <4>2. ~Busy(request[s])
        BY <1>1, <1>2, <1>7, <4>1, Alone
      <4>3. Kind(s) \in {"measuring", "ready"}
        <5>1. request[s] \in RequestType
          BY <1>5 DEF WellFormed
        <5>. QED  BY <3>5, <4>2, <5>1 DEF Kind, Busy, RequestType, Settled
      <4>4. file[Wav(w)].state = "whole" \/ s \in robbed
               \/ (file[Wav(w)].state = "half" /\ w \in broken)
        BY <2>1, <3>1, <3>5, <4>3 DEF Promise, Kept
      <4>5. CASE IsJoin(w)
        <5>1. file[Wav(w)].state = "absent"
          BY <2>3, <4>5 DEF Hit, Present
        <5>2. file'[Wav(w)] = [state |-> "half", old |-> {}]
          BY <1>2, <1>6, <2>3, <4>5
        <5>3. s \in robbed' /\ file'[Wav(w)].state # "whole" /\ w \notin broken'
          BY <2>1, <2>3, <4>4, <5>1, <5>2
        <5>. QED  BY <2>1, <3>1, <3>5, <5>3, Undisturbed
      <4>6. CASE ~IsJoin(w)
        <5>1. file'[Wav(w)] = file[Wav(w)]
          BY <1>2, <1>6, <2>3, <4>6
        <5>2. file[Wav(w)].state # "half"
          <6>1. PICK k \in Sources : w = <<k>>
            BY <4>6, WishShape DEF IsJoin
          <6>. QED  BY <6>1 DEF CInv, ClipsAreWhole
        <5>3. s \in robbed' \/ file'[Wav(w)].state = "whole"
          BY <2>1, <4>4, <5>1, <5>2
        <5>4. Kind(s)' \in {"measuring", "ready"} /\ OnWish(s)' /\ request'[s].wish = w
          BY <2>1, <3>1, <3>5, <4>3 DEF Kind, OnWish, Job
        <5>. QED  BY <5>3, <5>4 DEF Promise, Kept, Wav
      <4>. QED  BY <4>5, <4>6
    <3>. QED  BY <3>3, <3>4, <3>5
  <2>. QED  BY <1>3, <2>2, <2>3
<1>8. Promise(r)'
  <2>1. CASE Hit(w) /\ Becomes(r, "probing") /\ UNCHANGED <<file, broken>>
    <3>1. request'[r].stage = "probing"
      BY <1>2, <2>1, BecomesOf
    <3>2. file'[Wav(w)].state = "whole" \/ (file'[Wav(w)].state = "half" /\ w \in broken')
      <4>1. file[Wav(w)].state \in {"half", "whole"}
        <5>1. file[Wav(w)].state \in {"absent", "half", "whole"}
          BY <1>2, <1>6 DEF FileType
        <5>. QED  BY <2>1, <5>1 DEF Hit, Present
      <4>2. ASSUME file[Wav(w)].state = "half" PROVE w \in broken
        <5>1. IsJoin(w)
          <6>1. SUFFICES ASSUME ~IsJoin(w) PROVE FALSE
            OBVIOUS
          <6>2. PICK k \in Sources : w = <<k>>
            BY <6>1, WishShape DEF IsJoin
          <6>. QED  BY <4>2, <6>2 DEF CInv, ClipsAreWhole
        <5>2. ~Encoded(w)
          <6>1. SUFFICES ASSUME NEW s \in Requests, request[s].stage = "encoding",
                                Job(request[s]) = w
                         PROVE  FALSE
            BY DEF Encoded
          <6>. QED  BY <1>2, <6>1, CacheAssumption DEF CInv, Guarded, Busy
        <5>. QED  BY <4>2, <5>1, <5>2 DEF CInv, HalfJoins
      <4>. QED  BY <2>1, <4>1, <4>2
    <3>3. OnWish(r)' => request'[r].wish = w
      BY <1>5 DEF OnWish, Job
    <3>4. Kind(r)' = "probing"
      BY <3>1 DEF Kind
    <3>. QED  BY <3>2, <3>3, <3>4 DEF Promise, Kept, Wav
  <2>2. CASE /\ Becomes(r, "encoding") /\ broken' = broken \ {w}
             /\ file' = [file EXCEPT ![Work(w)] = [state |-> "half", old |-> {}]]
    <3>1. Kind(r)' = "encoding"
      BY <1>2, <2>2, BecomesOf DEF Kind
    <3>2. OnWish(r)' => request'[r].wish = w
      BY <1>5 DEF OnWish, Job
    <3>3. IsJoin(w) => file'[Wav(w)].state = "half"
      <4>1. IsJoin(w) => file'[Wav(w)] = [state |-> "half", old |-> {}]
        BY <1>2, <1>6, <2>2
      <4>. QED  BY <4>1
    <3>4. w \notin broken'
      BY <2>2
    <3>. QED  BY <3>1, <3>2, <3>3, <3>4 DEF Promise, Wav, IsJoin
  <2>. QED  BY <1>3, <2>1, <2>2
<1>. QED  BY <1>7, <1>8 DEF Promises

\* ffmpeg ends.
LEMMA PromiseEnds ==
    ASSUME Promises, CInv, NEW r \in Requests, FfmpegEnds(r)
    PROVE  Promises'
<1>1. PICK w \in Wishes : w = Job(request[r])
  BY JobIsWish DEF CInv, CTyped
<1>2. /\ CTyped /\ request[r].stage = "encoding" /\ Becomes(r, "written") /\ robbed' = robbed
      /\ file \in [Files -> FileType]
  BY <1>1 DEF CInv, CTyped, FfmpegEnds
<1>3. \/ /\ file' = [file EXCEPT ![Work(w)] = [state |-> "whole", old |-> @.old \cup Played(w)]]
         /\ broken' = broken
      \/ file' = file /\ broken' = broken \cup {w}
      \/ file' = file /\ broken' = broken
  BY <1>1 DEF FfmpegEnds
<1>4. /\ \A s \in Requests : WellFormed(request[s])
      /\ \A s \in Requests : s # r => request'[s] = request[s]
      /\ request'[r].stage = "written" /\ Job(request'[r]) = w
      /\ request'[r].wish = request[r].wish
  <2>1. request'[r].wish = request[r].wish
    BY <1>2 DEF CTyped, Becomes, RequestType
  <2>. QED  BY <1>1, <1>2, <2>1, BecomesOf DEF CTyped
<1>5. Work(w) \in Files /\ Wav(w) \in Files /\ (IsJoin(w) => Work(w) = Wav(w))
      /\ (~IsJoin(w) => \A v : Work(w) # Wav(v))
  BY WorkNames, WavNames
<1>6. /\ \A f \in Files : file'[f].state \in {file[f].state, "whole"}
      /\ \A f \in Files : f # Work(w) => file'[f] = file[f]
  <2>1. CASE file' = [file EXCEPT ![Work(w)] = [state |-> "whole", old |-> @.old \cup Played(w)]]
    <3>1. file'[Work(w)] = [state |-> "whole", old |-> file[Work(w)].old \cup Played(w)]
      BY <1>2, <1>5, <2>1
    <3>2. file'[Work(w)].state = "whole"
      BY <3>1
    <3>. QED  BY <1>2, <2>1, <3>2
  <2>. QED  BY <1>3, <2>1
<1>7. broken \subseteq broken' /\ broken' \subseteq broken \cup {w}
  BY <1>3
<1>8. ASSUME NEW s \in Requests, s # r PROVE Promise(s)'
  <2>1. PICK v : v = request[s].wish
    OBVIOUS
  <2>2. v \in Wishes /\ Wav(v) \in Files
    <3>1. v \in Wishes
      BY <1>4, <2>1 DEF WellFormed, RequestType
    <3>. QED  BY <3>1, WavNames
  <2>3. Promise(s) /\ request'[s] = request[s] /\ (s \in robbed => s \in robbed')
    BY <1>2, <1>4, <1>8 DEF Promises
  <2>4. CASE v # w
    <3>1. Work(w) # Wav(v)
      BY <1>5, <2>2, <2>4, WavNames
    <3>2. file'[Wav(v)] = file[Wav(v)] /\ (v \in broken <=> v \in broken')
      BY <1>6, <1>7, <2>2, <2>4, <3>1
    <3>. QED  BY <2>1, <2>3, <3>2, Undisturbed
  <2>5. CASE v = w /\ ~OnWish(s)
    BY <2>1, <2>3, <2>5, Undisturbed
  <2>6. CASE v = w /\ OnWish(s)
    <3>1. Kind(s) # "encoding"
      BY <1>1, <1>2, <1>8, <2>1, <2>6, Alone DEF Kind, OnWish, Busy
    <3>2. file'[Wav(v)].state \in {file[Wav(v)].state, "whole"} /\ (v \in broken => v \in broken')
      BY <1>6, <1>7, <2>2
    <3>. QED  BY <2>1, <2>3, <3>1, <3>2, Undisturbed
  <2>. QED  BY <2>4, <2>5, <2>6
<1>9. Promise(r)'
  <2>1. Kind(r)' = "written" /\ (OnWish(r)' <=> OnWish(r)) /\ request'[r].wish = request[r].wish
    BY <1>1, <1>4 DEF Kind, OnWish, Job
  <2>2. ASSUME OnWish(r), IsJoin(w)
        PROVE  r \in robbed \/ file[Wav(w)].state # "absent"
    BY <1>1, <1>2, <2>2 DEF Promises, Promise, Kind, OnWish
  <2>3. ASSUME OnWish(r), IsJoin(w)
        PROVE  r \in robbed' \/ file'[Wav(w)].state # "absent"
    BY <1>2, <1>5, <1>6, <2>2, <2>3
  <2>. QED  BY <1>1, <2>1, <2>3 DEF Promise, OnWish, Wav, IsJoin
<1>. QED  BY <1>8, <1>9 DEF Promises

\* A clip takes its name: who had been promised what the eviction takes is
\* robbed of it.
LEMMA PromiseClip ==
    ASSUME Promises, CInv, NEW r \in Requests, ClipEncoded(r)
    PROVE  Promises'
<1>1. PICK w \in Wishes : w = Job(request[r])
  BY JobIsWish DEF CInv, CTyped
<1>2. /\ CTyped /\ request[r].stage = "written" /\ Becomes(r, "measuring") /\ ~IsJoin(w)
      /\ broken' = broken
  BY <1>1 DEF CInv, ClipEncoded
<1>. DEFINE made == [file EXCEPT ![Wav(w)] = file[Work(w)], ![Work(w)] = Absent]
            aged == Renamed(age, Work(w), Wav(w))
<1>3. PICK gone \in Trimmed(w, made, aged) :
         file' = Erased(made, gone) /\ robbed' = robbed \cup Victims(gone)
  BY <1>1, Zenon DEF ClipEncoded
<1>4. Moved(w, gone) /\ file[Work(w)].state = "whole" /\ Wav(w) \in Files
  <2>1. file' = Erased([file EXCEPT ![Wav(w)] = file[Work(w)], ![Work(w)] = Absent], gone)
    BY <1>3
  <2>2. w = Job(request[r]) /\ ClipEncoded(r) /\ CInv
    BY <1>1
  <2>. HIDE DEF made, aged
  <2>. QED  BY <2>1, <2>2, ClipFiles
<1>. HIDE DEF made, aged
<1>5. /\ \A s \in Requests : WellFormed(request[s])
      /\ \A s \in Requests : s # r => request'[s] = request[s]
      /\ request'[r].stage = "measuring" /\ Job(request'[r]) = w
      /\ request'[r].wish = request[r].wish
  <2>1. request'[r].wish = request[r].wish
    BY <1>2 DEF CTyped, Becomes, RequestType
  <2>. QED  BY <1>1, <1>2, <2>1, BecomesOf DEF CTyped
<1>6. \A s \in Requests : request[s].stage \notin Settled /\ Wav(request[s].wish) \in gone
                             => s \in robbed'
  BY <1>3 DEF Victims
<1>7. Absent.state = "absent"
  BY DEF Absent
<1>8. ASSUME NEW s \in Requests, s # r PROVE Promise(s)'
  <2>1. PICK v : v = request[s].wish
    OBVIOUS
  <2>2. v \in Wishes /\ Wav(v) \in Files /\ Work(w) # Wav(v)
    <3>1. v \in Wishes
      BY <1>5, <2>1 DEF WellFormed, RequestType
    <3>. QED  BY <1>2, <3>1, WavNames, WorkNames
  <2>3. Promise(s) /\ request'[s] = request[s] /\ (s \in robbed => s \in robbed')
    BY <1>3, <1>5, <1>8 DEF Promises
  <2>4. CASE Wav(v) \in gone
    <3>1. CASE Kind(s) \in Settled
      BY <2>1, <2>3, <3>1, Undisturbed
    <3>2. CASE Kind(s) \notin Settled
      <4>1. s \in robbed'
        BY <1>6, <2>1, <2>4, <3>2 DEF Kind
      <4>2. file'[Wav(v)].state = "absent"
        BY <1>4, <1>7, <2>2, <2>4 DEF Moved
      <4>3. CASE v \notin broken
        <5>1. v \notin broken' /\ file'[Wav(v)].state # "whole"
          BY <1>2, <4>2, <4>3
        <5>. QED  BY <2>1, <2>3, <4>1, <5>1, Undisturbed
      <4>4. CASE v \in broken
        <5>1. CASE OnWish(s)
          <6>1. Kind(s) = "encoding" => ~IsJoin(v)
            BY <2>1, <2>3, <4>4, <5>1 DEF Promise
          <6>. QED  BY <2>1, <2>3, <4>1, <6>1, Undisturbed
        <5>2. CASE ~OnWish(s)
          BY <2>1, <2>3, <5>2, Undisturbed
        <5>. QED  BY <5>1, <5>2
      <4>. QED  BY <4>3, <4>4
    <3>. QED  BY <3>1, <3>2
  <2>5. CASE Wav(v) \notin gone /\ v = w
    <3>1. file'[Wav(v)].state = "whole" /\ ~IsJoin(v)
      BY <1>2, <1>4, <2>2, <2>5 DEF Moved
    <3>2. v \in broken => v \in broken'
      BY <1>2
    <3>. QED  BY <2>1, <2>3, <3>1, <3>2, Undisturbed
  <2>6. CASE Wav(v) \notin gone /\ v # w
    <3>1. Wav(v) # Wav(w)
      BY <2>2, <2>6, WavNames
    <3>2. file'[Wav(v)] = file[Wav(v)] /\ (v \in broken <=> v \in broken')
      BY <1>2, <1>4, <2>2, <2>6, <3>1 DEF Moved
    <3>. QED  BY <2>1, <2>3, <3>2, Undisturbed
  <2>. QED  BY <2>4, <2>5, <2>6
<1>9. Promise(r)'
  <2>1. Kind(r)' = "measuring" /\ (OnWish(r)' <=> OnWish(r)) /\ request'[r].wish = request[r].wish
    BY <1>1, <1>5 DEF Kind, OnWish, Job
  <2>2. ASSUME OnWish(r) PROVE file'[Wav(w)].state = "whole" \/ r \in robbed'
    <3>1. CASE Wav(w) \in gone
      BY <1>1, <1>2, <1>6, <2>2, <3>1 DEF OnWish, Settled
    <3>2. CASE Wav(w) \notin gone
      <4>1. Wav(w) # Work(w)
        BY <1>2, WorkNames
      <4>. QED  BY <1>4, <3>2, <4>1 DEF Moved
    <3>. QED  BY <3>1, <3>2
  <2>. QED  BY <1>1, <2>1, <2>2 DEF Promise, Kept, OnWish, Wav, IsJoin
<1>. QED  BY <1>8, <1>9 DEF Promises

\* ffmpeg fails: nobody else is promised what it had begun.
LEMMA PromiseFails ==
    ASSUME Promises, CInv, NEW r \in Requests, EncodeFails(r)
    PROVE  Promises'
<1>1. PICK w \in Wishes : w = Job(request[r])
  BY JobIsWish DEF CInv, CTyped
<1>2. /\ CTyped /\ request[r].stage = "encoding" /\ Becomes(r, "failed")
      /\ broken' = broken \cup {w} /\ robbed' = robbed
  BY <1>1 DEF CInv, EncodeFails
<1>3. PICK gone \in {{}, {Work(w)}} : file' = Erased(file, gone)
  BY <1>1 DEF EncodeFails
<1>4. /\ \A s \in Requests : WellFormed(request[s])
      /\ \A s \in Requests : s # r => request'[s] = request[s]
      /\ request'[r].stage = "failed"
  BY <1>2, BecomesOf DEF CTyped
<1>5. \A f \in Files : f # Work(w) => file'[f] = file[f]
  BY <1>3 DEF Erased
<1>6. ASSUME NEW s \in Requests, s # r PROVE Promise(s)'
  <2>1. PICK v : v = request[s].wish
    OBVIOUS
  <2>2. v \in Wishes /\ Wav(v) \in Files
    <3>1. v \in Wishes
      BY <1>4, <2>1 DEF WellFormed, RequestType
    <3>. QED  BY <3>1, WavNames
  <2>3. Promise(s) /\ request'[s] = request[s] /\ (s \in robbed => s \in robbed')
    BY <1>2, <1>4, <1>6 DEF Promises
  <2>4. CASE ~OnWish(s) \/ Kind(s) \in Settled \cup {"fetching", "locking"}
    BY <2>1, <2>3, <2>4, Undisturbed
  <2>5. CASE v # w
    <3>1. Work(w) # Wav(v)
      BY <2>2, <2>5, WavNames, WorkNames
    <3>2. file'[Wav(v)] = file[Wav(v)] /\ (v \in broken <=> v \in broken')
      BY <1>2, <1>5, <2>2, <2>5, <3>1
    <3>. QED  BY <2>1, <2>3, <3>2, Undisturbed
  <2>6. CASE v = w /\ OnWish(s) /\ Kind(s) \notin Settled \cup {"fetching", "locking"}
    <3>1. Job(request[s]) = w
      BY <2>1, <2>6 DEF OnWish
    <3>2. ~Busy(request[s])
      BY <1>1, <1>2, <1>6, <3>1, Alone DEF Busy
    <3>3. Kind(s) \in {"measuring", "ready"}
      <4>1. request[s] \in RequestType
        BY <1>4 DEF WellFormed
      <4>. QED  BY <2>6, <3>2, <4>1 DEF Kind, Busy, RequestType, Settled
    <3>4. file[Wav(w)].state = "whole" \/ s \in robbed
             \/ (file[Wav(w)].state = "half" /\ w \in broken)
      BY <2>1, <2>3, <2>6, <3>3 DEF Promise, Kept
    <3>5. CASE IsJoin(w)
      <4>1. w = request[r].wish /\ OnWish(r)
        BY <1>1, <1>4, <3>5, JoinIsWish DEF OnWish
      <4>2. w \notin broken /\ file[Wav(w)].state # "whole"
        BY <1>2, <3>5, <4>1 DEF Promises, Promise, Kind
      <4>3. s \in robbed'
        BY <1>2, <3>4, <4>2
      <4>4. Kind(s) = "encoding" => ~IsJoin(w)
        BY <3>3
      <4>. QED  BY <2>1, <2>3, <2>6, <4>3, <4>4, Undisturbed
    <3>6. CASE ~IsJoin(w)
      <4>1. file'[Wav(v)] = file[Wav(v)] /\ (v \in broken => v \in broken')
        BY <1>2, <1>5, <2>2, <3>6, WorkNames
      <4>. QED  BY <2>1, <2>3, <2>6, <3>6, <4>1, Undisturbed
    <3>. QED  BY <3>5, <3>6
  <2>. QED  BY <2>4, <2>5, <2>6
<1>7. Promise(r)'
  BY <1>4, NothingPromised DEF Settled
<1>. QED  BY <1>6, <1>7 DEF Promises

\* What neither touches a file nor changes what is known of the joins.
LEMMA PromiseAsks ==
    ASSUME Promises, CInv, NEW r \in Requests,
           Ask(r) \/ Fetched(r) \/ Joined(r) \/ RenameFails(r) \/ Probed(r) \/ Measured(r)
              \/ Opens(r)
    PROVE  Promises'
<1>1. /\ CTyped /\ request \in [Requests -> RequestType] /\ WellFormed(request[r])
      /\ UNCHANGED <<file, broken, robbed>> /\ file \in [Files -> FileType]
  BY DEF CInv, CTyped, Ask, Fetched, Joined, RenameFails, Probed, Measured, Opens, observations
<1>2. \E q : request' = [request EXCEPT ![r] = q]
  BY DEF Ask, Fetched, Joined, RenameFails, Probed, Measured, Opens, Becomes
<1>3. \A s \in Requests : s # r => request'[s] = request[s]
  BY <1>1, <1>2
<1>4. ASSUME NEW s \in Requests, s # r PROVE Promise(s)'
  BY <1>1, <1>3, <1>4, Undisturbed DEF Promises
<1>5. Promise(r)'
  <2>1. CASE Ask(r)
    <3>1. PICK w \in Wishes : \E q \in Begun([request[r] EXCEPT !.wish = w]) :
             request' = [request EXCEPT ![r] = q]
      BY <2>1 DEF Ask
    <3>. DEFINE n == [request[r] EXCEPT !.wish = w]
    <3>2. n \in RequestType /\ n.wish = w /\ n.done = request[r].done
      BY <1>1 DEF RequestType
    <3>3. WellFormed(n) /\ n.done = 0
      BY <1>1, <2>1, <3>2, WishParts DEF Ask, WellFormed
    <3>4. PICK q \in Begun(n) : request' = [request EXCEPT ![r] = q]
      BY <3>1
    <3>. HIDE DEF n
    <3>5. q.stage \in {"fetching", "locking", "failed"}
      BY <3>3, <3>4, BegunKinds
    <3>6. request'[r] = q
      BY <1>1, <3>4
    <3>. QED  BY <3>5, <3>6, NothingPromised DEF Settled
  <2>2. CASE Probed(r) \/ Measured(r)
    <3>1. PICK q \in Durations(request[r]) : request' = [request EXCEPT ![r] = q]
      BY <2>2 DEF Probed, Measured
    <3>2. request[r].stage \in {"probing", "measuring"}
      BY <2>2 DEF Probed, Measured
    <3>3. /\ q.stage \in {"fetching", "locking", "ready", "failed"}
          /\ q.stage = "ready" => /\ Job(request[r]) = request[r].wish
                                  /\ q.wish = request[r].wish /\ Job(q) = q.wish
      BY <1>1, <3>1, <3>2, DurationsKinds
    <3>4. request'[r] = q
      BY <1>1, <3>1
    <3>5. CASE q.stage = "ready"
      <4>1. Kept(request[r].wish, r)
        BY <3>2, <3>3, <3>5 DEF Promises, Promise, Kind, OnWish
      <4>2. Kind(r)' = "ready" /\ OnWish(r)' /\ request'[r].wish = request[r].wish
        BY <3>3, <3>4, <3>5 DEF Kind, OnWish, Job
      <4>. QED  BY <1>1, <4>1, <4>2 DEF Promise, Kept, Wav
    <3>6. CASE q.stage # "ready"
      BY <3>3, <3>4, <3>6, NothingPromised DEF Settled
    <3>. QED  BY <3>5, <3>6
  <2>3. CASE Fetched(r) \/ RenameFails(r) \/ Opens(r)
    <3>1. PICK stage \in {"locking", "failed", "playing", "silent"} : Becomes(r, stage)
      BY <2>3 DEF Fetched, RenameFails, Opens
    <3>2. request'[r].stage = stage
      BY <1>1, <3>1, BecomesOf
    <3>. QED  BY <3>1, <3>2, NothingPromised DEF Settled
  <2>4. CASE Joined(r)
    <3>1. PICK w \in Wishes : w = Job(request[r])
      BY <1>1, JobIsWish
    <3>2. /\ Becomes(r, "measuring") /\ IsJoin(w) /\ request[r].stage = "written"
          /\ w = request[r].wish
      BY <1>1, <2>4, <3>1, JoinIsWish DEF Joined
    <3>3. request'[r].stage = "measuring" /\ request'[r].wish = w
      BY <1>1, <3>2 DEF Becomes, RequestType
    <3>4. r \in robbed \/ file[Wav(w)].state # "absent"
      BY <3>1, <3>2 DEF Promises, Promise, Kind, OnWish
    <3>5. file[Wav(w)].state \in {"absent", "half", "whole"}
      <4>1. Wav(w) \in Files
        BY WavNames
      <4>. QED  BY <1>1, <4>1 DEF FileType
    <3>6. ASSUME file[Wav(w)].state = "half" PROVE w \in broken
      <4>1. ~Encoded(w)
        <5>1. SUFFICES ASSUME NEW s \in Requests, request[s].stage = "encoding",
                              Job(request[s]) = w
                       PROVE  FALSE
          BY DEF Encoded
        <5>2. s # r
          BY <3>2, <5>1
        <5>. QED  BY <3>1, <3>2, <5>1, <5>2, Alone DEF Busy
      <4>. QED  BY <3>2, <3>6, <4>1 DEF CInv, HalfJoins
    <3>7. Kind(r)' = "measuring"
      BY <3>3 DEF Kind
    <3>8. Kept(w, r)
      BY <3>4, <3>5, <3>6 DEF Kept
    <3>. QED  BY <1>1, <3>3, <3>7, <3>8 DEF Promise, Kept, Wav
  <2>. QED  BY <2>1, <2>2, <2>3, <2>4
<1>. QED  BY <1>4, <1>5 DEF Promises

LEMMA PromiseStep ==
    ASSUME Promises, CInv, [CacheNext]_cacheVars
    PROVE  Promises'
<1>1. CTyped
  BY DEF CInv
<1>2. ASSUME UNCHANGED <<request, broken, robbed>>, \A f \in Files : file'[f].state = file[f].state
      PROVE  Promises'
  <2>1. ASSUME NEW s \in Requests PROVE Promise(s)'
    <3>1. PICK v : v = request[s].wish
      OBVIOUS
    <3>2. Wav(v) \in Files
      <4>1. v \in Wishes
        BY <1>1, <3>1 DEF CTyped, RequestType
      <4>. QED  BY <4>1, WavNames
    <3>. QED  BY <1>2, <3>1, <3>2, Undisturbed DEF Promises
  <2>. QED  BY <2>1 DEF Promises
<1>3. ASSUME NEW r \in Requests, Writes(r) PROVE Promises'
  BY <1>2, <1>3 DEF Writes, observations
<1>4. ASSUME NEW k \in Sounds, Edit(k) PROVE Promises'
  <2>1. UNCHANGED <<request, broken, robbed>>
    BY <1>4 DEF Edit
  <2>. QED  BY <1>1, <1>2, <1>4, <2>1, EditFiles
<1>5. ASSUME Restart PROVE Promises'
  <2>1. ASSUME NEW s \in Requests PROVE request'[s].stage \in Settled
    <3>1. request'[s] = IF request[s].stage \in Settled THEN request[s]
                        ELSE [request[s] EXCEPT !.stage = "lost"]
      BY <1>5 DEF Restart
    <3>2. [request[s] EXCEPT !.stage = "lost"].stage = "lost"
      BY <1>1 DEF CTyped, RequestType
    <3>. QED  BY <3>1, <3>2 DEF Settled
  <2>. QED  BY <2>1, NothingPromised DEF Promises
<1>6. CASE UNCHANGED cacheVars
  BY <1>2, <1>6 DEF cacheVars, observations
<1>. QED  BY <1>3, <1>4, <1>5, <1>6, PromiseAsks, PromiseAcquire, PromiseEnds, PromiseClip,
             PromiseFails DEF CacheNext

LEMMA PromiseStart ==
    ASSUME CacheInit
    PROVE  Promises
<1>1. \A r \in Requests : request[r].stage = "new"
  BY DEF CacheInit
<1>. QED  BY <1>1 DEF Promises, Promise, Kind

(***************************************************************************)
(* The theorems about the files, their age and what was promised.          *)
(***************************************************************************)
\* The disk fits the locks and the edits, and the pages what they were
\* promised, in every reachable state.
THEOREM DiskInvariance == CacheSpec => [](CInv /\ DiskInv /\ Promises)
<1>1. CacheInit => CInv /\ DiskInv /\ Promises
  BY CacheStart, DiskStart, PromiseStart
<1>2. (CInv /\ DiskInv /\ Promises) /\ [CacheNext]_cacheVars => (CInv /\ DiskInv /\ Promises)'
  BY CacheStep, DiskStep, PromiseStep
<1>. QED  BY <1>1, <1>2, PTL DEF CacheSpec

\* What is on disk, and nothing else, has a modification time, and the times
\* are an order through every write, rename, eviction and edit (media.py:196,
\* 236).
THEOREM CacheKeepsItsTypes == CacheSpec => []CacheTypeOK
<1>1. CInv /\ DiskInv => CacheTypeOK
  BY DEF CInv, CTyped, DiskInv, CacheTypeOK
<1>. QED  BY <1>1, DiskInvariance, PTL

\* A cached transcode that is played is what the sound is now, however
\* edits, transcodings, renames, evictions and restarts fell between each
\* other, unless the times of the sound cannot tell (media.py:193-198).
THEOREM NoStaleHits == CacheSpec => HitsAreCurrent
<1>1. ASSUME CInv, DiskInv, [CacheNext]_cacheVars, NEW r \in Requests, NEW k \in Sounds,
             request[r].stage = "locking", Job(request[r]) = <<k>>,
             request'[r].stage = "probing"
      PROVE  k \in masked \/ file[Wav(<<k>>)].old = {}
  <2>1. /\ CTyped /\ request \in [Requests -> RequestType]
        /\ request[r] \in RequestType
    BY <1>1 DEF CInv, CTyped
  <2>2. request'[r] # request[r]
    BY <1>1
  <2>3. ASSUME NEW s \in Requests,
               \/ Ask(s) \/ Fetched(s) \/ FfmpegEnds(s) \/ ClipEncoded(s) \/ Joined(s)
               \/ RenameFails(s) \/ EncodeFails(s) \/ Probed(s) \/ Measured(s) \/ Opens(s)
        PROVE  s = r /\ Fetched(s)
    <3>1. \E q : request' = [request EXCEPT ![s] = q]
      BY <2>3 DEF Ask, Fetched, FfmpegEnds, ClipEncoded, Joined, RenameFails, EncodeFails,
                  Probed, Measured, Opens, Becomes
    <3>2. s = r
      BY <2>1, <2>2, <3>1
    <3>. QED  BY <1>1, <2>3, <3>2 DEF Ask, Fetched, FfmpegEnds, ClipEncoded, Joined, RenameFails,
                                       EncodeFails, Probed, Measured, Opens
  <2>4. ~Fetched(r)
    BY <1>1 DEF Fetched
  <2>5. ~Restart
    <3>1. [request[r] EXCEPT !.stage = "lost"].stage = "lost"
      BY <2>1 DEF RequestType
    <3>. QED  BY <1>1, <3>1 DEF Restart, Settled
  <2>6. PICK s \in Requests : Acquire(s)
    BY <1>1, <2>2, <2>3, <2>4, <2>5 DEF CacheNext, cacheVars, Edit, Writes
  <2>7. s = r
    <3>1. PICK stage : Becomes(s, stage)
      BY <2>6 DEF Acquire
    <3>. QED  BY <2>1, <2>2, <3>1 DEF Becomes
  <2>8. Hit(<<k>>)
    <3>1. SUFFICES ASSUME Becomes(r, "encoding") PROVE FALSE
      BY <1>1, <2>6, <2>7 DEF Acquire
    <3>2. request'[r].stage = "encoding"
      BY <2>1, <3>1, BecomesOf
    <3>. QED  BY <1>1, <3>2
  <2>9. Present(Wav(<<k>>)) /\ <<Wav(<<k>>), Source(k)>> \notin age
    <3>1. Source(k) # Wav(<<k>>) /\ <<k>>[1] = k
      BY DEF Source, Wav
    <3>. QED  BY <2>8, <3>1, SoundNames DEF Hit, Later
  <2>. QED  BY <1>1, <2>9 DEF DiskInv, Fits, WavFits, Stale, Present
<1>2. (CInv /\ DiskInv) /\ [CacheNext]_cacheVars =>
         \A r \in Requests, k \in Sounds :
            /\ request[r].stage = "locking" /\ Job(request[r]) = <<k>>
            /\ request'[r].stage = "probing"
            => k \in masked \/ file[Wav(<<k>>)].old = {}
  BY <1>1
<1>. QED  BY <1>2, DiskInvariance, PTL DEF CacheSpec, HitsAreCurrent

\* What a page was handed is there and whole when its call is answered,
\* however many pages write, fail, evict and restart meanwhile, unless an
\* eviction took it or its join was left a half (media.py:115-130, 203-204,
\* 234-242).
THEOREM PromisesHold == CacheSpec => []PromisedIsPlayable
<1>1. Promises => PromisedIsPlayable
  BY DEF Promises, Promise, Kept, Kind, PromisedIsPlayable
<1>. QED  BY <1>1, DiskInvariance, PTL
=============================================================================
