---------------------------- MODULE AsyncDownload ----------------------------
(***************************************************************************)
(* FAsyncDownload (LiberTV/FAsyncHttpDownload.cpp): HTTP downloads carried *)
(* out by a pool of threads that grows with the list of downloads.         *)
(*                                                                         *)
(* A download is listed in m_aDownloads or, once paused, in m_aPaused, and *)
(* its record is pushed on m_Urls for any worker to pick up.  Lists and    *)
(* records change under m_Sync; the flags of a record are read by the      *)
(* worker without it, so every such read is a step of its own.             *)
(*                                                                         *)
(* m_Sync is held across a step only by AddDownload, which may wait for    *)
(* the lock of the pool (m_ArraySync), in GetThreadCount and in AddWorker: *)
(* "adding" says who is there, and how far.  The lock of the pool is held  *)
(* across steps only by StopAndWait, that is while phase = "waiting".      *)
(***************************************************************************)
EXTENDS Integers, Sequences, SequencesExt

CONSTANTS Downloads,   \* FDownloadInfo's that somebody will ask for, once each
          Capacity,    \* m_Urls.SetSize
          Worlds,      \* the environments to be considered
          None

(* A world is an environment.                                                *)
(* chained  downloads asked for by a receiver inside its Notify              *)
(* late     other threads still call DownloadURL after Stop began            *)
(* calm     Pause, Resume and Stop wait for the workers to notice            *)
(* pauses   bound of the model: calls of Pause                               *)
World == [chained : SUBSET Downloads, late : BOOLEAN, calm : BOOLEAN, pauses : Nat]

(* A call of AddDownload: by a worker or another thread (0), with a record.  *)
(* counting  before GetThreadCount        resuming  in AddWorker: listed     *)
(* making    in AddWorker: to be listed   pushing   before m_Urls.Push       *)
Stages == {"counting", "making", "resuming", "pushing"}
Call   == [by : Nat, d : Downloads, at : Stages]

ASSUME AsyncDownloadAssumption ==
    /\ IsFiniteSet(Downloads)
    /\ Capacity \in Nat
    /\ Worlds \subseteq World
    /\ None \notin Downloads
    /\ None \notin Call

VARIABLES
    slots,    \* m_aDownloads: records and NULLs
    paused,   \* m_aPaused
    urls,     \* m_Urls, the top is the last element
    permits,  \* its semaphore
    pool,     \* threads in m_DownloadPool
    worker,   \* where each thread is, the record it holds, its result
    rec,      \* the record of a download: not yet made, alive, deleted
    pausedF,  \* pBindStatusCallback.m_Paused
    abortF,   \* pBindStatusCallback.m_Abort
    adding,   \* the call of AddDownload somebody is inside of
    phase,    \* how far Stop is
    joining,  \* the thread StopAndWait is waiting for
    pauses,   \* calls of Pause so far (bounds the model)
    world,    \* the environment, it never changes
    reports,  \* ghost: the results delivered for each download
    asked     \* ghost: downloads somebody called StopDownload for

vars == <<slots, paused, urls, permits, pool, worker, rec, pausedF, abortF,
          adding, phase, joining, pauses, world, reports, asked>>

lists   == <<slots, paused>>
queue   == <<urls, permits>>
flags   == <<pausedF, abortF>>
stop    == <<phase, joining>>
rest    == <<pauses, world, reports, asked>>

(* A thread is only made when the list is longer than the pool, and the list *)
(* is never longer than the downloads are many.                              *)
Workers == 1..(Cardinality(Downloads) + 1)

Results == {"S_OK", "E_HTTP", "E_ABORT"}
Idle    == [at |-> "waiting", d |-> None, hr |-> None]

Calm     == world.calm
stopping == phase # "running"                        \* m_Stopping

In(s)     == {s[i] : i \in DOMAIN s} \ {None}
Holding(d) == {w \in Workers : worker[w].d = d}

TypeOK ==
    /\ slots \in Seq(Downloads \cup {None})
    /\ paused \in Seq(Downloads)
    /\ urls \in Seq(Downloads)
    /\ permits \in Nat
    /\ pool \in 0..Cardinality(Downloads) + 1
    /\ worker \in [Workers ->
           [at : {"none", "waiting", "woken", "working", "ended", "completing",
                  "reporting", "notifying", "chaining", "reported", "exited"},
            d  : Downloads \cup {None},
            hr : Results \cup {None}]]
    /\ rec \in [Downloads -> {"new", "live", "deleted"}]
    /\ pausedF \in [Downloads -> BOOLEAN]
    /\ abortF \in [Downloads -> BOOLEAN]
    /\ adding \in {None} \cup [by : Workers \cup {0}, d : Downloads, at : Stages]
    /\ phase \in {"running", "aborted", "waiting", "joined", "done"}
    /\ joining \in {0} \cup Workers
    /\ pauses \in 0..world.pauses
    /\ reports \in [Downloads -> Seq(Results)]
    /\ asked \subseteq Downloads

(* Init: m_Urls.SetSize(16); AddWorker(1).                                   *)
Init ==
    /\ slots = <<>>
    /\ paused = <<>>
    /\ urls = <<>>
    /\ permits = 0
    /\ pool = 1
    /\ worker = [w \in Workers |-> IF w = 1 THEN Idle ELSE [Idle EXCEPT !.at = "none"]]
    /\ rec = [d \in Downloads |-> "new"]
    /\ pausedF = [d \in Downloads |-> FALSE]
    /\ abortF = [d \in Downloads |-> FALSE]
    /\ adding = None
    /\ phase = "running"
    /\ joining = 0
    /\ pauses = 0
    /\ world \in Worlds
    /\ reports = [d \in Downloads |-> <<>>]
    /\ asked = {}

-----------------------------------------------------------------------------
(* What a worker reads in a record: anything once the record is deleted.     *)
Read(flag, d) == IF rec[d] = "deleted" THEN BOOLEAN ELSE {flag[d]}

(* The first NULL entry of the list takes the record, or the list grows.     *)
Listed(d) ==
    LET free == {k \in DOMAIN slots : slots[k] = None}
    IN  IF free = {} THEN Append(slots, d)
        ELSE [slots EXCEPT ![CHOOSE k \in free : \A j \in free : k <= j] = d]

(* Mutant of Unslotted: the entry is not set to NULL.                        *)
SlotKept(d)  == slots

(* The entry of a record set to NULL.                                        *)
Unslotted(d) == [k \in DOMAIN slots |-> IF slots[k] = d THEN None ELSE slots[k]]

(* Mutant of Pushed: the record is pushed by the caller too.                 *)
PushedTwice(d) == urls \o <<d, d>>

(* m_Urls.Push refuses a record when the stack is full.                      *)
Pushed(d)      == IF Len(urls) < Capacity THEN Append(urls, d) ELSE urls

(* Mutant of NeedsWorker: off by one.                                        *)
NeedsSpare  == Len(slots) > pool + 1

NeedsWorker == Len(slots) > pool

(* AddDownload up to GetThreadCount, by the thread "by" (0: not a worker).   *)
AddLocked(by, d) ==
    /\ adding = None
    /\ slots' = Listed(d)
    /\ adding' = [by |-> by, d |-> d, at |-> "counting"]

(* DownloadURL from a thread of another component: a new record.             *)
DownloadURL(d) ==
    /\ d \notin world.chained
    /\ rec[d] = "new"
    /\ stopping => world.late
    /\ rec' = [rec EXCEPT ![d] = "live"]
    /\ AddLocked(0, d)
    /\ UNCHANGED <<paused, queue, pool, worker, flags, stop, rest>>

(* DownloadURL from inside Notify, on the worker that delivers a result:     *)
(* FRSSManager::Notify starts the update of the next feed.                   *)
ChainDownload(w, d) ==
    /\ worker[w].at = "notifying"
    /\ d \in world.chained
    /\ rec[d] = "new"
    /\ rec' = [rec EXCEPT ![d] = "live"]
    /\ AddLocked(w, d)
    /\ worker' = [worker EXCEPT ![w].at = "chaining"]
    /\ UNCHANGED <<paused, queue, pool, flags, stop, rest>>

(* AddDownload goes on.                                                      *)
Adds(from, to) ==
    /\ adding # None
    /\ adding.at = from
    /\ adding' = [adding EXCEPT !.at = to]

(* GetThreadCount, under the lock of the pool: is a thread needed?           *)
CountThreads ==
    /\ phase # "waiting"
    /\ Adds("counting", IF NeedsWorker THEN "making" ELSE "pushing")
    /\ UNCHANGED <<lists, queue, pool, worker, rec, flags, stop, rest>>

(* AddWorker: the thread is made and, under the lock, put into the pool,     *)
(* which Stop may have emptied since the threads were counted.               *)
AddWorker ==
    /\ phase # "waiting"
    /\ Adds("making", "resuming")
    /\ pool' = pool + 1
    /\ worker' = [worker EXCEPT ![pool + 1] = Idle]
    /\ UNCHANGED <<lists, queue, rec, flags, stop, rest>>

(* The end of AddWorker takes the lock again and resumes a thread that was   *)
(* not made suspended: nothing changes, but it may have to wait.             *)
ResumeWorkers ==
    /\ phase # "waiting"
    /\ Adds("resuming", "pushing")
    /\ UNCHANGED <<lists, queue, pool, worker, rec, flags, stop, rest>>

(* The record is pushed, which needs no lock of the pool.  DownloadURL does  *)
(* not look at the result of Push.                                           *)
PushAdded ==
    /\ adding # None
    /\ adding.at = "pushing"
    /\ urls' = Pushed(adding.d)
    /\ permits' = permits + 1
    /\ adding' = None
    /\ worker' = [w \in Workers |->
                    IF w = adding.by THEN [worker[w] EXCEPT !.at = "reported"] ELSE worker[w]]
    /\ UNCHANGED <<lists, pool, rec, flags, stop, rest>>

(* StopDownload: only the active list is searched.                           *)
StopDownload(d) ==
    /\ adding = None
    /\ d \in In(slots)
    /\ abortF' = [abortF EXCEPT ![d] = TRUE]
    /\ asked' = asked \cup {d}
    /\ UNCHANGED <<lists, queue, pool, worker, rec, pausedF, adding, stop,
                   pauses, world, reports>>

(* Pause, from the UI thread.  m_Urls keeps the record.                      *)
Pause(d) ==
    /\ adding = None
    /\ ~stopping
    /\ pauses < world.pauses
    /\ d \in In(slots)
    /\ Calm => \A w \in Holding(d) : worker[w].at \in {"working", "ended", "completing"}
    /\ pausedF' = [pausedF EXCEPT ![d] = TRUE]
    /\ abortF' = [abortF EXCEPT ![d] = TRUE]
    /\ paused' = Append(paused, d)
    /\ slots' = Unslotted(d)
    /\ pauses' = pauses + 1
    /\ UNCHANGED <<queue, pool, worker, rec, adding, stop, world, reports, asked>>

(* m_aPaused without the record.                                             *)
Unpaused(d) == RemoveAt(paused, CHOOSE k \in DOMAIN paused : paused[k] = d)

(* Resume, from the UI thread: listed and pushed again.                      *)
Resume(d) ==
    /\ ~stopping
    /\ d \in In(paused)
    /\ Calm => Holding(d) = {} /\ d \notin In(urls)
    /\ pausedF' = [pausedF EXCEPT ![d] = FALSE]
    /\ abortF' = [abortF EXCEPT ![d] = FALSE]
    /\ paused' = Unpaused(d)
    /\ AddLocked(0, d)
    /\ asked' = asked \ {d}
    /\ UNCHANGED <<queue, pool, worker, rec, stop, pauses, world, reports>>

-----------------------------------------------------------------------------
(* The worker: FHttpDownloadTP::Thread.                                      *)
At(w, from, to) ==
    /\ worker[w].at = from
    /\ worker' = [worker EXCEPT ![w].at = to]

(* Mutant of Wake: without a permit.                                         *)
WakeAnyhow(w) ==
    /\ At(w, "waiting", "woken")
    /\ permits' = permits - 1
    /\ UNCHANGED <<lists, urls, pool, rec, flags, adding, stop, rest>>

(* PopWait returned WAIT_OBJECT_0.                                           *)
Wake(w) ==
    /\ permits > 0
    /\ At(w, "waiting", "woken")
    /\ permits' = permits - 1
    /\ UNCHANGED <<lists, urls, pool, rec, flags, adding, stop, rest>>

(* bPopped: the record on top of m_Urls, or nothing and ATLASSERT(0).        *)
Pop(w) ==
    /\ worker[w].at = "woken"
    /\ \/ /\ urls # <<>>
          /\ worker' = [worker EXCEPT ![w] = [Idle EXCEPT !.at = "working", !.d = Last(urls)]]
          /\ urls' = Front(urls)
       \/ /\ urls = <<>>
          /\ worker' = [worker EXCEPT ![w] = Idle]
          /\ urls' = urls
    /\ UNCHANGED <<lists, permits, pool, rec, flags, adding, stop, rest>>

(* ProcessDownload: it may succeed or fail at any time; after each block it  *)
(* looks at m_Stopping and m_Abort.                                          *)
Transfer(w) ==
    /\ worker[w].at = "working"
    /\ \E hr \in Results :
          /\ hr = "E_ABORT" => stopping \/ TRUE \in Read(abortF, worker[w].d)
          /\ worker' = [worker EXCEPT ![w].at = "ended", ![w].hr = hr]
    /\ UNCHANGED <<lists, queue, pool, rec, flags, adding, stop, rest>>

(* "Don't send notification if we are stopping": the thread leaves its loop. *)
CheckStopping(w) ==
    /\ worker[w].at = "ended"
    /\ worker' = [worker EXCEPT ![w] = IF stopping THEN [Idle EXCEPT !.at = "exited"]
                                       ELSE [@ EXCEPT !.at = "completing"]]
    /\ UNCHANGED <<lists, queue, pool, rec, flags, adding, stop, rest>>

(* Mutant of SeesPause: OnDownloadComplete does not look at m_Paused.        *)
NoPause(d)    == {FALSE}

(* Mutant of SeesPause: m_Abort is taken for a pause.                        *)
AnyAbort(d)   == {pausedF[d] \/ abortF[d]}

(* What OnDownloadComplete takes for a pause.                                *)
SeesPause(d)  == Read(pausedF, d)

(* OnDownloadComplete: "Do not notify about the pause".                      *)
CheckPaused(w) ==
    /\ worker[w].at = "completing"
    /\ \E p \in SeesPause(worker[w].d) :
          worker' = [worker EXCEPT ![w] = IF p THEN Idle ELSE [@ EXCEPT !.at = "reporting"]]
    /\ UNCHANGED <<lists, queue, pool, rec, flags, adding, stop, rest>>

(* m_Abort overrides the result; SendAlert calls the receiver, which may     *)
(* start another download before it returns.                                 *)
Report(w) ==
    /\ worker[w].at = "reporting"
    /\ \E a \in Read(abortF, worker[w].d), next \in {"notifying", "reported"} :
          /\ next = "notifying" => \E d \in world.chained : rec[d] = "new"
          /\ worker' = [worker EXCEPT ![w].at = next]
          /\ reports' = [reports EXCEPT ![worker[w].d] =
                            Append(@, IF a THEN "E_ABORT" ELSE worker[w].hr)]
    /\ UNCHANGED <<lists, queue, pool, rec, flags, adding, stop, pauses, world, asked>>

NotifyReturns(w) ==
    /\ At(w, "notifying", "reported")
    /\ UNCHANGED <<lists, queue, pool, rec, flags, adding, stop, rest>>

(* "Remove the download from the list", unless it is no longer there.        *)
Unlist(w) ==
    /\ worker[w].at = "reported"
    /\ adding = None
    /\ LET d == worker[w].d IN
          /\ slots' = Unslotted(d)
          /\ rec' = IF d \in In(slots) THEN [rec EXCEPT ![d] = "deleted"] ELSE rec
    /\ worker' = [worker EXCEPT ![w] = Idle]
    /\ UNCHANGED <<paused, queue, pool, flags, adding, stop, rest>>

-----------------------------------------------------------------------------
(* Mutant of Told: AbortDownloads reports the active downloads as well.      *)
ToldAll == In(slots) \cup In(paused)

(* The downloads AbortDownloads reports: the paused ones, no worker will.    *)
Told    == In(paused)

(* Stop, on the UI thread.  AbortDownloads tells the paused downloads and    *)
(* deletes them; m_aPaused keeps the pointers until the end of Stop.         *)
AbortDownloads ==
    /\ phase = "running"
    /\ adding = None
    /\ Calm => \A d \in In(paused) : Holding(d) = {} /\ d \notin In(urls)
    /\ phase' = "aborted"
    /\ urls' = <<>>
    /\ abortF' = [d \in Downloads |-> abortF[d] \/ d \in In(slots)]
    /\ reports' = [d \in Downloads |-> IF d \in Told THEN Append(reports[d], "E_ABORT")
                                       ELSE reports[d]]
    /\ rec' = [d \in Downloads |-> IF d \in In(paused) THEN "deleted" ELSE rec[d]]
    /\ UNCHANGED <<lists, permits, pool, worker, pausedF, adding, joining, pauses, world,
                   asked>>

(* Mutant of StopAndWait: the first thread is not signalled.                 *)
StopAndWaitSecond ==
    /\ phase = "aborted"
    /\ phase' = "waiting"
    /\ joining' = 2
    /\ UNCHANGED <<lists, queue, pool, worker, rec, flags, adding, rest>>

(* StopAndWait takes the lock of the pool, posts the APC to the first thread *)
(* and waits for it, then to the next.                                       *)
StopAndWait ==
    /\ phase = "aborted"
    /\ phase' = "waiting"
    /\ joining' = 1
    /\ UNCHANGED <<lists, queue, pool, worker, rec, flags, adding, rest>>

(* A waiting thread that got the APC leaves its loop.                        *)
Leave(w) ==
    /\ joining = w
    /\ At(w, "waiting", "exited")
    /\ UNCHANGED <<lists, queue, pool, rec, flags, adding, stop, rest>>

JoinNext ==
    /\ phase = "waiting"
    /\ worker[joining].at = "exited"
    /\ \/ /\ joining < pool
          /\ joining' = joining + 1
          /\ UNCHANGED <<phase, pool>>
       \/ /\ joining = pool
          /\ joining' = 0
          /\ phase' = "joined"
          /\ pool' = 0
    /\ UNCHANGED <<lists, queue, worker, rec, flags, adding, rest>>

(* The end of Stop: what is still listed is deleted.                         *)
DeleteListed ==
    /\ phase = "joined"
    /\ adding = None
    /\ phase' = "done"
    /\ rec' = [d \in Downloads |-> IF d \in In(slots) THEN "deleted" ELSE rec[d]]
    /\ slots' = <<>>
    /\ paused' = <<>>
    /\ UNCHANGED <<queue, pool, worker, flags, adding, joining, rest>>

-----------------------------------------------------------------------------
WorkerStep(w) ==
    \/ Wake(w) \/ Pop(w) \/ Transfer(w) \/ CheckStopping(w) \/ CheckPaused(w)
    \/ Report(w) \/ NotifyReturns(w) \/ Unlist(w) \/ Leave(w)

AddStep  == CountThreads \/ AddWorker \/ ResumeWorkers \/ PushAdded

StopStep == StopAndWait \/ JoinNext \/ DeleteListed

Next ==
    \/ \E d \in Downloads :
          DownloadURL(d) \/ StopDownload(d) \/ Pause(d) \/ Resume(d)
    \/ \E w \in Workers : WorkerStep(w) \/ \E d \in Downloads : ChainDownload(w, d)
    \/ AddStep \/ AbortDownloads \/ StopStep

Spec == Init /\ [][Next]_vars

(* Threads inside a call go on, a signalled thread is scheduled, a transfer  *)
(* ends (WinInet has timeouts) and Stop goes on once called.  Nobody has to  *)
(* call DownloadURL, StopDownload, Pause, Resume or Stop.                    *)
Fairness ==
    /\ \A w \in Workers : WF_vars(WorkerStep(w))
    /\ WF_vars(AddStep)
    /\ WF_vars(StopStep)

FairSpec == Spec /\ Fairness

-----------------------------------------------------------------------------
Places(d) == {<<"slots", k>> : k \in {i \in DOMAIN slots : slots[i] = d}}
        \cup {<<"paused", k>> : k \in {i \in DOMAIN paused : paused[i] = d}}

(* Nobody is going to work on a record.                                      *)
Stranded(d) ==
    /\ d \notin In(urls)
    /\ Holding(d) = {}
    /\ adding = None \/ adding.d # d

(* One place for every record: whatever the order of Pause, Resume,          *)
(* completion and Stop, a live record is in exactly one place of the two     *)
(* lists (none leaks, none is listed twice), and nothing in m_aDownloads has *)
(* been deleted.  Until Stop, whatever is in m_aDownloads is in m_Urls, in   *)
(* the hands of a worker, or about to be pushed, as long as m_Urls refuses   *)
(* nothing (Capacity).                                                       *)
OneList ==
    /\ \A d \in Downloads : rec[d] = "live" => Cardinality(Places(d)) = 1
    /\ \A d \in In(slots) : rec[d] = "live"

NoneStranded == \A d \in In(slots) : Stranded(d) => stopping

ListsOwnRecords == OneList /\ NoneStranded

(* The pool grows with the list: except while Stop has joined the threads,   *)
(* there are as many threads as entries of m_aDownloads, but for the one     *)
(* AddDownload is about to make.                                             *)
EnoughWorkers ==
    phase # "joined" =>
        Len(slots) <= pool + (IF adding # None /\ adding.at \in {"counting", "making"}
                              THEN 1 ELSE 0)

(* No record is worked on by two threads, and none that has been deleted,    *)
(* when Pause, Resume and Stop wait for the workers to notice.  Only late    *)
(* callers can make a thread that is still there when Stop deletes what is   *)
(* listed.                                                                   *)
WorkersHoldTheirOwn ==
    Calm => \A w \in Workers : worker[w].d # None =>
                /\ Holding(worker[w].d) = {w}
                /\ rec[worker[w].d] = "live" \/ (world.late /\ phase = "done")

(* What a receiver sees of its download is one of the stories Requests       *)
(* tells: at most one answer, none of a paused download, E_ABORT only of a   *)
(* stopped one, and a download is dropped silently only when the program     *)
(* stops.  That takes a calm UI: else a second worker or a stale one answers *)
(* for a download that was paused (AsyncPauseSilent).  Of another UI nothing *)
(* is said: its requests stay new.                                           *)
StateOf(d) ==
    CASE ~Calm                                           -> "new"
      [] Calm /\ reports[d] # <<>>                       -> "answered"
      [] Calm /\ reports[d] = <<>> /\ rec[d] = "new"     -> "new"
      [] Calm /\ reports[d] = <<>> /\ rec[d] = "deleted" -> "dropped"
      [] Calm /\ reports[d] = <<>> /\ rec[d] = "live"    ->
            IF d \in In(paused) THEN "paused" ELSE "running"

AnswerTo(d) == IF Calm /\ reports[d] # <<>> THEN Last(reports[d]) ELSE None

Request ==
    INSTANCE Requests WITH state  <- [d \in Downloads |-> StateOf(d)],
                           answer <- [d \in Downloads |-> AnswerTo(d)],
                           asked  <- IF Calm THEN asked ELSE {},
                           shut   <- Calm /\ stopping

ImplementsRequests == Request!Spec

(* "Do not notify about the pause" (LiberTV/FAsyncHttpDownload.cpp:352): the *)
(* receiver hears E_ABORT only of a download that was stopped, or when the   *)
(* program stops.                                                            *)
PauseIsSilent ==
    [][\A d \in Downloads :
          /\ Len(reports'[d]) > Len(reports[d])
          /\ Last(reports'[d]) = "E_ABORT"
          => d \in asked \/ stopping']_vars

(* Every download asked for is answered, paused, or cut short by Stop, when  *)
(* Pause, Resume and Stop wait for the workers to notice.                    *)
EveryDownloadEnds ==
    \A d \in Downloads :
        (Calm /\ rec[d] = "live") ~> (reports[d] # <<>> \/ pausedF[d] \/ stopping)

(* "Waits for the threads to shut down" (common/mz_Thread.h:90): once called,*)
(* Stop returns, unless somebody starts a download while it waits.           *)
StopEnds ==
    (phase = "aborted" /\ world.chained = {} /\ ~world.late) ~> phase = "done"

(* The same of any receiver.                                                 *)
StopReturns == phase = "aborted" ~> phase = "done"
=============================================================================
