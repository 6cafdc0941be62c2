---------------------------- MODULE ClipDownloader ----------------------------
(***************************************************************************)
(* FClipDownloaderEx (LiberTV/FClipDownloaderEx.cpp): the clips handed     *)
(* over by the download manager.  A clip is a file fetched over HTTP, or a *)
(* torrent whose metafile is fetched over HTTP and which then waits, in    *)
(* m_IQueue or m_CQueue, for the queue thread to put it into the session   *)
(* of libtorrent.                                                          *)
(*                                                                         *)
(* Every function runs under m_Sync.  What is asynchronous is the HTTP     *)
(* downloader, whose results come back on the stack m_HttpAlerts, and      *)
(* libtorrent, whose alerts are polled by the same thread when that stack  *)
(* is empty.  A torrent handle is an info hash: m_torrentHandle is valid   *)
(* as long as the session has a torrent with that hash.                    *)
(***************************************************************************)
EXTENDS Integers, Sequences, FiniteSets, SequencesExt

CONSTANTS Files,         \* clips fetched over HTTP
          Torrents,      \* clips that are torrents, by info hash
          Worlds,        \* the environments to be considered, see below
          MaxTorrents,   \* m_Config.m_MaxTorrents
          HttpCapacity,  \* m_HttpAlerts.SetSize
          MaxAdds,       \* bound of the model: calls of AddDownload in any world
          None

(* An environment: the clips there are, the torrents among them whose        *)
(* metafile cannot be loaded, those whose data is on the disk at the start,  *)
(* and bounds of the model for the calls of AddDownload and of PauseResume.  *)
World == [clips : SUBSET (Files \cup Torrents), unreadable : SUBSET Torrents,
          stored : SUBSET Torrents, adds : 0..MaxAdds, calls : Nat]

ASSUME ClipDownloaderAssumption ==
    /\ IsFiniteSet(Files)
    /\ IsFiniteSet(Torrents)
    /\ Files \cap Torrents = {}
    /\ Worlds \subseteq World
    /\ MaxTorrents \in Nat
    /\ HttpCapacity \in Nat
    /\ MaxAdds \in Nat

VARIABLES
    pairs,     \* the FDownloadPair of every handle given out so far
    downloads, \* the handles in m_Downloads
    iqueue,    \* m_IQueue: torrents to be downloaded
    cqueue,    \* m_CQueue: torrents to be seeded
    swarm,     \* the torrents in m_TorrentSession
    lib,       \* the alerts of libtorrent nobody has popped
    net,       \* where the HTTP downloader has the record of every handle
    work,      \* how many workers of it are at each stage of that transfer
    freed,     \* handles whose FDownloadInfo was deleted
    http,      \* m_HttpAlerts, the top is the last element
    handling,  \* the libtorrent alert ProcessAlerts is at
    complete,  \* torrents whose data is on the disk
    world,     \* the environment, it never changes
    phase,     \* "running", then Stop: "joined", "stopped"
    told,      \* ghost: the alerts sent for every handle
    swapped,   \* ghost: CheckCompleteQueue has swapped torrents
    outpaced,  \* ghost: a pause or resume has met a worker not done with the last
    calls      \* calls of PauseResume so far (bounds the model)

vars == <<pairs, downloads, iqueue, cqueue, swarm, lib, net, work, freed, http,
          handling, complete, world, phase, told, swapped, outpaced, calls>>

queues    == <<iqueue, cqueue>>
transfers == <<net, work, freed>>
alerts    == <<http, handling>>
rest      == <<world, swapped, outpaced, calls>>

(* A worker has taken the record or will take it from m_Urls; it has noticed *)
(* m_Abort; it is behind the check of m_Paused (FAsyncHttpDownload.cpp:351); *)
(* it has sent its result and not yet looked for the record in m_aDownloads. *)
Stages == {"fetching", "aborting", "passed", "reported"}
Idle   == [s \in Stages |-> 0]
Busy(h, stages) == \E s \in stages : work[h][s] > 0

Handles   == DOMAIN pairs
IsTorrent(h) == pairs[h].of \in Torrents
InSession(t) == swarm[t].at # "out"
SwarmSet  == {t \in Torrents : InSession(t)}           \* get_torrents()
IsSeed(t) == swarm[t].at = "seeding"

(* m_torrentHandle.is_valid()                                                *)
Valid(h)  == pairs[h].handle /\ InSession(pairs[h].of)

(* FindPairByTorrent: the listed pair that has this info hash.               *)
Owners(ps, t) == {h \in downloads : ps[h].handle /\ ps[h].of = t}

LibAlert == [kind : {"finished", "stopped"}, of : Torrents]

TypeOK ==
    /\ \A h \in Handles :
          /\ pairs[h].of \in Files \cup Torrents
          /\ pairs[h].started \in {"never", "lately", "long ago"}
          /\ pairs[h].done \in BOOLEAN
          /\ pairs[h].paused \in BOOLEAN
          /\ pairs[h].handle \in BOOLEAN
          /\ pairs[h].given \in BOOLEAN
    /\ Len(pairs) <= MaxAdds
    /\ downloads \subseteq Handles
    /\ iqueue \in Seq(Handles)
    /\ cqueue \in Seq(Handles)
    /\ swarm \in [Torrents -> [at : {"out", "checking", "leeching", "seeding"},
                               paused : BOOLEAN]]
    /\ lib \in Seq(LibAlert)
    /\ net \in [Handles -> {"none", "running", "paused", "stopping", "ended"}]
    /\ work \in [Handles -> [Stages -> Nat]]
    /\ freed \subseteq Handles
    /\ http \in Seq([h : Handles, hr : {"S_OK", "E_FAIL", "E_ABORT"}])
    /\ Len(http) <= HttpCapacity
    /\ handling \in LibAlert \cup {None}
    /\ complete \subseteq Torrents
    /\ world \in Worlds
    /\ phase \in {"running", "joined", "stopped"}
    /\ told \in [Handles -> {"nothing", "finished", "failed", "removed", "late"}]
    /\ swapped \in BOOLEAN
    /\ outpaced \in BOOLEAN
    /\ calls \in 0..world.calls

Init ==
    /\ pairs = <<>>
    /\ downloads = {}
    /\ iqueue = <<>>
    /\ cqueue = <<>>
    /\ swarm = [t \in Torrents |-> [at |-> "out", paused |-> FALSE]]
    /\ lib = <<>>
    /\ net = <<>>
    /\ work = <<>>
    /\ freed = {}
    /\ http = <<>>
    /\ handling = None
    /\ world \in Worlds
    /\ complete = world.stored
    /\ phase = "running"
    /\ told = <<>>
    /\ swapped = FALSE
    /\ outpaced = FALSE
    /\ calls = 0

-----------------------------------------------------------------------------
(* SendAlert, as far as the properties tell alerts apart: "late" is anything *)
(* that is sent after ALERT_ITEM_REMOVED.                                    *)
Heard(was, code) == IF was \in {"removed", "late"} THEN "late"
                    ELSE IF code = "other" THEN was ELSE code

Tell(h, code) == told' = [told EXCEPT ![h] = Heard(@, code)]

(* remove_torrent.  libtorrent announces event=stopped, unless the torrent   *)
(* is still being checked, has no tracker, or was announced when it paused.  *)
Out(s, t)      == [s EXCEPT ![t] = [at |-> "out", paused |-> FALSE]]
Stopped(l, t)  == {l} \cup IF swarm[t].at = "checking" THEN {}
                           ELSE {Append(l, [kind |-> "stopped", of |-> t])}

(* RemoveQueueHandle: the first occurrence.                                  *)
Dequeued(q, h) == RemoveFirst(q, h)

(* OnMetadataComplete for a torrent: the queue it goes to.                   *)
QueueTorrent(h, done) ==
    /\ cqueue' = IF done THEN Append(cqueue, h) ELSE cqueue
    /\ iqueue' = IF done THEN iqueue ELSE Append(iqueue, h)

(* AddDownload of the HTTP downloader: one worker will fetch.                *)
Started == [Idle EXCEPT !["fetching"] = 1]

(* AddDownload: the pair of a new handle is listed first.  The metadata (or, *)
(* for a file, all of it) may be there; else the transfer starts.            *)
AddDownload(x, done, paused) ==
    /\ phase # "stopped"
    /\ Len(pairs) < world.adds
    /\ x \in world.clips
    /\ \A g \in downloads : pairs[g].given => pairs[g].of # x
    /\ done => x \notin Torrents \/ x \in complete
    /\ \E got \in {"metadata", "transfer", "refused"} :
          LET h == Len(pairs) + 1 IN
          /\ pairs' = Append(pairs, [of |-> x, done |-> done, paused |-> paused,
                       handle |-> FALSE, started |-> "never", given |-> got # "refused"])
          /\ downloads' = downloads \cup {h}
          /\ told' = Append(told, "nothing")
          /\ IF got = "transfer"
             THEN net' = Append(net, "running") /\ work' = Append(work, Started)
             ELSE net' = Append(net, "none") /\ work' = Append(work, Idle)
          /\ IF got = "metadata" /\ x \in Torrents
             THEN QueueTorrent(h, done) ELSE UNCHANGED queues
    /\ UNCHANGED <<swarm, lib, freed, alerts, complete, phase, rest>>

(* Mutant of Unlisted: the key stays in m_Downloads.                         *)
StaysListed(h) == downloads

(* m_Downloads.RemoveKey                                                     *)
Unlisted(h)    == downloads \ {h}

Unqueued(h) == iqueue' = Dequeued(iqueue, h) /\ cqueue' = Dequeued(cqueue, h)

(* StopTorrent: paused, resume data written, removed.                        *)
Torn(h) == /\ swarm' = Out(swarm, pairs[h].of)
           /\ lib' \in Stopped(lib, pairs[h].of)

(* The HTTP downloader finds a record by m_Handle of its FDownloadInfo, and  *)
(* perhaps not when that was deleted.                                        *)
Misses(h, list) == h \in freed \/ net[h] # list

(* StopDownload looks into m_aDownloads only, and tells the worker to abort. *)
StopDownload(h) ==
    \/ net[h] = "running" /\ net' = [net EXCEPT ![h] = "stopping"]
    \/ Misses(h, "running") /\ net' = net

(* RemoveDownload, also for a handle that is no longer listed.               *)
RemoveDownload(h) ==
    /\ phase # "stopped"
    /\ pairs[h].given
    /\ Unqueued(h)
    /\ downloads' = Unlisted(h)
    /\ \/ /\ h \notin downloads
          /\ UNCHANGED <<swarm, lib, net, told>>
       \/ /\ h \in downloads
          /\ Tell(h, "removed")
          /\ \/ /\ IsTorrent(h) /\ Valid(h)
                /\ Torn(h)
                /\ net' = net
             \/ /\ ~(IsTorrent(h) /\ Valid(h))
                /\ StopDownload(h)
                /\ UNCHANGED <<swarm, lib>>
    /\ UNCHANGED <<pairs, work, freed, alerts, complete, phase, rest>>

(* Pause of the HTTP downloader: from m_aDownloads to m_aPaused, whatever    *)
(* the worker is doing.                                                      *)
Pause(h) ==
    \/ /\ net[h] = "running"
       /\ net' = [net EXCEPT ![h] = "paused"]
       /\ work' = work
       /\ outpaced' = (outpaced \/ Busy(h, {"passed", "reported"}))
    \/ Misses(h, "running") /\ UNCHANGED <<net, work, outpaced>>

(* Mutant of Resume: the record is listed again but not pushed to m_Urls.    *)
ResumeUnpushed(h) ==
    \/ /\ net[h] = "paused"
       /\ net' = [net EXCEPT ![h] = "running"]
       /\ work' = work
       /\ outpaced' = (outpaced \/ Busy(h, Stages))
    \/ Misses(h, "paused") /\ UNCHANGED <<net, work, outpaced>>

(* Resume: back to m_aDownloads, and one worker more, whether or not the one *)
(* before has noticed the pause.                                             *)
Resume(h) ==
    \/ /\ net[h] = "paused"
       /\ net' = [net EXCEPT ![h] = "running"]
       /\ work' = [work EXCEPT ![h]["fetching"] = @ + 1]
       /\ outpaced' = (outpaced \/ Busy(h, Stages))
    \/ Misses(h, "paused") /\ UNCHANGED <<net, work, outpaced>>

(* PauseResume: the flag is kept for the time the torrent is added.          *)
PauseResume(h, pause) ==
    /\ phase # "stopped"
    /\ calls < world.calls
    /\ h \in downloads
    /\ pairs[h].given
    /\ calls' = calls + 1
    /\ pairs' = [pairs EXCEPT ![h].paused = pause]
    /\ \/ /\ IsTorrent(h) /\ Valid(h)
          /\ swarm' = [swarm EXCEPT ![pairs[h].of].paused = pause]
          /\ UNCHANGED <<net, work, outpaced>>
       \/ /\ ~(IsTorrent(h) /\ Valid(h))
          /\ IF pause THEN Pause(h) ELSE Resume(h)
          /\ swarm' = swarm
    /\ UNCHANGED <<downloads, queues, lib, freed, alerts, complete, world, phase,
                   told, swapped>>

-----------------------------------------------------------------------------
(* The workers of the HTTP downloader, on the record of handle h.  A record  *)
(* that another worker has deleted ("ended") may hold anything.              *)
Move(h, from, to) == [work EXCEPT ![h][from] = @ - 1, ![h][to] = @ + 1]
Leave(h, from)    == [work EXCEPT ![h][from] = @ - 1]

Elsewhere == <<pairs, downloads, queues, swarm, lib, freed, handling, complete,
               phase, told, rest>>

(* ProcessDownload sees m_Abort, which Pause has set.  For a transfer that   *)
(* was stopped it makes no difference: the result is E_ABORT either way.     *)
HttpAborts(h) ==
    /\ net[h] = "paused"
    /\ work[h]["fetching"] > 0
    /\ work' = Move(h, "fetching", "aborting")
    /\ UNCHANGED <<net, http, Elsewhere>>

(* OnDownloadComplete begins: m_Paused is read without the lock.             *)
HttpChecks(h) ==
    /\ work[h]["fetching"] > 0
    /\ \/ net[h] # "paused" /\ work' = Move(h, "fetching", "passed")
       \/ net[h] \in {"paused", "ended"} /\ work' = Leave(h, "fetching")
    /\ UNCHANGED <<net, http, Elsewhere>>

(* m_HttpAlerts.Push drops what does not fit.                                *)
Deliver(h, hr) ==
    http' = IF Len(http) < HttpCapacity THEN Append(http, [h |-> h, hr |-> hr]) ELSE http

(* m_Abort is read after m_Paused: a worker that passed reports E_ABORT of   *)
(* what was stopped or paused since.                                         *)
Outcomes(h) == CASE net[h] \in {"stopping", "paused"} -> {"E_ABORT"}
                 [] net[h] = "running" -> {"S_OK", "E_FAIL"}
                 [] OTHER -> {"S_OK", "E_FAIL", "E_ABORT"}

HttpReports(h) ==
    /\ work[h]["passed"] > 0
    /\ work' = Move(h, "passed", "reported")
    /\ \/ \E hr \in Outcomes(h) : Deliver(h, hr)
       \/ net[h] = "ended" /\ http' = http
    /\ UNCHANGED <<net, Elsewhere>>

(* A worker that noticed m_Abort is silent, unless m_Paused was cleared      *)
(* meanwhile.  Check and report are one step: E_ABORT is what it reports     *)
(* whatever comes between.                                                   *)
HttpGivesUp(h) ==
    /\ work[h]["aborting"] > 0
    /\ \/ /\ net[h] # "paused"
          /\ work' = Move(h, "aborting", "reported")
          /\ Deliver(h, "E_ABORT")
       \/ /\ net[h] \in {"paused", "ended"}
          /\ work' = Leave(h, "aborting")
          /\ http' = http
    /\ UNCHANGED <<net, Elsewhere>>

(* OnDownloadComplete ends: the record is deleted if it is in m_aDownloads.  *)
HttpUnlists(h) ==
    /\ work[h]["reported"] > 0
    /\ work' = Leave(h, "reported")
    /\ net' = [net EXCEPT ![h] = IF @ \in {"running", "stopping"} THEN "ended" ELSE @]
    /\ UNCHANGED <<http, Elsewhere>>

HttpStep(h) ==
    HttpAborts(h) \/ HttpChecks(h) \/ HttpReports(h) \/ HttpGivesUp(h) \/ HttpUnlists(h)

(* The alert thread took a result: OnHttpDownloadComplete.  The handle comes *)
(* from the FDownloadInfo, which is deleted when its pair was found; what    *)
(* another result reads there then is its handle or nothing that is listed.  *)
OnHttpDownloadComplete ==
    /\ phase = "running"
    /\ handling = None
    /\ http # <<>>
    /\ http' = Front(http)
    /\ LET h  == Last(http).h
           ok == Last(http).hr = "S_OK"
       IN  \/ /\ h \notin downloads \/ h \in freed
              /\ UNCHANGED <<queues, told, freed>>
           \/ /\ h \in downloads /\ ok /\ IsTorrent(h)
              /\ QueueTorrent(h, pairs[h].done)
              /\ Tell(h, "other")
              /\ freed' = freed \cup {h}
           \/ /\ h \in downloads /\ ~(ok /\ IsTorrent(h))
              /\ Tell(h, IF ok THEN "finished" ELSE "failed")
              /\ freed' = freed \cup {h}
              /\ UNCHANGED queues
    /\ UNCHANGED <<pairs, downloads, swarm, lib, net, work, handling, complete,
                   phase, rest>>

(* ProcessAlerts takes the next alert; for the end of a torrent              *)
(* OnTorrentFinished notes the time.                                         *)
PopAlert ==
    /\ phase = "running"
    /\ handling = None
    /\ lib # <<>>
    /\ lib' = Tail(lib)
    /\ handling' = Head(lib)
    /\ pairs' = [h \in Handles |->
          IF Head(lib).kind = "finished" /\ h \in Owners(pairs, Head(lib).of)
          THEN [pairs[h] EXCEPT !.started = "lately"] ELSE pairs[h]]
    /\ UNCHANGED <<downloads, queues, swarm, transfers, http, complete, phase, told, rest>>

(* SendAlert(torrent_handle): to the pair that has the torrent by now.       *)
SendAlert ==
    /\ handling # None
    /\ handling' = None
    /\ told' = [h \in Handles |->
          IF h \in Owners(pairs, handling.of)
          THEN Heard(told[h], IF handling.kind = "finished" THEN "finished" ELSE "other")
          ELSE told[h]]
    /\ UNCHANGED <<pairs, downloads, queues, swarm, lib, transfers, http, complete,
                   phase, rest>>

-----------------------------------------------------------------------------
(* Mutant of AddTorrent: the torrent starts whatever CFLAG_PAUSED says.      *)
AddTorrentRunning(s, h) ==
    LET t == s.pairs[h].of IN
    IF h \notin downloads \/ t \in world.unreadable THEN s
    ELSE IF s.swarm[t].at # "out" THEN [s EXCEPT !.pairs[h].handle = FALSE]
    ELSE [s EXCEPT !.pairs[h].handle = TRUE,
                   !.swarm[t] = [at |-> "checking", paused |-> FALSE],
                   !.told[h] = Heard(@, "other")]

(* AddTorrent: a torrent the session has already raises duplicate_torrent,   *)
(* and the pair is left with an empty handle.                                *)
AddTorrent(s, h) ==
    LET t == s.pairs[h].of IN
    IF h \notin downloads \/ t \in world.unreadable THEN s
    ELSE IF s.swarm[t].at # "out" THEN [s EXCEPT !.pairs[h].handle = FALSE]
    ELSE [s EXCEPT !.pairs[h].handle = TRUE,
                   !.swarm[t] = [at |-> "checking", paused |-> s.pairs[h].paused],
                   !.told[h] = Heard(@, "other")]

Session == [pairs |-> pairs, swarm |-> swarm, told |-> told, cqueue |-> cqueue,
            lib |-> lib]

Becomes(s) ==
    /\ pairs' = s.pairs
    /\ swarm' = s.swarm
    /\ told' = s.told
    /\ cqueue' = s.cqueue
    /\ lib' = s.lib

Full == Cardinality(SwarmSet) >= MaxTorrents

(* Mutant of Evictions: the seed is not queued again.                        *)
EvictionsForgetful ==
    LET seeds == {t \in SwarmSet : IsSeed(t) /\ Owners(pairs, t) # {}} IN
    IF ~Full \/ seeds = {} THEN {Session}
    ELSE UNION {{[Session EXCEPT !.swarm = Out(@, t), !.lib = l] : l \in Stopped(lib, t)}
                : t \in seeds}

(* Mutant of Evictions: the torrent is queued, not its download.             *)
EvictionsByHash ==
    LET seeds == {t \in SwarmSet : IsSeed(t) /\ Owners(pairs, t) # {}} IN
    IF ~Full \/ seeds = {} THEN {Session}
    ELSE UNION {{[Session EXCEPT !.cqueue = Append(@, t), !.swarm = Out(@, t), !.lib = l]
                 : l \in Stopped(lib, t)} : t \in seeds}

(* Mutant of Evictions: no seed makes room.                                  *)
EvictionsNone == {Session}

(* RemoveCompletedTorrent: the first seed it finds the pair of goes back to  *)
(* the queue of complete torrents.                                           *)
Evictions ==
    LET seeds == {t \in SwarmSet : IsSeed(t) /\ Owners(pairs, t) # {}} IN
    IF ~Full \/ seeds = {} THEN {Session}
    ELSE UNION {{[Session EXCEPT !.cqueue = Append(@, CHOOSE h \in Owners(pairs, t) : TRUE),
                                 !.swarm = Out(@, t), !.lib = l] : l \in Stopped(lib, t)}
                : t \in seeds}

(* Mutant of CheckIncompleteQueue: the head waits until there is room.       *)
CheckIncompleteQueueWaiting ==
    /\ phase # "stopped"
    /\ \/ /\ iqueue = <<>> \/ Full
          /\ UNCHANGED <<pairs, queues, swarm, told, lib>>
       \/ /\ iqueue # <<>> /\ ~Full
          /\ Becomes(AddTorrent(Session, Head(iqueue)))
          /\ iqueue' = Tail(iqueue)
    /\ UNCHANGED <<downloads, transfers, alerts, complete, phase, rest>>

(* CheckIncompleteQueue: the head is added even when nothing made room.      *)
CheckIncompleteQueue ==
    /\ phase # "stopped"
    /\ \/ /\ iqueue = <<>>
          /\ UNCHANGED <<pairs, queues, swarm, told, lib>>
       \/ /\ iqueue # <<>>
          /\ \E s \in Evictions : Becomes(AddTorrent(s, Head(iqueue)))
          /\ iqueue' = Tail(iqueue)
    /\ UNCHANGED <<downloads, transfers, alerts, complete, phase, rest>>

(* A seed that may be swapped: it has seeded long enough.                    *)
Eligible(s, t) == IsSeed(t) /\ \E g \in Owners(s.pairs, t) : s.pairs[g].started = "long ago"

(* One turn of the loop of CheckCompleteQueue: seed t makes room for h, with *)
(* or without an event=stopped.                                              *)
Swap(s, t, h, quiet) ==
    IF ~Eligible(s, t) THEN s
    ELSE LET g  == CHOOSE g \in Owners(s.pairs, t) : TRUE
             s1 == [s EXCEPT !.swarm = Out(@, t),
                             !.lib = IF t \in quiet THEN @
                                     ELSE Append(@, [kind |-> "stopped", of |-> t]),
                             !.pairs[g].started = "never"]
             s2 == [s1 EXCEPT !.pairs[h].started = "never"]
         IN  [AddTorrent(s2, h) EXCEPT !.cqueue = Append(Tail(@), h)]

(* The loop over get_torrents(), in any order: what each turn leaves.         *)
Swaps(order, quiet) ==
    LET after[i \in 0..Len(order)] ==
            IF i = 0 THEN Session ELSE Swap(after[i - 1], order[i], Head(cqueue), quiet)
    IN  after[Len(order)]

(* CheckCompleteQueue: the head is added if there is room; otherwise it      *)
(* takes the place of every seed that has seeded long enough.                *)
CheckCompleteQueue ==
    /\ phase # "stopped"
    /\ \/ /\ cqueue # <<>> => Full /\ Head(cqueue) \notin downloads
          /\ UNCHANGED <<pairs, cqueue, swarm, told, lib, swapped>>
       \/ /\ cqueue # <<>> /\ ~Full
          /\ Becomes([AddTorrent(Session, Head(cqueue)) EXCEPT !.cqueue = Tail(@)])
          /\ UNCHANGED swapped
       \/ /\ cqueue # <<>> /\ Full /\ Head(cqueue) \in downloads
          /\ \E order \in SetToSeqs(SwarmSet), quiet \in SUBSET SwarmSet :
                Becomes(Swaps(order, quiet))
          /\ swapped' = (swapped \/ \E t \in SwarmSet : Eligible(Session, t))
    /\ UNCHANGED <<downloads, iqueue, transfers, alerts, complete, phase, world, outpaced,
                   calls>>

-----------------------------------------------------------------------------
(* libtorrent: a torrent that was checked is a seed at once if its data is   *)
(* there; one that leeches becomes a seed.                                   *)
Joins(t, at) == swarm' = [swarm EXCEPT ![t].at = at]

Finished(t)  == lib' = Append(lib, [kind |-> "finished", of |-> t])

Checked(t) ==
    /\ swarm[t].at = "checking"
    /\ \/ t \in complete /\ Joins(t, "seeding") /\ Finished(t)
       \/ t \notin complete /\ Joins(t, "leeching") /\ lib' = lib
    /\ UNCHANGED <<pairs, downloads, queues, transfers, alerts, complete, phase, told, rest>>

Leeched(t) ==
    /\ swarm[t].at = "leeching"
    /\ ~swarm[t].paused
    /\ Joins(t, "seeding")
    /\ Finished(t)
    /\ complete' = complete \cup {t}
    /\ UNCHANGED <<pairs, downloads, queues, transfers, alerts, phase, told, rest>>

(* m_SeedTime is over for the torrent of h.                                  *)
SeedTimeOver(h) ==
    /\ pairs[h].started = "lately"
    /\ pairs' = [pairs EXCEPT ![h].started = "long ago"]
    /\ UNCHANGED <<downloads, queues, swarm, lib, transfers, alerts, complete, phase,
                   told, rest>>

-----------------------------------------------------------------------------
(* Stop: the results are cleared, the alert thread is joined.                *)
StopAlerts ==
    /\ phase = "running"
    /\ handling = None
    /\ phase' = "joined"
    /\ http' = <<>>
    /\ UNCHANGED <<pairs, downloads, queues, swarm, lib, transfers, handling, complete,
                   told, rest>>

(* Then everything is removed, also what the session may still contain, and  *)
(* the queue thread is told to stop.                                         *)
Stoppable == {h \in downloads : ~(IsTorrent(h) /\ Valid(h)) /\ net[h] = "running"}

StopAll ==
    /\ phase = "joined"
    /\ phase' = "stopped"
    /\ iqueue' = <<>>
    /\ cqueue' = <<>>
    /\ told' = [h \in Handles |-> IF h \in downloads THEN Heard(told[h], "removed") ELSE told[h]]
    /\ net' \in {[h \in Handles |-> IF h \in found THEN "stopping" ELSE net[h]] :
                 found \in {F \in SUBSET Stoppable : Stoppable \subseteq F \cup freed}}
    /\ swarm' = [t \in Torrents |-> [at |-> "out", paused |-> FALSE]]
    /\ downloads' = {}
    /\ UNCHANGED <<pairs, lib, work, freed, alerts, complete, rest>>

-----------------------------------------------------------------------------
AlertThread == OnHttpDownloadComplete \/ PopAlert \/ SendAlert
Libtorrent(t) == Checked(t) \/ Leeched(t)

Next ==
    \/ \E x \in Files \cup Torrents, done, paused \in BOOLEAN : AddDownload(x, done, paused)
    \/ \E h \in Handles :
          \/ RemoveDownload(h) \/ HttpStep(h) \/ SeedTimeOver(h)
          \/ \E pause \in BOOLEAN : PauseResume(h, pause)
    \/ \E t \in Torrents : Libtorrent(t)
    \/ AlertThread \/ CheckIncompleteQueue \/ CheckCompleteQueue \/ StopAlerts \/ StopAll

Spec == Init /\ [][Next]_vars

(* The two threads go on, transfers and torrents that are not paused end,    *)
(* time passes.  Nobody has to add, remove, pause, resume or stop.           *)
Fairness ==
    /\ WF_vars(AlertThread)
    /\ WF_vars(CheckIncompleteQueue) /\ WF_vars(CheckCompleteQueue)
    /\ WF_vars(\E h \in Handles : HttpStep(h))
    /\ \A t \in Torrents : WF_vars(Libtorrent(t))

FairSpec == Spec /\ Fairness

-----------------------------------------------------------------------------
Count(q, h) == Cardinality({i \in DOMAIN q : q[i] = h})

(* Where a torrent that is listed is: its metafile on the way (or its result *)
(* not seen yet), in one of the queues, or in the session.                   *)
Coming(h)   == \/ net[h] = "paused" \/ Busy(h, Stages \ {"reported"})
               \/ \E i \in DOMAIN http : http[i].h = h
Places(h)   == (IF Coming(h) THEN 1 ELSE 0) + Count(iqueue, h) + Count(cqueue, h)
               + (IF Valid(h) THEN 1 ELSE 0)

Unfetched(h) == told[h] = "failed" \/ pairs[h].of \in world.unreadable

InOnePlace(h) ==
    IF h \in downloads
    THEN Places(h) = 1 \/ (Places(h) = 0 /\ Unfetched(h))
    ELSE Count(iqueue, h) + Count(cqueue, h) = 0

(* One place for every torrent: in whatever order results, evictions, pauses *)
(* and removals come, a listed torrent is in exactly one place, unless its   *)
(* metafile could not be had or loaded; one that is not listed is nowhere.   *)
(* And every torrent of the session belongs to a pair: RemoveDownload can    *)
(* take it out again, and Stop leaves nothing behind.  This holds until      *)
(* CheckCompleteQueue has swapped torrents, and until a pause has come while *)
(* a worker was delivering its result, or a resume before the worker was     *)
(* done with the pause: there may be two results then, or none.              *)
OnePlace ==
    ~swapped /\ ~outpaced =>
        /\ phase = "running" =>
              \A h \in Handles : IsTorrent(h) /\ pairs[h].given => InOnePlace(h)
        /\ \A t \in SwarmSet : Owners(pairs, t) # {}

(* A torrent is paused in the session exactly when its clip is: also when    *)
(* the pause or resume came while it was queued or being fetched.            *)
PauseAgrees ==
    \A h \in downloads : IsTorrent(h) /\ Valid(h) => pairs[h].paused = swarm[pairs[h].of].paused

(* After the ALERT_ITEM_REMOVED of its removal nothing is said of a clip:    *)
(* results of HTTP and alerts of libtorrent that arrive late are dropped.    *)
SilentAfterRemoval ==
    \A h \in Handles : told[h] # "late"

(* Torrents are only added beyond m_MaxTorrents from the queue of incomplete *)
(* ones, and only when no seed could make room.  Like OnePlace it needs one  *)
(* result for each handle: a torrent queued twice loses its pair, and a seed *)
(* without a pair makes no room.                                             *)
LimitYieldsToDownloads ==
    [][Cardinality(SwarmSet') > Cardinality(SwarmSet) /\ Full /\ ~swapped /\ ~outpaced
          => iqueue' # iqueue /\ \A t \in SwarmSet : ~IsSeed(t)]_vars

(* Everything that is to be downloaded is reported, finished or failed,      *)
(* unless it is paused or removed, its metafile is unreadable, or Stop came, *)
(* or the ghosts of OnePlace say that it may be in no place.                 *)
EveryClipEnds ==
    \A h \in 1..MaxAdds :
        (h \in downloads /\ pairs[h].given /\ ~pairs[h].done /\ net[h] = "running")
        ~> ( \/ h \notin downloads \/ pairs[h].paused \/ phase # "running"
             \/ swapped \/ outpaced
             \/ told[h] \in {"finished", "failed"}
             \/ pairs[h].of \in world.unreadable )
=============================================================================
