----------------------------- MODULE DownloadMgr -----------------------------
(***************************************************************************)
(* FDownloadMgr (LiberTV/FDownloadMgr.cpp): the collection of downloads,   *)
(* the queue of those that wait for a slot, and the handlers that move a   *)
(* download from clip to clip.                                             *)
(*                                                                         *)
(* Everything happens under m_Sync, but its functions call one another in  *)
(* a circle (QueueDownload, QueueNextDownloadItem, QueueDownloadItem,      *)
(* OnItemComplete, OnDownloadComplete and QueueDownload again).  "calls"   *)
(* is what the thread inside m_Sync still has to do, first things first;   *)
(* a step runs the body of the first function up to its next call, and     *)
(* another thread gets m_Sync only when calls is empty.                    *)
(*                                                                         *)
(* The clip downloader is reduced to what the manager can tell apart: a    *)
(* pair per handle, fetching over HTTP, in the torrent session or at rest, *)
(* and the alerts it pushes on m_AlertNotify, a stack (see SemaStack).     *)
(***************************************************************************)
EXTENDS Integers, Sequences, FiniteSets, SequencesExt

CONSTANTS Videos,        \* video IDs
          ClipCount,     \* clips of each video
          ClipType,      \* their m_DownloadType: "http", "torrent" or "stream"
          Playlists,     \* videos with VIDEO_FLAG_IS_PLAYLIST
          MaxDownloads,  \* g_AppSettings.m_MaxDownloads
          MaxAlerts,     \* m_Alerts.SetSize
          Worlds         \* the environments to be considered, see below

(* A world is an environment: the videos there are, those whose URL turns    *)
(* out to serve a torrent file, the flags a download may be loaded with,     *)
(* bounds of the model for failed transfers and calls of the user, and       *)
(* liberties: what may happen in it.                                         *)
(* remove-paused  the user deletes a paused download                         *)
(* remove-again   the user deletes a download that is being deleted          *)
(* add-again      a deleted video is added again                             *)
(* stale-start    "Start" is chosen from a menu opened before a change       *)
(* pause-failed   the user pauses a download that waits for a retry          *)
(* gone           the server may not have the file (E_HTTP_NOTFOUND)         *)
(* refuse         the clip downloader may refuse a clip                      *)
(* disk           CheckFreeSpace may fail                                    *)
(* rotate         a seeding torrent is taken out of the session              *)
(* abort          a paused transfer reports E_ABORT (see AsyncDownload)      *)
(* moved          the file of a completed clip is no longer there            *)
(* crash          an earlier run ended between the end of a file and the     *)
(*                SaveDownload that records it                               *)
(* last-fails     the last clip of a playlist may fail                       *)
(* overtake       the alert thread may find ALERT_CONTENT_TYPE on top of the *)
(*                ALERT_DOWNLOAD_FINISHED that was pushed before it          *)
AllLiberties == {"remove-paused", "remove-again", "add-again", "stale-start",
                 "pause-failed", "gone", "refuse", "disk", "rotate", "abort",
                 "moved", "crash", "last-fails", "overtake"}

World == [videos : SUBSET Videos, bittorrent : SUBSET Videos, fails : Nat, ops : Nat,
          stored : SUBSET SUBSET {"FINISHED", "PAUSED"}, may : SUBSET AllLiberties]

ASSUME DownloadMgrAssumption ==
    /\ IsFiniteSet(Videos)
    /\ ClipCount \in [Videos -> Nat \ {0}]
    /\ ClipType \in [Videos -> {"http", "torrent", "stream"}]
    /\ Playlists \subseteq Videos
    /\ MaxDownloads \in Nat \ {0}
    /\ MaxAlerts \in Nat
    /\ Worlds \subseteq World

VARIABLES
    listed,    \* the videos in m_Downloads and m_IdMap
    item,      \* each FDownload
    active,    \* m_ActiveDownloads
    queue,     \* m_QueuedDownloads
    allPaused, \* m_bAllPaused
    calls,     \* what the thread inside m_Sync still has to do
    alerts,    \* m_AlertNotify.m_Alerts, the top is the last element
    retry,     \* m_SchedItems: retries scheduled for each video
    pairs,     \* the pairs of the clip downloader, by handle
    fails,     \* failed transfers so far (bounds the model)
    ops,       \* calls from the user interface so far (bounds the model)
    world      \* the environment, it never changes

vars == <<listed, item, active, queue, allPaused, calls, alerts, retry, pairs,
          fails, ops, world>>

Flags == {"ACTIVE", "FINISHED", "PAUSED", "STOPPED", "DELETED", "QUEUED",
          "FORCE", "ERR_NETWORK"}

Clips(v) == 1..ClipCount[v]

(* A download as the constructor makes it.                                   *)
Fresh(v) ==
    [flags     |-> {},                                \* m_dwFlags
     cur       |-> 0,                                 \* m_CurClipIndex
     clips     |-> 0,                                 \* m_dwClipsActive
     error     |-> FALSE,                             \* m_StatusStr has "Error"
     completed |-> {},                                \* clips: m_bCompleted
     timed     |-> {},                                \* clips: m_TimeCompleted > 0
     missing   |-> {},                                \* clips: CLIP_NOT_FOUND
     type      |-> [k \in Clips(v) |-> ClipType[v]],  \* m_DownloadType
     handle    |-> [k \in Clips(v) |-> 0]]            \* m_DownloadHandle

Call(f, v)         == [do |-> f, v |-> v, k |-> 0, hr |-> "S_OK"]
CallClip(f, v, k)  == [do |-> f, v |-> v, k |-> k, hr |-> "S_OK"]
Complete(v, k, hr) == [do |-> "OnItemComplete", v |-> v, k |-> k, hr |-> hr]

Is(v, flag)  == flag \in item[v].flags
IsStream(v)  == item[v].type[1] = "stream"
IsDownloadableStream(v) == IsStream(v)

Failures == {"E_HTTP_NET_ERROR", "E_HTTP_NOTFOUND", "E_FAIL"}

TypeOK ==
    /\ listed \subseteq Videos
    /\ \A v \in Videos :
          /\ item[v].flags \subseteq Flags
          /\ item[v].cur \in 0..ClipCount[v]
          /\ item[v].clips \in Int
          /\ item[v].error \in BOOLEAN
          /\ item[v].completed \cup item[v].timed \cup item[v].missing \subseteq Clips(v)
          /\ item[v].handle \in [Clips(v) -> 0..Len(pairs)]
    /\ active \in Int
    /\ queue \in Seq(Videos)
    /\ allPaused \in BOOLEAN
    /\ alerts \in Seq([code : {"FINISHED", "REMOVED", "TORRENT", "SCHEDULED"},
                       v : Videos, k : Nat, hr : {"S_OK", "E_ABORT"} \cup Failures])
    /\ Len(alerts) <= MaxAlerts
    /\ retry \in [Videos -> Nat]
    /\ \A h \in DOMAIN pairs :
          pairs[h].at \in {"http", "torrent", "typing", "seeding", "idle", "gone"}

Init ==
    /\ listed = {}
    /\ item = [v \in Videos |-> Fresh(v)]
    /\ active = 0
    /\ queue = <<>>
    /\ allPaused = TRUE
    /\ calls = <<>>
    /\ alerts = <<>>
    /\ retry = [v \in Videos |-> 0]
    /\ pairs = <<>>
    /\ fails = 0
    /\ ops = 0
    /\ world \in Worlds

-----------------------------------------------------------------------------
May(liberty) == liberty \in world.may

(* m_AlertNotify.Notify: Push drops what does not fit.                       *)
Push(as, new) == SubSeq(as \o new, 1, IF Len(as \o new) <= MaxAlerts
                                      THEN Len(as \o new) ELSE MaxAlerts)

(* The clip downloader is inside OnHttpDownloadComplete, under its own lock. *)
ClipDownloaderFree == \A h \in DOMAIN pairs : pairs[h].at # "typing"

HandlesOf(v) == {item[v].handle[k] : k \in Clips(v)} \ {0}

(* Mutant of FreeSpace: the remaining space is always too little.            *)
NoSpace(v) == {FALSE}

(* CheckFreeSpace only looks at the disk for a download that is to run.      *)
FreeSpace(v) ==
    IF May("disk") /\ item[v].flags \cap {"FINISHED", "PAUSED", "STOPPED"} = {}
    THEN BOOLEAN ELSE {TRUE}

(* The body of function f is the first thing to do, for video v.             *)
Doing(f, v) == calls # <<>> /\ Head(calls).do = f /\ Head(calls).v = v

(* It ends with the calls cs, in that order.                                 *)
Then(cs) == calls' = cs \o Tail(calls)

(* QueueDownload(FDownloadEx* ).                                              *)
QueueDownload(v) ==
    /\ Doing("QueueDownload", v)
    /\ \/ /\ (Is(v, "FINISHED") /\ ~Is(v, "PAUSED")) \/ IsStream(v)
          /\ Then(<<Call("QueueNextDownloadItem", v)>>)
          /\ UNCHANGED <<item, active, queue>>
       \/ /\ ~((Is(v, "FINISHED") /\ ~Is(v, "PAUSED")) \/ IsStream(v))
          /\ Is(v, "PAUSED") /\ ~Is(v, "FORCE")
          /\ item' = [item EXCEPT ![v].error = FALSE]
          /\ Then(<<>>)
          /\ UNCHANGED <<active, queue>>
       \/ /\ ~((Is(v, "FINISHED") /\ ~Is(v, "PAUSED")) \/ IsStream(v))
          /\ ~(Is(v, "PAUSED") /\ ~Is(v, "FORCE"))
          /\ \E enough \in FreeSpace(v) :
                \/ /\ enough /\ (active < MaxDownloads \/ Is(v, "FORCE"))
                   /\ active' = active + 1
                   /\ item' = [item EXCEPT ![v].flags = @ \ {"QUEUED", "FORCE", "PAUSED"}]
                   /\ Then(<<Call("QueueNextDownloadItem", v)>>)
                   /\ UNCHANGED queue
                \/ /\ ~(enough /\ (active < MaxDownloads \/ Is(v, "FORCE")))
                   /\ item' = [item EXCEPT ![v].flags = @ \cup {"QUEUED"}, ![v].error = FALSE]
                   /\ queue' = Append(queue, v)
                   /\ Then(<<>>)
                   /\ UNCHANGED active
    /\ UNCHANGED <<listed, allPaused, alerts, retry, pairs, fails, ops, world>>

(* QueueNextDownloadItem: with no clip left it is ATLASSERT(FALSE).          *)
QueueNextDownloadItem(v) ==
    /\ Doing("QueueNextDownloadItem", v)
    /\ \/ /\ item[v].cur < ClipCount[v]
          /\ item' = [item EXCEPT ![v].cur = @ + 1, ![v].clips = @ + 1]
          /\ Then(<<CallClip("QueueDownloadItem", v, item[v].cur + 1)>>)
       \/ /\ item[v].cur >= ClipCount[v]
          /\ Then(<<>>)
          /\ UNCHANGED item
    /\ UNCHANGED <<listed, active, queue, allPaused, alerts, retry, pairs, fails, ops, world>>

(* QueueDownloadItem, up to the call of QueueDownload(pDownload, clipIndex). *)
QueueDownloadItem(v) ==
    /\ Doing("QueueDownloadItem", v)
    /\ LET k    == Head(calls).k
           must == item[v].type[k] # "stream" /\ k \notin item[v].missing
       IN  Then((IF ~must \/ k \in item[v].timed THEN <<Complete(v, k, "S_OK")>> ELSE <<>>)
                \o (IF must THEN <<CallClip("AddClip", v, k)>> ELSE <<>>))
    /\ UNCHANGED <<listed, item, active, queue, allPaused, alerts, retry, pairs, fails, ops, world>>

(* What FClipDownloaderEx::AddDownload may do with a clip: refuse it, have   *)
(* the metadata (or, for HTTP, the whole file) already, or start fetching.   *)
Outcomes(v, k) ==
    (IF May("refuse") /\ fails < world.fails THEN {"QD_FAILED"} ELSE {})
    \cup (IF k \in item[v].timed THEN {"QD_ADDED"} \cup IF May("moved") THEN {"QD_PENDING"} ELSE {}
          ELSE IF item[v].type[k] = "torrent" \/ May("crash") THEN {"QD_ADDED", "QD_PENDING"}
          ELSE {"QD_PENDING"})

(* The rest of QueueDownloadItem, from QueueDownload(pDownload, clipIndex).  *)
AddClip(v) ==
    /\ Doing("AddClip", v)
    /\ ClipDownloaderFree
    /\ \E hr \in Outcomes(v, Head(calls).k) :
          LET k       == Head(calls).k
              started == hr # "QD_FAILED" /\ ~(hr = "QD_ADDED" /\ k \in item[v].timed)
              pair    == [v |-> v, k |-> k, type |-> item[v].type[k], paused |-> Is(v, "PAUSED"),
                          at |-> IF hr = "QD_PENDING" THEN "http"
                                 ELSE IF item[v].type[k] = "torrent" THEN "torrent" ELSE "idle"]
          IN  /\ pairs' = IF hr = "QD_FAILED" THEN pairs ELSE Append(pairs, pair)
              /\ fails' = IF hr = "QD_FAILED" THEN fails + 1 ELSE fails
              /\ item' = [item EXCEPT
                    ![v].handle[k] = IF hr = "QD_FAILED" THEN 0 ELSE Len(pairs) + 1,
                    ![v].flags     = IF started THEN (@ \ {"FINISHED", "QUEUED"}) \cup {"ACTIVE"}
                                     ELSE @,
                    ![v].error     = IF started THEN FALSE ELSE @]
              /\ Then(IF started THEN <<>>
                      ELSE <<Complete(v, k, IF hr = "QD_FAILED" THEN "E_FAIL" ELSE "S_OK")>>)
    /\ UNCHANGED <<listed, active, queue, allPaused, alerts, retry, ops, world>>

(* Mutant of Onward: off by one.                                             *)
OnwardPast(v) == IF item[v].cur <= ClipCount[v] THEN <<Call("QueueNextDownloadItem", v)>>
                 ELSE <<Call("OnDownloadComplete", v)>>

(* A completed clip leads to the next one or completes the download.         *)
Onward(v)     == IF item[v].cur < ClipCount[v] THEN <<Call("QueueNextDownloadItem", v)>>
                 ELSE <<Call("OnDownloadComplete", v)>>

(* OnItemComplete(FDownload*, FDownloadItem*, HRESULT).                      *)
OnItemComplete(v) ==
    /\ Doing("OnItemComplete", v)
    /\ LET k  == Head(calls).k
           hr == Head(calls).hr
       IN  \/ /\ hr = "S_OK"
              /\ item' = [item EXCEPT ![v].timed = @ \cup {k}, ![v].completed = @ \cup {k}]
              /\ Then(IF k \in item[v].completed THEN <<>> ELSE Onward(v))
              /\ UNCHANGED retry
           \/ /\ hr # "S_OK"
              /\ Is(v, "STOPPED") \/ v \in Playlists
              /\ Then(IF Is(v, "STOPPED") THEN <<>> ELSE <<Call("QueueNextDownloadItem", v)>>)
              /\ UNCHANGED <<item, retry>>
           \/ /\ hr # "S_OK"
              /\ ~Is(v, "STOPPED") /\ v \notin Playlists
              /\ item' = [item EXCEPT
                    ![v].flags   = @ \cup {"ERR_NETWORK"},
                    ![v].error   = TRUE,
                    ![v].missing = IF hr = "E_HTTP_NOTFOUND" THEN @ \cup {k} ELSE @]
              /\ retry' = IF hr = "E_HTTP_NET_ERROR" THEN [retry EXCEPT ![v] = @ + 1] ELSE retry
              /\ Then(<<>>)
    /\ UNCHANGED <<listed, active, queue, allPaused, alerts, pairs, fails, ops, world>>

(* OnDownloadComplete: the slot goes to the head of the queue if the disk    *)
(* has room for it.                                                          *)
OnDownloadComplete(v) ==
    /\ Doing("OnDownloadComplete", v)
    /\ item' = [item EXCEPT ![v].flags = (@ \ {"ACTIVE"}) \cup {"FINISHED"}, ![v].error = FALSE]
    /\ \/ /\ Is(v, "FINISHED") \/ IsStream(v)
          /\ Then(<<>>)
          /\ UNCHANGED <<active, queue>>
       \/ /\ ~(Is(v, "FINISHED") \/ IsStream(v))
          /\ active' = active - 1
          /\ \E enough \in IF queue = <<>> THEN {FALSE} ELSE FreeSpace(Head(queue)) :
                /\ queue' = IF enough THEN Tail(queue) ELSE queue
                /\ Then(IF enough THEN <<Call("QueueDownload", Head(queue))>> ELSE <<>>)
    /\ UNCHANGED <<listed, allPaused, alerts, retry, pairs, fails, ops, world>>

(* DeleteDownloadObject, at the end of EraseDownload or alone.               *)
Deleted(v) ==
    /\ listed' = listed \ {v}
    /\ item' = [item EXCEPT ![v] = Fresh(v)]

EraseDownload(v) ==
    /\ Doing("EraseDownload", v)
    /\ Deleted(v)
    /\ Then(<<>>)
    /\ UNCHANGED <<active, queue, allPaused, alerts, retry, pairs, fails, ops, world>>

(* Mutant of CountTorrentFound: m_ActiveDownloads is left alone.             *)
CountNothing(v) ==
    /\ Doing("CountTorrentFound", v)
    /\ Then(<<>>)
    /\ UNCHANGED <<listed, item, active, queue, allPaused, alerts, retry, pairs, fails, ops, world>>

(* The last line of OnTorrentFound.                                          *)
CountTorrentFound(v) ==
    /\ Doing("CountTorrentFound", v)
    /\ active' = active + 1
    /\ Then(<<>>)
    /\ UNCHANGED <<listed, item, queue, allPaused, alerts, retry, pairs, fails, ops, world>>

-----------------------------------------------------------------------------
(* The user interface: UI and dispatcher threads, one call at a time.        *)
Enter ==
    /\ calls = <<>>
    /\ ClipDownloaderFree

UserCall ==
    /\ Enter
    /\ ops < world.ops
    /\ ops' = ops + 1

(* AddDownload, for a download read from the disk or just converted.  The    *)
(* first k clips may have been completed in an earlier run.                  *)
AddDownload(v) ==
    /\ Enter
    /\ v \in world.videos \ listed
    /\ May("add-again") \/ \A h \in DOMAIN pairs : pairs[h].v # v
    /\ \E stored \in world.stored, k \in 0..ClipCount[v] :
          /\ "FINISHED" \in stored <=> k = ClipCount[v]
          /\ v \in world.bittorrent => k = 0
          /\ item' = [item EXCEPT ![v] = [Fresh(v) EXCEPT !.flags = stored, !.timed = 1..k]]
          /\ allPaused' = (allPaused /\ "PAUSED" \in stored)
    /\ listed' = listed \cup {v}
    /\ calls' = <<Call("QueueDownload", v)>>
    /\ UNCHANGED <<active, queue, alerts, retry, pairs, fails, ops, world>>

(* Mutant of Unqueued: the download stays in the queue.                      *)
UnqueuedNot(v) == queue

(* m_QueuedDownloads.erase: its first place there, if it has one.            *)
Unqueued(v)    == RemoveFirst(queue, v)

(* A stream that was only played is downloaded after all.                    *)
Redownload(d) == [d EXCEPT !.clips = 0, !.cur = 0, !.type[1] = "http",
                           !.timed = @ \ {1}, !.completed = @ \ {1},
                           !.flags = @ \ {"FINISHED"}]

(* StartQueuedDownload.  The menu offers it for a queued download and for a  *)
(* finished stream that can be downloaded (FCollectionMenu.cpp:117-128).     *)
StartQueuedDownload(v) ==
    /\ UserCall
    /\ v \in listed
    /\ \/ Is(v, "QUEUED")
       \/ Is(v, "FINISHED") /\ IsDownloadableStream(v)
       \/ May("stale-start")
    /\ queue' = IF Is(v, "QUEUED") THEN Unqueued(v) ELSE queue
    /\ LET d == IF ~Is(v, "QUEUED") /\ IsDownloadableStream(v) THEN Redownload(item[v]) ELSE item[v]
       IN  item' = [item EXCEPT ![v] = [d EXCEPT !.flags = @ \cup {"FORCE"}]]
    /\ calls' = <<Call("QueueDownload", v)>>
    /\ UNCHANGED <<listed, active, allPaused, alerts, retry, pairs, fails, world>>

(* The downloads m_ActiveDownloads ought to count: started, not finished, not*)
(* waiting, not removed.  A pause keeps the slot.                            *)
Counted(v) ==
    /\ v \in listed
    /\ item[v].clips > 0 \/ Is(v, "ACTIVE")
    /\ item[v].flags \cap {"FINISHED", "QUEUED", "STOPPED"} = {}
    /\ ~IsStream(v)

(* A slot is given back by a download that was counted ...                   *)
HeldSlot(v) == item[v].flags \cap {"FINISHED", "PAUSED", "QUEUED"} = {} /\ ~IsStream(v)

(* Mutant of ErasedAtOnce: a queued download waits for an alert.             *)
ErasedStarted(v) == item[v].flags \cap {"FINISHED", "PAUSED"} # {} \/ item[v].error

(* ... and only a download the clip downloader still works on waits for its  *)
(* ALERT_ITEM_REMOVED before it is erased.                                   *)
ErasedAtOnce(v) == item[v].flags \cap {"FINISHED", "PAUSED", "QUEUED"} # {} \/ item[v].error

(* FClipDownloaderEx::RemoveDownload for each clip: the pair goes away and   *)
(* ALERT_ITEM_REMOVED is pushed.  Nobody looks at the clip of that alert, so *)
(* their order does not matter.                                              *)
LivePairs(v) == {h \in HandlesOf(v) : pairs[h].at # "gone"}

Removed(hs) == [h \in DOMAIN pairs |->
                   IF h \in hs THEN [pairs[h] EXCEPT !.at = "gone"] ELSE pairs[h]]

RemovalAlerts(v) ==
    LET ks == SetToSeq({k \in Clips(v) : item[v].handle[k] \in LivePairs(v)})
    IN  [i \in DOMAIN ks |-> [code |-> "REMOVED", v |-> v, k |-> ks[i], hr |-> "E_ABORT"]]

(* RemoveDownload: mark it deleted, StopDownload, erase it at once or not.   *)
RemoveDownload(v) ==
    /\ UserCall
    /\ v \in listed
    /\ Counted(v) /\ Is(v, "PAUSED") => May("remove-paused")
    /\ Is(v, "DELETED") => May("remove-again")
    /\ LET waiting == Unqueued(v)
           next    == HeldSlot(v) /\ waiting # <<>>
       IN  /\ item' = [item EXCEPT ![v].flags = @ \cup {"DELETED", "STOPPED"}, ![v].error = FALSE]
           /\ pairs' = Removed(LivePairs(v))
           /\ alerts' = Push(alerts, RemovalAlerts(v))
           /\ active' = IF HeldSlot(v) THEN active - 1 ELSE active
           /\ queue' = IF next THEN Tail(waiting) ELSE waiting
           /\ calls' = (IF next THEN <<Call("QueueDownload", Head(waiting))>> ELSE <<>>)
                       \o (IF ErasedAtOnce(v) THEN <<Call("EraseDownload", v)>> ELSE <<>>)
    /\ UNCHANGED <<listed, allPaused, retry, fails, world>>

(* _PauseResume, for one download.                                           *)
Restarted(v)  == Is(v, "PAUSED") /\ ~Is(v, "FINISHED") /\ ~Is(v, "ACTIVE")

Switched(v, pause) == [h \in DOMAIN pairs |->
                          IF h \in HandlesOf(v) THEN [pairs[h] EXCEPT !.paused = pause]
                          ELSE pairs[h]]

Pause(v) ==
    \/ /\ Is(v, "QUEUED")
       /\ UNCHANGED <<item, pairs>>
    \/ /\ ~Is(v, "QUEUED")
       /\ item' = [item EXCEPT ![v].flags = @ \cup {"PAUSED"}, ![v].error = FALSE]
       /\ pairs' = Switched(v, TRUE)

Resume(v) ==
    \/ /\ Is(v, "QUEUED")
       /\ Then(<<>>)
       /\ UNCHANGED <<item, active, allPaused, pairs>>
    \/ /\ ~Is(v, "QUEUED") /\ Restarted(v)
       /\ item' = [item EXCEPT ![v].flags = @ \ {"PAUSED"}]
       /\ active' = active + 1
       /\ allPaused' = FALSE
       /\ Then(<<Call("QueueNextDownloadItem", v)>>)
       /\ UNCHANGED pairs
    \/ /\ ~Is(v, "QUEUED") /\ ~Restarted(v)
       /\ item' = [item EXCEPT ![v].flags = @ \ {"PAUSED"}, ![v].error = FALSE]
       /\ pairs' = Switched(v, FALSE)
       /\ allPaused' = FALSE
       /\ Then(<<>>)
       /\ UNCHANGED active

(* PauseDownload, ResumeDownload, PauseAll and ResumeAll: _PauseResume for   *)
(* one or for every download, under one m_Sync.                              *)
AlertsFor(v) == {i \in DOMAIN alerts : alerts[i].v = v}

(* The server has not got a clip, or the clip downloader refused it.         *)
GivenUp(v) ==
    /\ ~IsStream(v)
    /\ \/ item[v].missing # {}
       \/ item[v].clips > 0 /\ item[v].handle[Max({1, item[v].cur})] = 0

Failed(v) ==
    \/ retry[v] > 0
    \/ GivenUp(v)
    \/ \E i \in AlertsFor(v) : alerts[i].code = "SCHEDULED" \/ alerts[i].hr \in Failures

MayPause(v) == Failed(v) => May("pause-failed")

PauseDownload(v) ==
    /\ UserCall
    /\ v \in listed
    /\ MayPause(v)
    /\ Pause(v)
    /\ UNCHANGED <<listed, active, queue, allPaused, calls, alerts, retry, fails, world>>

PauseAll ==
    /\ UserCall
    /\ \A v \in listed : MayPause(v)
    /\ LET these == {v \in listed : ~Is(v, "QUEUED")} IN
          /\ item' = [v \in Videos |->
                IF v \in these
                THEN [item[v] EXCEPT !.flags = @ \cup {"PAUSED"}, !.error = FALSE] ELSE item[v]]
          /\ pairs' = [h \in DOMAIN pairs |->
                IF h \in UNION {HandlesOf(v) : v \in these}
                THEN [pairs[h] EXCEPT !.paused = TRUE] ELSE pairs[h]]
    /\ allPaused' = TRUE
    /\ UNCHANGED <<listed, active, queue, calls, alerts, retry, fails, world>>

ResumeThese(vs) ==
    /\ UserCall
    /\ calls' = [i \in DOMAIN vs |-> Call("Resume", vs[i])]
    /\ UNCHANGED <<listed, item, active, queue, alerts, retry, pairs, fails, world>>

ResumeDownload(v) ==
    /\ v \in listed
    /\ ResumeThese(<<v>>)
    /\ UNCHANGED allPaused

ResumeAll ==
    /\ ResumeThese(SetToSeq(listed))
    /\ allPaused' = FALSE

ResumeStep(v) ==
    /\ Doing("Resume", v)
    /\ Resume(v)
    /\ UNCHANGED <<listed, queue, alerts, retry, fails, ops, world>>

-----------------------------------------------------------------------------
(* Notify: the alert thread takes the alert on top.                          *)
TopAlert == Last(alerts)

Taken(code) ==
    /\ calls = <<>>
    /\ alerts # <<>>
    /\ TopAlert.code = code
    /\ alerts' = Front(alerts)

Known(v) == v \in listed /\ ~Is(v, "DELETED")

(* OnItemRemoved, also for a FINISHED alert with E_ABORT.                    *)
ItemRemoved(v) ==
    \/ /\ v \notin listed
       /\ UNCHANGED <<listed, item>>
    \/ /\ v \in listed
       /\ item[v].clips - 1 # 0
       /\ item' = [item EXCEPT ![v].clips = @ - 1]
       /\ UNCHANGED listed
    \/ /\ v \in listed
       /\ item[v].clips - 1 = 0
       /\ Deleted(v)

(* Mutant of OnItemRemoved: any failure is taken for a removal.              *)
OnItemRemovedOrFailed ==
    /\ \/ Taken("REMOVED")
       \/ Taken("FINISHED") /\ TopAlert.hr # "S_OK"
    /\ ItemRemoved(TopAlert.v)
    /\ UNCHANGED <<active, queue, allPaused, calls, retry, pairs, fails, ops, world>>

OnItemRemoved ==
    /\ \/ Taken("REMOVED")
       \/ Taken("FINISHED") /\ TopAlert.hr = "E_ABORT"
    /\ ItemRemoved(TopAlert.v)
    /\ UNCHANGED <<active, queue, allPaused, calls, retry, pairs, fails, ops, world>>

OnItemFinished ==
    /\ Taken("FINISHED")
    /\ TopAlert.hr # "E_ABORT"
    /\ calls' = IF Known(TopAlert.v) THEN <<Complete(TopAlert.v, TopAlert.k, TopAlert.hr)>>
                ELSE <<>>
    /\ UNCHANGED <<listed, item, active, queue, allPaused, retry, pairs, fails, ops, world>>

(* OnTorrentFound asserts that the download is finished and then makes it a  *)
(* torrent.                                                                  *)
OnTorrentFound ==
    /\ Taken("TORRENT")
    /\ LET v == TopAlert.v
           k == TopAlert.k
       IN  IF Known(v)
           THEN /\ item' = [item EXCEPT ![v].cur = k - 1, ![v].type[k] = "torrent",
                                        ![v].timed = @ \ {k}, ![v].flags = @ \ {"FINISHED"}]
                /\ calls' = <<CallClip("QueueDownloadItem", v, k), Call("CountTorrentFound", v)>>
           ELSE UNCHANGED <<item, calls>>
    /\ UNCHANGED <<listed, active, queue, allPaused, retry, pairs, fails, ops, world>>

(* Mutant of OnScheduledEvent: a download with an error is not retried.      *)
OnScheduledEventNoError ==
    /\ Taken("SCHEDULED")
    /\ LET v == TopAlert.v IN
          calls' = IF v \in listed /\ item[v].flags \cap {"PAUSED", "ERR_NETWORK"} = {}
                   THEN <<CallClip("QueueDownloadItem", v, 1)>> ELSE <<>>
    /\ UNCHANGED <<listed, item, active, queue, allPaused, retry, pairs, fails, ops, world>>

(* OnScheduledEvent: the retry is dropped when the user paused meanwhile.    *)
OnScheduledEvent ==
    /\ Taken("SCHEDULED")
    /\ LET v == TopAlert.v IN
          calls' = IF v \in listed /\ ~Is(v, "PAUSED")
                   THEN <<CallClip("QueueDownloadItem", v, 1)>> ELSE <<>>
    /\ UNCHANGED <<listed, item, active, queue, allPaused, retry, pairs, fails, ops, world>>

-----------------------------------------------------------------------------
(* Mutant of ProcessSchedule: without an entry in m_SchedItems.              *)
ProcessScheduleEarly(v) ==
    /\ v \in listed
    /\ retry' = [retry EXCEPT ![v] = @ - 1]
    /\ alerts' = Push(alerts, <<[code |-> "SCHEDULED", v |-> v, k |-> 1, hr |-> "S_OK"]>>)
    /\ UNCHANGED <<listed, item, active, queue, allPaused, calls, pairs, fails, ops, world>>

(* The schedule thread: the thirty seconds of a retry are over.              *)
ProcessSchedule(v) ==
    /\ retry[v] > 0
    /\ retry' = [retry EXCEPT ![v] = @ - 1]
    /\ alerts' = Push(alerts, <<[code |-> "SCHEDULED", v |-> v, k |-> 1, hr |-> "S_OK"]>>)
    /\ UNCHANGED <<listed, item, active, queue, allPaused, calls, pairs, fails, ops, world>>

(* The clip downloader.                                                      *)
Alert(code, h, hr) ==
    alerts' = Push(alerts, <<[code |-> code, v |-> pairs[h].v, k |-> pairs[h].k, hr |-> hr]>>)

Moves(h, from, to) ==
    /\ pairs[h].at = from
    /\ pairs' = [pairs EXCEPT ![h].at = to]

(* Mutant of HttpDone: the content type is sent instead of the end.          *)
HttpDoneTypeFirst(h) ==
    /\ ClipDownloaderFree
    /\ ~pairs[h].paused
    /\ \/ /\ pairs[h].type = "torrent"
          /\ Moves(h, "http", "torrent")
          /\ UNCHANGED alerts
       \/ /\ pairs[h].type = "http"
          /\ Moves(h, "http", "idle")
          /\ Alert(IF pairs[h].v \in world.bittorrent THEN "TORRENT" ELSE "FINISHED", h, "S_OK")
    /\ UNCHANGED <<listed, item, active, queue, allPaused, calls, retry, fails, ops, world>>

(* OnHttpDownloadComplete: a metafile leads to the torrent session; a clip   *)
(* is finished, and its content type may tell that it is a torrent.          *)
HttpDone(h) ==
    /\ ClipDownloaderFree
    /\ ~pairs[h].paused
    /\ \/ /\ pairs[h].type = "torrent"
          /\ Moves(h, "http", "torrent")
          /\ UNCHANGED alerts
       \/ /\ pairs[h].type = "http"
          /\ Moves(h, "http", IF pairs[h].v \in world.bittorrent THEN "typing" ELSE "idle")
          /\ Alert("FINISHED", h, "S_OK")
    /\ UNCHANGED <<listed, item, active, queue, allPaused, calls, retry, fails, ops, world>>

ContentType(h) ==
    /\ May("overtake") \/ AlertsFor(pairs[h].v) = {}
    /\ Moves(h, "typing", "idle")
    /\ Alert("TORRENT", h, "S_OK")
    /\ UNCHANGED <<listed, item, active, queue, allPaused, calls, retry, fails, ops, world>>

HttpFailed(h) ==
    /\ ClipDownloaderFree
    /\ fails < world.fails
    /\ fails' = fails + 1
    /\ ~pairs[h].paused
    /\ pairs[h].v \in Playlists /\ pairs[h].k = ClipCount[pairs[h].v] => May("last-fails")
    /\ Moves(h, "http", "idle")
    /\ \E hr \in {"E_HTTP_NET_ERROR"} \cup (IF May("gone") THEN {"E_HTTP_NOTFOUND"} ELSE {}) :
          Alert("FINISHED", h, hr)
    /\ UNCHANGED <<listed, item, active, queue, allPaused, calls, retry, ops, world>>

(* A pause the pool reports after all (AsyncDownload!PauseIsSilent).         *)
HttpAborted(h) ==
    /\ May("abort")
    /\ ClipDownloaderFree
    /\ pairs[h].paused
    /\ Moves(h, "http", "idle")
    /\ Alert("FINISHED", h, "E_ABORT")
    /\ UNCHANGED <<listed, item, active, queue, allPaused, calls, retry, fails, ops, world>>

(* ProcessAlerts: torrent_finished_alert, and the "event=stopped" announce   *)
(* of a torrent that CheckCompleteQueue or RemoveCompletedTorrent took out.  *)
TorrentFinished(h) ==
    /\ ClipDownloaderFree
    /\ ~pairs[h].paused
    /\ Moves(h, "torrent", "seeding")
    /\ Alert("FINISHED", h, "S_OK")
    /\ UNCHANGED <<listed, item, active, queue, allPaused, calls, retry, fails, ops, world>>

TorrentRotated(h) ==
    /\ May("rotate")
    /\ ClipDownloaderFree
    /\ ~pairs[h].paused
    /\ Moves(h, "seeding", "idle")
    /\ Alert("REMOVED", h, "S_OK")
    /\ UNCHANGED <<listed, item, active, queue, allPaused, calls, retry, fails, ops, world>>

-----------------------------------------------------------------------------
Body(v) ==
    \/ QueueDownload(v) \/ QueueNextDownloadItem(v) \/ QueueDownloadItem(v)
    \/ AddClip(v) \/ OnItemComplete(v) \/ OnDownloadComplete(v)
    \/ EraseDownload(v) \/ CountTorrentFound(v) \/ ResumeStep(v)

User(v) ==
    \/ AddDownload(v) \/ StartQueuedDownload(v) \/ RemoveDownload(v)
    \/ PauseDownload(v) \/ ResumeDownload(v)

Notify == OnItemRemoved \/ OnItemFinished \/ OnTorrentFound \/ OnScheduledEvent

Transfer(h) == HttpDone(h) \/ ContentType(h) \/ TorrentFinished(h)

Next ==
    \/ \E v \in Videos : Body(v) \/ User(v) \/ ProcessSchedule(v)
    \/ PauseAll \/ ResumeAll
    \/ Notify
    \/ \E h \in DOMAIN pairs :
          Transfer(h) \/ HttpFailed(h) \/ HttpAborted(h) \/ TorrentRotated(h)

Spec == Init /\ [][Next]_vars

(* The thread inside m_Sync goes on, the alert thread takes what is on the   *)
(* stack, the schedule thread looks every second, and a transfer that is not *)
(* paused ends.  The user has to do nothing.                                 *)
Fairness ==
    /\ WF_vars(\E v \in Videos : Body(v))
    /\ WF_vars(Notify)
    /\ WF_vars(\E v \in Videos : ProcessSchedule(v))
    /\ WF_vars(\E h \in DOMAIN pairs : Transfer(h))

FairSpec == Spec /\ Fairness

-----------------------------------------------------------------------------
AtRest == calls = <<>>

(* A property that some liberties break is stated for worlds without them.   *)
Without(liberties) == world.may \cap liberties = {}

Queued == {queue[i] : i \in DOMAIN queue}

(* StartQueuedDownload makes the first clip of a stream downloadable, it     *)
(* knows of no other.                                                        *)
StreamsAreSingle == \A v \in Videos : ClipType[v] = "stream" => ClipCount[v] = 1

(* OnTorrentFound asserts that it is about the first clip                    *)
(* (FDownloadMgr.cpp:986-987) and takes the whole download back: it is made  *)
(* for videos of one clip.                                                   *)
TorrentsAreSingle == \A v \in world.bittorrent : ClipCount[v] = 1

(* A retry starts again with the first clip, "otherwise we need to set it to *)
(* the clipIndex of the failed clip" (FDownloadMgr.cpp:941-943): a video of  *)
(* several clips is a playlist, where nothing is retried.                    *)
OnlyListsAreLong == \A v \in Videos : ClipCount[v] > 1 => v \in Playlists

(* The queue and the flag QUEUED say the same: whatever calls lead to it, a  *)
(* download is in m_QueuedDownloads exactly when it is flagged, once only,   *)
(* and nothing in the queue has been deleted (FDownloadMgr.cpp:197-243,      *)
(* 514-581).                                                                 *)
QueueAgrees ==
    Without({"add-again", "stale-start"}) =>
        /\ Queued \subseteq listed
        /\ Cardinality(Queued) = Len(queue)
        /\ AtRest => \A v \in listed : Is(v, "QUEUED") <=> v \in Queued

(* "Number of downloads in progress" (LiberTV/FDownloadMgr.h:111): between   *)
(* calls, m_ActiveDownloads counts the downloads that were started and are   *)
(* neither finished nor removed.                                             *)
Miscounted == {"remove-paused", "remove-again", "add-again", "stale-start",
               "rotate", "abort", "moved", "overtake"}
    \cup IF world.bittorrent = {} /\ "pause-failed" \notin world.may THEN {} ELSE {"refuse"}

SlotsCounted ==
    TorrentsAreSingle /\ Without(Miscounted) /\ AtRest =>
        active = Cardinality({v \in Videos : Counted(v)})

(* No slot stays empty while a download waits (FDownloadMgr.cpp:1026-1031,   *)
(* 545-558), as long as the disk has room.                                   *)
WorkConserving ==
    Without({"disk", "add-again"}) => (AtRest /\ queue # <<>> => active >= MaxDownloads)

(* Every download in progress that the user has not paused has somebody who  *)
(* will bring it on: a pair the clip downloader still works on, an alert, or *)
(* a retry; otherwise it failed for good.                                    *)
Underway(v) ==
    \/ \E h \in HandlesOf(v) : pairs[h].at \in {"http", "torrent", "typing"} /\ ~pairs[h].paused
    \/ AlertsFor(v) # {}
    \/ retry[v] > 0

Forgetful == {"add-again", "stale-start", "pause-failed", "abort", "moved",
              "crash", "last-fails"}

NothingForgotten ==
    OnlyListsAreLong /\ Without(Forgetful) /\ world.bittorrent = {} /\ AtRest =>
        \A v \in Videos :
            Counted(v) /\ ~Is(v, "PAUSED") => Underway(v) \/ GivenUp(v)

(* A download marked for deletion is erased when its last clip is removed:   *)
(* until then an ALERT_ITEM_REMOVED is on its way for each clip counted in   *)
(* m_dwClipsActive.                                                          *)
DeletedIsErased ==
    /\ StreamsAreSingle /\ TorrentsAreSingle /\ AtRest
    /\ Without({"add-again", "stale-start", "refuse", "overtake"})
    => \A v \in listed : Is(v, "DELETED") =>
            /\ item[v].clips > 0
            /\ item[v].clips <= Cardinality({i \in AlertsFor(v) :
                    alerts[i].code = "REMOVED" \/ alerts[i].hr = "E_ABORT"})

(* A download leaves the collection only when the user has deleted it, in    *)
(* whatever order alerts, retries and calls come.  OnItemRemoved drops any   *)
(* download whose count of clips falls to 0 (FDownloadMgr.cpp:841), so it is *)
(* false where the clip downloader reports the removal of a clip that nobody *)
(* deleted: of a seed it takes out of the session, of a transfer that is     *)
(* aborted by its pause, or of the life before of a video added again.       *)
KeptUntilDeleted ==
    [][Without({"rotate", "abort", "add-again"})
       => \A v \in listed \ listed' : Is(v, "DELETED")]_vars

(* A download waits in the queue only for downloads that are paused or have  *)
(* failed for good: otherwise it gets a slot, is started by hand or deleted. *)
Blocked == \E v \in Videos : Counted(v) /\ (Is(v, "PAUSED") \/ GivenUp(v))

QueuedGetSlots == \A v \in Videos : v \in Queued ~> (v \notin Queued \/ Blocked)

(* ATLASSERT(pDownload->m_dwFlags & FLAG_DOWNLOAD_FINISHED)                  *)
(* (LiberTV/FDownloadMgr.cpp:987).                                           *)
TorrentFoundWhenFinished ==
    [][/\ TorrentsAreSingle /\ Without({"add-again", "overtake"})
       /\ OnTorrentFound /\ Known(TopAlert.v)
       => Is(TopAlert.v, "FINISHED")]_vars

(* ATLASSERT(FALSE), "No more clips to queue" (LiberTV/FDownloadMgr.cpp:457).*)
ClipLeftToQueue ==
    [][\A v \in Videos : QueueNextDownloadItem(v) => item[v].cur < ClipCount[v]]_vars

(* "When added, they are marked as Finished": a completion is ignored only   *)
(* for a download that is finished or has other clips to wait for            *)
(* (LiberTV/FDownloadMgr.cpp:915-920).                                       *)
IgnoredWhenFinished ==
    [][\A v \in Videos :
          /\ OnItemComplete(v)
          /\ item[v].completed = Clips(v)
          /\ Head(calls).hr = "S_OK"
          => Is(v, "FINISHED")]_vars
=============================================================================
