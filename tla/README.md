# LiberTV in TLA+

LiberTV (`src/`) is a Windows client that downloads, keeps and plays internet
video: clips over HTTP, torrents, playlists of several clips, streams, and RSS
channels that feed a collection. It is a program of many threads written around
a few hand-made queues, and most of what can go wrong in it goes wrong between
two threads, or between two runs. This directory models that core in TLA+,
checks it with TLC, and proves with TLAPS what holds for every number of
threads, downloads and slots.

Contents: [the system](#1-the-system) · [the plan](#2-plan) ·
[the modules](#3-the-modules) · [the runs](#4-what-the-runs-check) ·
[disagreements with the code](#5-where-the-code-disagrees-with-itself) ·
[the proofs](#6-proofs) · [limits](#7-what-is-not-covered)

## 1. The system

### 1.1 Components

Paths are below `src/`. "State" is what the component keeps, "right" is what
makes it correct.

| Component | State | Operations | Right when | Here |
|---|---|---|---|---|
| Hand-off stack `FFastSyncSemaStack` (`common/FTemplates.h`, `mz_Synchro.*`) | array under a critical section, counting semaphore | `Push`, `PopWait`, `Clear`, `SetSize` | no item is stranded; a consumer wakes for nothing only for a reason | `SemaStack`, `HandOff` |
| Threads and pools (`common/mz_Thread.*`) | vector of threads, stop APC | `Create`, `AddWorker`, `StopAndWait`, `GetThreadCount` | a stop ends; nobody waits for a lock its joiner holds | `AsyncDownload` |
| HTTP downloader `FAsyncDownload` (`LiberTV/FAsyncHttpDownload.*`) | `m_aDownloads` (with NULLs), `m_aPaused`, `m_Urls` stack, pool, flags in each record | `DownloadURL`, `StopDownload`, `Pause`, `Resume`, `Stop`, worker loop | each record in one list, one worker per record, one answer per request, silence on pause | `AsyncDownload`, `Requests` |
| Download manager `FDownloadMgr` (`LiberTV/FDownloadMgr.cpp`, `FDownload.*`) | downloads, queue, `m_ActiveDownloads`, flags of every download, `m_SchedItems`, `m_Alerts` | add, start, remove, pause, resume (one or all), five alert handlers, 30 s retries | queue and flags agree, slots are counted, nothing waits beside a free slot, nothing is forgotten, only what was deleted disappears | `DownloadMgr` |
| Clip downloader `FClipDownloaderEx` | pairs by handle, the queues I and C of torrents, libtorrent session | `AddDownload`, `RemoveDownload`, pause/resume, `OnHttpDownloadComplete`, `ProcessAlerts`, queue thread, `Stop` | every torrent in one place, the session within its limit, silence after a removal, every clip ends | `ClipDownloader` |
| RSS manager `FRSSManager` / `RSSFeed` | channels, `m_UpdateQueue`, `m_InProgress`, recent items, rss.ini | `AddFeed`, `RemoveChannel`, `RefreshChannel`, `Notify`, `UpdateNextFeed`, `OnFeedLoaded`, marks and options | the chain of updates goes on, no item is lost or loaded twice, the count of unwatched videos agrees | `RSSManager` |
| Dispatcher `FDownloadDispatcher` | stack of requests, a thread | `LoadDownloadAsync`, `OpenMTTFromHTTP`, `Notify`, `LoadDownload` | every request adds one download | `RSSManager` |
| Storage `FDownload_Storage`, `StorageManager`, `FDownloadIndex` | one metafile per video | save, load, delete | what a start finds is what the last run knew | `RSSManager`, in part `DownloadMgr` |
| History `FRSSGuidMap` (`LTVUtil.dll/FGuids.cpp`) | `_VideoHistory`, recent items, `_RSSChannelMap` | `SetGuid`, `FindGuid`, `Load`, `Save` | what was known is not asked for again | `RSSManager` |
| Updater `FUpdater` | setup file, three registry values, `m_UpdateVersion` | check, transfer, `Notify`, launch | only a whole setup program of a newer version is run; the newest arrives | `Updater` |
| Player `FMediaPlayer`, `FMediaContainer`, `FMPlayer*` | playlist, current clip, engine | play, stop, next, events | position and playlist agree | – |
| User interface (`FCollection*`, `FMainFrame`, `FMenu`, dialogs, `bin/data/js`) | windows, HTML | calls into the managers | offers only what the state allows | guards of the user's calls |
| Quick HTTP `FQHttp` | LIFO of tasks, pool of 2 | `DownloadURLToFile`, `Stop` | – | – (nothing calls it) |
| Ads `FAdManager`, images `FImageCache`, labels, subtitles, settings, converter, firewall | files, registry | load, save, fetch | – | – |
| `LTVUtil.dll` but for the history | none (parsing, string, time helpers) | pure functions | – | – |
| libtorrent, WTL, VLC headers, `LiberTV/oldCode` | vendored or dead | – | – | libtorrent as `ClipDownloader` sees it |

### 1.2 Threads, locks and calls

* UI thread: calls into every component, runs `OnDestroy` of the tray window.
* Schedule thread of the manager: every second turns a retry that is due into
  `ALERT_SCHEDULED_EVENT`.
* Alert thread of the manager: pops `m_Alerts` (capacity 128, **last in, first
  out**) and runs `FDownloadMgr::Notify`.
* Alert thread of the clip downloader: pops HTTP alerts, or, after 500 ms
  without one, polls libtorrent (`ProcessAlerts`).
* Queue thread of the clip downloader (2 s), the thread of the dispatcher, the
  thread of the updater (one hour), HTTP workers (as many as listed downloads).

Every component has one recursive critical section `m_Sync`. Locks are taken in
the order manager → clip downloader → HTTP downloader. The manager and the feeds
take each other's lock in both orders: `AddDownload` and `StopDownload` from the
manager, `OpenMTTFromHTTP` from the feeds. Results travel back as alerts
on stacks, but `FRSSManager::Notify`, `FDownloadDispatcher::Notify` and
`FUpdater::Notify` run **inside** the HTTP worker, and the first starts the next
download from there. `GlobalObjects::Stop` stops the HTTP downloader on the UI
thread.

### 1.3 What is hard here

* `Push` and `PopWait` are two steps each; items and permits disagree between them.
* `Pause` tells a worker to abort and relies on a flag the worker reads without
  the lock, later; `Resume` may clear it first.
* `Stop` waits for a worker while holding the lock of the pool; a worker may be
  waiting for that lock.
* Alerts are a stack: the later one is handled first. They name a video, not a
  request: an alert may meet another state than the one it was sent in.
* `m_ActiveDownloads` is adjusted in six functions, each by its own condition on
  the flags of a download, and the functions of the manager call one another in
  a circle.
* A torrent is on its way, in one of two queues or in the session, and a pause,
  a removal, an eviction or a result can meet it anywhere.
* A channel is updated by whoever remembers it: a queue, a list of transfers in
  progress and the handle of a transfer that may be overwritten.
* The metafile, the history, the recent items and the channels of one item are
  saved at four different times, and a crash can fall between any two.
* A transfer of the updater may outlive the check that asked for it, and shares
  its file, its version and three registry values with the next one.

The full list, each at its line, is in `PROJECT.json` under `hazards`.

## 2. Plan

Done, the most important behaviour first:

1. `SemaStack` – the hand-off below everything –, the abstract `HandOff`, and
   `SemaStackProofs`.
2. `AsyncDownload` – the HTTP pool –, the abstract `Requests`, and
   `AsyncDownloadProofs` (lists and pool; owners, answers, the refinement).
3. `DownloadMgr` – queue, slots, retries and alerts, over an abstract clip
   downloader –, `DownloadMgrProofs` (types, queue, used slots) and
   `DownloadMgrClipProofs` (the life of a download from clip to clip: counted
   slots, deletions, nothing forgotten).
4. `ClipDownloader` – pairs, queues, session, rotation of seeds –, and
   `ClipDownloaderProofs`.
5. `RSSManager` – feeds, dispatcher, storage, history, restart and crash –, and
   `RSSManagerProofs`.
6. `Updater` – check, transfer, registration, launch, crash –, and
   `UpdaterProofs`.

Left:

7. Composition of the manager and the clip downloader over one alert stack. So
   far each is checked against what the other may do.
8. Shutdown of the manager (`Stop`, `StopDownloads`).
9. The playlist of the media player, once the parts of it that are not calls into
   COM and VLC objects are told apart.
10. Proofs: what holds of videos that turn out to be torrents
    (`TorrentFoundWhenFinished`, and `SlotsCounted` and `DeletedIsErased` in those
    worlds): `OnTorrentFound` takes a finished download back, so that a completed
    clip is fetched again, against much of what the invariant `CInv` says.

No module declares a RECURSIVE operator, so that each of them can be proved
about: what recurs is a sequence operator of the community modules, or a
recursive function whose steps a proof can follow (`Swaps` of `ClipDownloader`,
`Visits` and `AllShown` of `RSSManager`).

## 3. The modules

Operators keep the names of the functions they model, also where the style of
TLA+ would prefer others. An operator whose comment begins "Mutant of X" is not
part of the specification: it is X with a plausible bug, used to see that the
properties notice it (`PROJECT.json`, `mutants`).

**Worlds.** The environments of most modules differ in more than one way, so
their variants are records: a *world* says which things there are, how often the
user may call and transfers may fail, and which *liberties* the environment
takes. `Worlds` is a constant, one world is chosen by `Init` and never changes,
and one run explores all of its worlds. Liberties are guards (`May("...")`) of
single actions. A property that breaks under a liberty exempts it by name in its
statement, and the table in section 5 says what happens there; every other
liberty it has to bear.

### 3.1 SemaStack and HandOff

| TLA+ | Code (`common/FTemplates.h`) |
|---|---|
| `stack`, `Capacity` | `m_Stack`, `SetSize(nSize)` |
| `permits`, `MaxPermits` | the count of `m_Sema`, `SYNC_MAX_SEM_COUNT` |
| `PushLocked(p, v)`; `PushRelease(p)` | `Push`: the locked part; `m_Sema.Release()` |
| `Wake(c)`; `PopLocked(c)` | `PopWait`: the wait; the locked part |
| `Clear` | `Clear` |
| `StopConsumer(c)` | the APC of `mz_Thread::StopThread` ending the alertable wait |

`lost` is a ghost: the permits that will find no item. It is what makes the
accounting exact: +1 for a refused push, +n for a `Clear` of n items, −1 for a
wake-up without an item or a release the semaphore refused. Other timeouts of
`PopWait` are the steps of a consumer that stays where it is.

`HandOff` says what the two-step protocol is to look like from outside: items are
put, refused, taken (the newest first) or forgotten, and a taker comes away empty
only as often as an item was refused or forgotten. The refinement maps `box` to
`stack`, `owed` to `lost` and `open` to whether a consumer is not stopped.

### 3.2 AsyncDownload and Requests

Variables are named after what they stand for in
`LiberTV/FAsyncHttpDownload.cpp`: `slots` (`m_aDownloads`, with its NULLs),
`paused` (`m_aPaused`), `urls` and `permits` (`m_Urls`), `pool` and `worker`
(the threads), `rec`, `pausedF`, `abortF` (a record and its two flags),
`phase` and `joining` (how far `Stop` is), `adding` (who is inside
`AddDownload`, and how far).

Code under `m_Sync` is one action, with one exception: `AddDownload` calls
`GetThreadCount` and `AddWorker`, which take the lock of the pool, while it holds
`m_Sync`. So it is `AddLocked` (inside `DownloadURL`, `ChainDownload`, `Resume`),
`CountThreads`, if a thread is needed `AddWorker` and `ResumeWorkers`, which
is `AddWorker`'s second use of the lock, and `PushAdded`. The three in between wait
while `StopAndWait` holds that lock (`phase = "waiting"`), and every other action
that needs `m_Sync` requires `adding = None`. Each unlocked read of a record by a worker is a step of its
own, and reads an arbitrary value once the record is deleted (`Read`).

A worker goes `waiting → woken → working → ended → completing → reporting →
(notifying → chaining →) reported → waiting`: `Wake`, `Pop`, `Transfer`,
`CheckStopping`, `CheckPaused`, `Report`, `ChainDownload`/`NotifyReturns`,
`Unlist`. `Transfer` may succeed, fail, or abort if it saw `m_Abort` or
`m_Stopping`. `ChainDownload` is `FRSSManager::Notify` starting the next feed.
`Stop` is `AbortDownloads`, `StopAndWait`, `JoinNext` (one thread after the
other, each told by `Leave`), `DeleteListed`.

A world has `chained`, the downloads asked for from inside a `Notify`; `late`,
whether other threads call `DownloadURL` once `Stop` has begun (nothing in it
forbids that); `calm`, whether `Pause`, `Resume` and `Stop` come only when the
workers have caught up with the call before; and `pauses`, the number of calls of
`Pause`. `calm = FALSE` is the program as it is.

`Requests` is the receiver's view of the same: a request is new, running,
paused, answered or dropped; it is answered at most once, never while it is
paused, with `E_ABORT` only if it was stopped or the program stops, and dropped
without an answer only then. The refinement holds for a calm UI; of another UI
the mapping says nothing (`StateOf`).

### 3.3 DownloadMgr

All functions of the manager run under its `m_Sync`, but they call each other in
a circle. `calls` is the rest of what the thread inside `m_Sync` has to do, and a
step runs one function body up to its next call; another thread gets in when
`calls` is empty (`AtRest`). This keeps one action per function and the order of
the code without a recursive operator.

| TLA+ | Code (`LiberTV/FDownloadMgr.cpp`) |
|---|---|
| `listed` | `m_Downloads`, `m_IdMap` |
| `item[v]` (flags, cur, clips, error, completed, timed, missing, type, handle) | the fields of `FDownload` and of its `FDownloadItem`s, see the comments of `Fresh` |
| `active`, `queue`, `allPaused` | `m_ActiveDownloads`, `m_QueuedDownloads`, `m_bAllPaused` |
| `alerts` | `m_AlertNotify.m_Alerts`, the stack of 3.1 |
| `retry` | `m_SchedItems` |
| `QueueDownload`, `QueueNextDownloadItem`, `QueueDownloadItem`, `AddClip`, `OnItemComplete`, `OnDownloadComplete`, `EraseDownload`, `CountTorrentFound` | the function bodies (`AddClip`: the call into the clip downloader and what follows; `CountTorrentFound`: the last line of `OnTorrentFound`) |
| `AddDownload`, `StartQueuedDownload`, `RemoveDownload`, `PauseDownload`, `ResumeDownload`, `PauseAll`, `ResumeAll` | the calls of the interface |
| `OnItemRemoved`, `OnItemFinished`, `OnTorrentFound`, `OnScheduledEvent` | `Notify` on the alert thread |
| `ProcessSchedule` | the schedule thread |
| `HttpDone`, `ContentType`, `HttpFailed`, `HttpAborted`, `TorrentFinished`, `TorrentRotated`, `Removed`, `Outcomes` | the clip downloader as the manager sees it (`FClipDownloaderEx.cpp`) |

`ALERT_CONTENT_TYPE` carries also the text of the content type; the part kept is
that it is `application/x-bittorrent`, for the videos in `world.bittorrent`. The
liberties are listed at the head of the module.

### 3.4 ClipDownloader

| TLA+ | Code (`LiberTV/FClipDownloaderEx.cpp`) |
|---|---|
| `pairs`, `downloads` | the `FDownloadPair`s by handle, those in `m_Downloads` |
| `iqueue`, `cqueue` | `m_IQueue` (to download), `m_CQueue` (to seed) |
| `swarm`, `lib`, `complete` | `m_TorrentSession`, its alerts, torrents whose data is there |
| `net`, `work` | the record of a handle in the HTTP downloader (`m_aDownloads`, `m_aPaused`), and its workers, by how far they are |
| `http`, `freed` | `m_HttpAlerts` (a stack), the `FDownloadInfo`s that were deleted |
| `handling` | the libtorrent alert `ProcessAlerts` is at |
| `AddDownload`, `RemoveDownload`, `PauseResume` | the calls of the manager |
| `Pause`, `Resume`, `StopDownload` | what these do in the HTTP downloader |
| `HttpAborts`, `HttpChecks`, `HttpReports`, `HttpGivesUp`, `HttpUnlists` | the HTTP worker: it notices `m_Abort`; `OnDownloadComplete` checks `m_Paused`, reports, takes the record out of the list |
| `OnHttpDownloadComplete` | the alert thread |
| `PopAlert`, `SendAlert` | the alert thread polls libtorrent |
| `CheckIncompleteQueue`, `CheckCompleteQueue` (`Swap`) | the queue thread |
| `Checked`, `Leeched` | libtorrent: a torrent is checked, or has been downloaded |
| `StopAlerts`, `StopAll` | `Stop` |

A torrent handle is an info hash, valid as long as the session has that torrent:
this is libtorrent's own meaning (`torrent_handle::is_valid`), and it makes
handles of removed torrents valid again when the torrent comes back. `told` is a
ghost of the alerts sent for a handle; `swapped` says that `CheckCompleteQueue`
has swapped torrents, see section 5.

The end of a transfer is not one step: the worker checks `m_Paused` without the
lock (`FAsyncHttpDownload.cpp:351`), reports, and only then takes the lock to
look for its record in `m_aDownloads`. A `Pause` in between finds the record
there, so that a transfer is paused whose result is delivered; a `Resume` gives
it a second worker, whether or not the first has noticed the pause. `work` counts
the workers of a record at each of these stages. `outpaced` is a ghost: a call
has met a worker that was not done, and from then on there may be two results of
a handle, or none. A worker on a record another one has deleted does whatever
the memory it reads makes it do, and of an `FDownloadInfo` deleted by the first
result the second one finds the handle or nothing. `AsyncDownload` models the
downloader itself, with its pool and queue; here it is what the clip downloader
has to live with.

### 3.5 RSSManager

The module follows an item from the server to the collection and to the next
start: `FRSSManager` and its feeds, the dispatcher, and of the download manager
what a video of a feed meets (`ConvertAndLoad`, `AddDownload`, `StopDownload`,
`OnItemRemoved`, `SaveVideoDetails`), with the files each of them writes.

| TLA+ | Code |
|---|---|
| `feed`, `recent`, `updates`, `progress` | `m_Channels`, `m_RecentItems`, `m_UpdateQueue`, `m_InProgress` (`LiberTV/FRSSManager.cpp`) |
| `transfers` | answers to come, for the handle of a feed or for one that was overwritten |
| `requests`, `fetching` | `m_QueuedDownloads` of the dispatcher, metafiles it fetches |
| `waiting`, `loading` | the thread inside the lock of the feeds that waits for the lock of the manager, and the one inside the lock of the manager |
| `video`, `value`, `history` | the videos of items, `_RSSChannelMap`, `_VideoHistory` |
| `file` | the metafiles in the folder: `<id>.tmp.mtti` of an item, `<id>.mtti` of a video |
| `saved` | rss.ini, rss.uid and VideoHistory.uid as last saved |

The functions of `FRSSManager` call one another under one lock. They are written
as operators on a record, `State`, and the step commits what the outermost
returns (`Commit`). A function that needs the lock of the manager is a step of
its own if that lock is free (`Run`), and otherwise waits inside its own lock
(`Wait`): that is how the two managers can block each other for good.
`Restart(crash)` is the end of the program, with or without what
`GlobalObjects::Stop` saves, and the next start: `LoadIndex`, `LoadStorage`, and
`AddDownload` for what is found (`OnDisk`, `LoadedFrom`). Each write of `SaveIndex`
succeeds or fails on its own (`Written`), and the callers that ask whether it did
act on that. The loops of `OnFeedLoaded` and `LockChannels` are functions of the
number of turns (`Visits`, `AllShown`). The liberties are at the head of the module.

### 3.6 Updater

| TLA+ | Code (`LiberTV/FUpdater.cpp`) |
|---|---|
| `phase`, `version` | whether the program runs; the registry value `Version` |
| `check`, `updateVersion` | where `CheckNewVersionSync` is; `m_UpdateVersion` |
| `file` | `ltv_setup.exe`, as the sequence of its parts, each named by the version it came from |
| `transfers` | the transfers of the setup program, in the HTTP downloader |
| `registry`, `cleared` | `UpdateFile`, `UpdateFileSize`, `UpdateVersion`; how far `ClearUpdateInfo` is |
| `Ask`, `Found`, `NotFound`, `DownloadUpdate` | `CheckNewVersionSync` |
| `Send`, `Open`, `Write`, `Close`, `Break` | `ProcessDownload` of the HTTP downloader: `Range`, status 200, 206 or 416, the file opened without sharing, the parts |
| `Notify`, `Register` | `Notify`, its three registry values one by one |
| `Stop`, `Exit`, `Crash`; `Install`, `ClearUpdateInfo`, `Start` | the end of the program; `_tWinMain` |

What the model fixes: `IsValidUpdate` reads at one moment; the server sends a
Content-Length; the URL names one version; the setup program, once started, runs
to its end and installs its version if its file is whole, and fails otherwise;
`NoAutoUpdate` is 0. A check comes an hour after the last one and the receive
timeout is 15 seconds, so a transfer still under way at the next check has got
to its file, and being that slow counts as a fault (`Ask`).

## 4. What the runs check

`MC<module>.tla` gives model values and worlds; each `.cfg` is one run of
`PROJECT.json`. `CHECK_DEADLOCK FALSE` is set everywhere but in `UpdaterCore`:
the other behaviours end, once the bounded supply of pushes, downloads or calls
is used up and everything has come to rest. That the system does not stop
*early* is what the liveness properties and `NoLostWakeup`, `ListsOwnRecords`,
`WorkConserving`, `NothingForgotten`, `ChainAlive` say. Model values are not
declared symmetric, as nearly all runs check liveness too.

### 4.1 SemaStack: `SemaStackRaces`

Two producers, two consumers, capacity 2, semaphore limit 3, five pushes: they
exceed both the capacity and the limit, so refused pushes and refused releases
occur. `Accounting`: permits in the semaphore, on the way in and on the way out
equal items plus `lost`. `NoLostWakeup`: an item in the stack always has a permit
somewhere. `Drains`: every item is fetched or cleared, unless all consumers are
stopped. `ImplementsHandOff`: the refinement, and with it that a consumer finds
nothing only if a push was refused or a `Clear` came before
(`FruitlessWakeupsAreOwed`, which is proved).

### 4.2 AsyncDownload: `AsyncCore`, `AsyncPauseSilent`, `AsyncShutdown`

`AsyncCore` has two downloads in four worlds: one chained and late callers, not
calm; nobody chains, not calm (one pause each); calm, with two pauses and nobody
chaining; calm, nobody chaining, with late callers and one pause.
`ListsOwnRecords`: a live record is in exactly one place of the two lists,
nothing in `m_aDownloads` is deleted, and all of it is in `m_Urls` or with a
worker. `EnoughWorkers`: the pool is as large as the list. For the calm worlds:
`WorkersHoldTheirOwn` (a worker holds a live record nobody else holds),
`ImplementsRequests`, `EveryDownloadEnds`. `StopEnds`: `Stop` returns unless a
download is started while it waits.

Two downloads are enough for a race of two workers, for a list with a hole in it
and for a hole that is used again (a resumed record). `Capacity` is 8 where the
code has 16: it is not reached with so few downloads. The two violation runs
show what `calm` and `chained = {}` leave out, see section 5.

### 4.3 DownloadMgr: `MgrCore`, `MgrFaults`, `MgrTorrentIgnored`

One slot (`MaxDownloads = 1`) makes every download compete. A world has at most
three videos, so a queue of two; more would repeat what the first two do.
`MaxAlerts` is 8 where the code has 128: neither is reached.

* `MgrCore` (a clip, a torrent and a playlist of two, new; a clip and a torrent,
  some stored as paused; one failure, two calls of the user; with fairness).
  `WorkConserving`: no free slot beside a waiting download. `ClipLeftToQueue`:
  whoever asks for the next clip of a video has one left to ask for.
  `QueuedGetSlots`: progress.
* `MgrFaults`: the same worlds, and seven more, each with the liberties some of
  the properties can bear (`MCDownloadMgr`), one or two failures, two or three
  calls, and downloads stored as finished or paused: missing files, refusals, a
  full disk; pauses of failed downloads and an earlier crash; a clip that turns
  out to be a torrent and a stream that is downloaded after it was played;
  deletions of paused and of deleted downloads; and everything but `add-again` and
  `stale-start`, under which `QueueAgrees` still holds. `QueueAgrees`: flag and
  queue agree. `SlotsCounted`: `m_ActiveDownloads` is the number of downloads that
  were started and neither finished nor were removed. `NothingForgotten`: an
  unpaused download in progress has a transfer, an alert or a retry that will
  bring it on. `DeletedIsErased`: what waits for its removal alerts gets them.
  `KeptUntilDeleted`: only deleted downloads leave the collection.
  `TorrentFoundWhenFinished`: a conversion meets a download that has ended.

Three conditions on the videos are part of some statements, each because the code
is made for no others: `StreamsAreSingle` (`StartQueuedDownload` makes the first
clip of a stream downloadable and knows of no other), `TorrentsAreSingle`
(`OnTorrentFound` asserts that it is about the first clip,
`FDownloadMgr.cpp:986-987`, and takes the whole download back) and
`OnlyListsAreLong` (a retry starts again with the first clip, "otherwise we need to
set it to the clipIndex of the failed clip", `:941-943`; so a video of several
clips has to be a playlist, where nothing is retried). All the videos of the runs
satisfy them.

### 4.4 ClipDownloader: `ClipCore`

A session of one torrent (`MaxTorrents = 1`: every second torrent must wait, evict
a seed or exceed the limit), with fairness, in five worlds: two torrents to be
fetched, and one pause or resume; two torrents of which one has its data already;
a file and a torrent whose metafile is unreadable; and one torrent, or one file,
with three or four pauses and resumes. Two pauses, each with its resume, are the
fewest with which a worker of one round can meet the next. A world bounds the
calls of `AddDownload` (`adds`) and of `PauseResume` (`calls`).

`OnePlace`: a listed torrent is on its way, in one queue or in the session, once,
and every torrent of the session belongs to a pair, also after `Stop`.
`PauseAgrees`: the pair and the session. `SilentAfterRemoval`: nothing is said of
a clip after its removal. `LimitYieldsToDownloads`: the limit is exceeded only by
a torrent to be downloaded, when there is no seed to make room. `EveryClipEnds`:
progress. The metafiles and the session are what two clips can compete for; a
third would only wait longer. Pauses of clips that compete with a seed, or that
are added twice, are left to the theorems, which know no bounds.
`HttpCapacity = 8` results are more than these clips can have, as 128 are in the
code.

### 4.5 RSSManager: `RSSCore`, `RSSWatched`, `RSSReturns`

Two channels and three items (a media file, a metafile, the link to a feed), in
ten worlds of one to three calls of the user each (`MCRSSManager`): channels
added, removed and refreshed while they are updated, with and without a failing
`SaveIndex`; items shown, marked, asked for twice, cancelled; a failed fetch;
videos watched and deleted; a restart, with or without a crash. `ChainAlive`: as
long as channels wait, an answer is to come, and what is in progress has a transfer
that will take it out. `ValueAgrees`: the count of
unwatched videos. `LoadedOnce`, `NeverUnasked`, `ErasedStaysAway`: an item is in
the collection once, is not asked for again unless the user does, and does not
come back after it was deleted and erased. A video deleted while it is under way
is erased only when its removal alert comes; if the program is stopped before, it
does come back, as `RSSReturns` shows. `FeedsAreUpdated`, `StartedIsLoaded`:
progress. An item that was taken arrives when `QueueDownload` has remembered it in
the history, which no restart takes away: restarts and crashes fall between in the
worlds that have them, and only the request of a metafile, which nothing saves, is
exempted when one is to come (`Outlives`).
Each exempts the liberties that break it (section 5). `MaxActive = 1` is the
constant all channels share here; `MaxValue = 3` stands for the largest DWORD, as
subtracting from 0 is what matters; `Copies = 3` video IDs for one item and
`MaxRequests = 2` requests are more than the calls can use up, but for a user who
asks twice.

### 4.6 Updater: `UpdaterCore`

Four versions of one, two, three and two parts: the server may offer a larger or
a smaller one next, and half of the third has just the size of the others. Three
faults (crashes, broken transfers, transfers that outlive the next check). Checks,
starts, stops and releases are not bounded. `RegisteredIsWhole`: what
`IsValidUpdate` accepts is the complete setup program of the registered version.
`LaunchUpdates`: a start that runs the setup program leads to a newer version.
`UpdateArrives`: the newest version, once offered, is what the updater gets, as
long as the program runs. Two ghosts name what the first two exempt, section 5.

### 4.7 Fairness

* `SemaStack`: a thread inside `Push`, or holding a permit, goes on (the critical
  section is only ever held for a few instructions); a consumer that waits on a
  signalled semaphore is scheduled. Weak fairness per thread is what Windows
  gives. Nobody has to push or clear.
* `AsyncDownload`: weak fairness of each worker, of the thread inside
  `AddDownload`, and of `Stop` once called. A transfer ends because WinInet calls
  have timeouts. Nobody has to call anything. Fairness of `AddStep` does not
  presume the lock of the pool is free: `AsyncShutdown` shows it is not.
* `DownloadMgr`: weak fairness of the thread inside `m_Sync`, of the alert thread
  (it loops on `PopWait`; no lost wake-ups by `SemaStack`), of the schedule
  thread, and of transfers that are not paused. No fairness on failures nor on
  the user.
* `ClipDownloader`: weak fairness of the alert thread, of each of the two checks
  of the queue thread, of the HTTP workers (transfers end, with success or not) and of
  libtorrent with a torrent that is not paused. `SeedTimeOver` is not fair.
* `RSSManager`: weak fairness of the timer, of the answers (HTTP transfers end),
  of the dispatcher and of the thread inside the lock of the manager.
* `Updater`: weak fairness of the thread and of each transfer; strong fairness of
  `Found`, because `NotFound` competes with it: a server that is asked again and
  again answers again and again. Faults end, as `MaxFaults` bounds them.

## 5. Where the code disagrees with itself

Five runs are expected to end in a counterexample; the quoted line is in
`PROJECT.json`, `findings`.

| Run | Says | Happens |
|---|---|---|
| `AsyncPauseSilent` | "Do not notify about the pause" | `Resume` clears `m_Paused` between the abort of the transfer and the check: the receiver hears a failure of a download nobody stopped, or two workers have one record |
| `AsyncShutdown` | "Waits for the threads to shut down" | a worker inside `FRSSManager::Notify` waits in `GetThreadCount` for the lock `StopAndWait` holds while it waits for that worker |
| `MgrTorrentIgnored` | a second completion is ignored because the clip is marked finished | a clip converted to a torrent keeps `m_bCompleted`: its completion as a torrent is ignored, it stays unfinished and keeps its slot |
| `RSSReturns` | "wait for notifications from clip downloader before erasing" | `Stop` ends the thread of the alerts first: a video deleted while it is under way keeps its metafile, and is in the collection again at the next start |
| `RSSWatched` | `ATLASSERT(pInfo.m_dwValue > 0)` | the deletion of a watched video is subtracted from the count of the unwatched ones; watching the next video subtracts from 0, and the count wraps around |

The other places where a property holds only in part of the environment are
exempted by name in the property, and are hazards. To see one, drop the exemption
and run TLC again.

| Module | Exempted | Property | Because |
|---|---|---|---|
| `DownloadMgr` | `remove-again` | `SlotsCounted` | deleting a download again before its removal alert gives its slot back twice, against `ATLASSERT(m_ActiveDownloads >= 0)` |
| | `remove-paused` | `SlotsCounted` | deleting a started download that is paused does not give its slot back |
| | `overtake` | `TorrentFoundWhenFinished`, `SlotsCounted`, `DeletedIsErased` | the alerts are a stack: the content type is handled before the end of the download |
| | `last-fails` | `NothingForgotten` | the last clip of a playlist fails and the next one is queued, against `ATLASSERT(FALSE)` (`ClipLeftToQueue`, checked without it) |
| | `pause-failed` | `NothingForgotten` | a retry that comes due during the pause is dropped |
| | `crash` | `NothingForgotten` | the clip downloader finds the file complete and the manager does not know |
| | `refuse` | `DeletedIsErased`; `SlotsCounted` for converted downloads | a refused download never becomes active, and no alert of its removal comes |
| | `disk` | `WorkConserving` | a full disk at the end of a download leaves the queue waiting beside a free slot |
| | `pause-failed` with `refuse` | `SlotsCounted` | a refused download is paused and counted again by the resume |
| | `moved` | `SlotsCounted`, `NothingForgotten` | a finished download whose file is gone is fetched again without taking a slot |
| | `rotate`, `abort` | `SlotsCounted`, `KeptUntilDeleted`; `abort` also `NothingForgotten` | an alert nobody asked for ends a download that goes on: `OnItemRemoved` drops a seeding torrent that is rotated out of the session from the collection (`:841`), although the comment at `:824` only says "Update status = INone" |
| | `add-again` | nearly all | an alert of the first life of a video meets the second |
| | `stale-start` | `SlotsCounted`, `QueueAgrees`, `NothingForgotten`, `DeletedIsErased` | a download that runs already is started and counted again |
| `ClipDownloader` | `swapped` | `OnePlace`, `LimitYieldsToDownloads`, `EveryClipEnds` | `CheckCompleteQueue` takes out every seed whose time is over and adds the same torrent for each, popping the queue each time: torrents are queued twice, or in no place at all |
| | `outpaced` | `OnePlace`, `LimitYieldsToDownloads`, `EveryClipEnds` | a pause meets a worker that delivers its result, or a resume one that has not noticed the pause: two results of one transfer, or an abort nobody asked for. A torrent with two results is queued twice, `duplicate_torrent` empties the handle of its pair, and when it is to make room as a seed nobody owns it, against `ATLASSERT(dhandle != 0)` (`FClipDownloaderEx.cpp:598`) |
| `RSSManager` | `unsaved` | `ChainAlive`, `FeedsAreUpdated` | an `AddFeed` that could not save its index leaves the channel listed and not updated |
| | `late`, `watched` | `ValueAgrees` | details are written back that were read earlier, or deleted videos are watched; a watched video is subtracted when it is deleted |
| | `twice` | `LoadedOnce`, `ErasedStaysAway`, `StartedIsLoaded` | `ConvertAndLoad` writes the metafile before it looks for the GUID |
| | `torn` | `ErasedStaysAway` | a crash left two metafiles of a video; its deletion deletes the one it was loaded from |
| | `ids` | `FeedsAreUpdated`, `StartedIsLoaded` | `OpenMTTFromHTTP` takes the lock of the manager inside that of the feeds, `AddDownload` and `StopDownload` the other way round |
| | `cancel`, failed fetches, a restart to come for a metafile | `StartedIsLoaded` | an item is marked as downloaded when it is asked for |
| `Updater` | `crossed` | `RegisteredIsWhole`, `LaunchUpdates` | a check that finds another version changes `m_UpdateVersion` while one is fetched, and the wrong version is registered |
| | `replaced` | `RegisteredIsWhole`, `LaunchUpdates` | a check deletes the file of a registered update and its values stay: half of the new file may have their size, and is run |

## 6. Proofs

`SemaStackProofs`, `AsyncDownloadProofs`, `DownloadMgrProofs`,
`DownloadMgrClipProofs`, `ClipDownloaderProofs`, `RSSManagerProofs` and
`UpdaterProofs` hold the theorems;
they are about the specifications TLC checks, for all values of the constants
that satisfy the named assumptions (`SemaStackAssumption`,
`AsyncDownloadAssumption`, `DownloadMgrAssumption`, `ClipDownloaderAssumption`,
`RSSManagerAssumption`, `NoneAssumption`, `UpdaterAssumption`).
`SequenceLemmas` holds what several of them need to know about queues, stacks
and lists. Where a theorem has a hypothesis of its own, it is named below with
its reason.

**SemaStack** – for any finite sets of producers and consumers, any items, any
capacity up to the limit of the semaphore:

* `TypeCorrect`: `Spec => []TypeOK`;
* `AccountingHolds`: `Spec => []Accounting`;
* `NoWakeupIsLost`: `Spec => []NoLostWakeup`;
* `FruitlessWakeupsExplained`: `Spec => FruitlessWakeupsAreOwed`;
* `HandOffImplemented`: `Spec => ImplementsHandOff`.

The inductive invariant is `TypeOK /\ Accounting`. `NoLostWakeup` alone is not
inductive: a step that takes the last permit does not know that no second item
is there. With the exact count it is: items plus `lost` equal permits, `lost`
is never negative, so an item implies a permit. And `lost >= 0` is in turn an
invariant only because of the count: where it is decremented the count shows it
to be positive, which is also what `FruitlessWakeupsAreOwed` says, and what the
refinement needs for its steps `Settle`. The lemmas `ProducerEnters`,
`ProducerLeaves`, `ConsumerEnters`, `ConsumerLeaves` say how the cardinalities of
the threads on their way change when one thread moves; `StepHandsOver` has one
step per action and maps it to a step of `HandOff` or a stutter.

**AsyncDownload** – for any finite set of downloads and any worlds:

* `PoolGrowsWithList`: `Spec => []EnoughWorkers`. The inductive invariant adds
  the little of the types it needs (`PoolType`), and the argument is that only
  `AddLocked` lengthens the list, by one, that it needs `adding = None`, and that
  the call of `AddDownload` which is entitled to that one leaves the stages
  "counting" and "making" only when the list has a thread for every entry or it
  has made one. `Listed` and `Unslotted` have lemmas of their own on the length of
  what they return.
* `TypeCorrect`: `Spec => []TypeOK`;
* `EveryRecordInOneList`: `Spec => []OneList`, the first half of `ListsOwnRecords`.

  Both follow from `LInv`: types, `Placed` and `Answers`. `Placed` says what is in
  the lists: no record twice, none in both, live in `m_aDownloads`, live in
  `m_aPaused` until `AbortDownloads` and deleted afterwards, every live record in
  one of the two. It also bounds the length of `m_aDownloads` by the number of
  downloads, which is where types stop being trivial: the list only grows when it
  has no NULL, and then it holds different downloads, none of them the new one
  (pigeonhole); the pool, which only grows when it is shorter than the list, is
  bounded by the same number.

The second half of the module adds what the receivers see:

* `PromisesKept`: `Spec => ImplementsRequests`;
* `OneOwner`: `Spec => []WorkersHoldTheirOwn`;
* `NothingStranded`: `RoomForAll /\ Spec => []ListsOwnRecords`.

The inductive invariant is `LInv /\ RInv`, and `RInv` has six parts. `OnHand` says
when a worker holds a record; `Threads` what `StopAndWait` has seen leave, and
that nobody is told anything after it; `Flagged` that `m_Paused` is set exactly
where it says something about the list a record is in. `Pushes` counts: until
`Stop` there was one push at most for every record made and for every pause, so
`m_Urls` refuses none if it has room for so many; then every entry of
`m_aDownloads` is in `m_Urls`, about to be pushed, or with a worker (`Attended`).
That room is the hypothesis `RoomForAll`; the code's `m_Urls` has 16 places and
no such promise, which is the hazard at `FAsyncHttpDownload.cpp:395`. `CalmInv`
is for a calm UI: a record is once in `m_Urls` or with one worker (`Owned`), its
receiver has been told nothing before that worker does (`ToldOnce`), and a
transfer aborts only because somebody asked or for a pause the worker has yet to
notice (`AbortsExplained`). The refinement needs all of them: `Report` maps to an
answer because of `ToldOnce`, with a reason because of `AbortsExplained`, and
`Unlist` to a stutter because of `Owned`.

**DownloadMgr** – for any videos with any number of clips, any number of slots,
any size of `m_Alerts`, any worlds:

* `TypeCorrect`: `Spec => []TypeOK`, from `TInv`, which adds that handles and
  pairs name each other's clip (`HandlesTyped`, `ItemsTyped`);
* `KeptWithoutRotation`: `Spec => KeptUntilDeleted`. `Kept` says that who
  is told that a clip was removed, or erases a download, deals with one the user
  has deleted. This is so only where no seeding torrent is rotated out of the
  session, no pause reports `E_ABORT` and no video is added again (`Calm`), which
  the property exempts by name;
* `QueueAlwaysAgrees`: `Spec => []QueueAgrees`. `QInv` says why `m_QueuedDownloads`
  and the flag `QUEUED` agree between any two calls, in the middle of the circle
  of functions: a download gets the flag before anything has been fetched for it
  (`Untouched`; `Traces` says that alerts, retries and results stem from a pair),
  and whoever takes it out of the queue calls `QueueDownload` for it at once
  (`Asked`), with nothing behind that call that could touch the queue (`Stacked`);
* `SlotsAreUsed`: `Spec => []WorkConserving`. `SlotsTaken` says what holds in
  between: one slot may be free while a download waits, if it has just been given
  back and the next call is `QueueDownload` for the download that left the queue.

The last two exempt in their statement what the runs show to break them. The
invariants reach a little further than the properties: `Orderly`, under which
`QInv` is inductive, admits the start from an old menu as long as the disk does
not fill up, and `Roomy`, for the slots, is `Orderly` with room on the disk.

`DownloadMgrClipProofs` follows a download from clip to clip:

* `SlotsAreCounted`: `Spec /\ StreamsAreSingle /\ world.bittorrent = {} => []SlotsCounted`;
* `DeletedAreErased`: the same hypotheses and `[](Len(alerts) < MaxAlerts)` imply
  `[]DeletedIsErased`;
* `NothingIsForgotten`: `StreamsAreSingle` and `[](Len(alerts) < MaxAlerts)` imply
  `Spec => []NothingForgotten`;
* `ClipsAreLeft`: `Spec /\ Succeeding => ClipLeftToQueue`: `ATLASSERT(FALSE)`, "No
  more clips to queue", is not reached.

The hypotheses. `StreamsAreSingle` is explained in 4.3. `world.bittorrent = {}`: no
video turns out to be a torrent; `OnTorrentFound` takes a completed download back,
and the worlds in which it does are left to TLC (`NothingForgotten` exempts them in
its statement). `Len(alerts) < MaxAlerts`: the stack of alerts is never full when
the next alert comes; a full one drops it (`Push`), and then the clip it was about
is forgotten and a deleted download stays – the hazard at
`FAsyncHttpDownload.cpp:553`, for which no promise of the code can stand in. It is
not needed for the slots: a lost alert leaves a download where it is counted.
`Succeeding` is the exemptions of section 5 with `Plain` (below) and
`Without({"refuse", "moved", "last-fails"})`: where a completed clip is refused or
fetched again, or the last clip of a playlist fails, the assertion does fail.

The common inductive invariant is `CInv`, for worlds that are `Plain` (streams of
one clip, no disguised torrents, nothing added again, nothing started from an old
menu, no refused download paused). None of the four properties is anywhere near
inductive: each relates flags to a count of clips, and whether a step keeps them
depends on what is still on its way. `CInv` says, for every listed download, at
every step of the circle of calls,

* `Counts`: `cur`, `clips`, `completed`, `timed` and `missing` agree; `Engaged`:
  what a pair, an alert or a call is about has been queued before;
* `Waits`, `Stops`, `Idles`: what a download without a clip, a deleted one, and one
  of which no clip was ever started can be – the three cases in which a flag alone
  says nothing about the slot;
* `Once`: until a clip is completed, one alone of a pair, an alert, a retry and the
  running thread works on it (`Lone`, `Handed`), and for a video that is no playlist
  it is the current clip. This is the heart of it: were there two, the second
  completion would meet a download that has moved on, and `OnDownloadComplete`
  would give the slot back twice or not at all;
* `First`, `Sure`, `Ends`: a clip completed in an earlier run is completed as soon
  as it is queued, a completed clip does not fail, and a finished download fetches
  nothing.

`Messages` and `Owned` say what alerts and calls there can be at all. One lemma per
action shows that the download it is about keeps its part (`COf`), and `ApartKeeps`
that all others do. `HInv` then counts: `m_ActiveDownloads` is the number of
downloads that hold a slot, also in the middle of the circle; between calls these
are the ones `Counted` names (`Even` is `Plain` with what `SlotsCounted` exempts).
`DInv` says that `m_dwClipsActive` never exceeds the clips that were queued, and
that each of these has a handle whose pair stays until the user removes it, so
that every removal sends an alert; a deleted download therefore has at least as
many alerts still to come as it has clips, and the last one erases it. `LInv` says
that a download that needs somebody (`Needy`) has a pair, an alert, a retry or the
thread for its current clip, or is given up with a clip missing (`Tended`), that
the handle of the current clip names the pair that works on it (`Linked`), and
that a clip that failed was reported (`Reported`, `Answered`); without `Linked`
the step of a transfer could not tell that it is the current clip that moves.
`NInv` says that alerts and calls report no failure of the
last clip of a playlist (`EarlyFails`), and that `QueueNextDownloadItem` is next
only with a clip left (`HasNext`).

**ClipDownloader** – for any files and torrents, any number of handles, any limit
of the session, any worlds:

* `TypeCorrect`: `Spec => []TypeOK`;
* `PausesAgree`: `Spec => []PauseAgrees`;
* `NothingAfterRemoval`: `Spec => []SilentAfterRemoval`;
* `OnePlaceEach`: `HttpCapacity >= MaxAdds` implies `Spec => []OnePlace`;
* `LimitHolds`: under the same condition `Spec => LimitYieldsToDownloads`.

The last two properties exempt in their statement what follows a swap and a call
that outpaces a worker (section 5).


`Inv` adds to the types that only one listed clip of a name has been given a
handle, and only such clips are fetched, queued or handed to libtorrent (`Apart`),
that a removed handle is not listed any more (`Silent`), and `PauseAgrees`. What
`CheckCompleteQueue` does to all seeds at once is followed by `Sound`, which its
loop preserves in each turn (`SwapsRun`; the turn at which it would first fail is
the least number of a set). These hold with any number of results of a handle.

The last two theorems need to know how many results there are. `Alone` says,
until `outpaced`, what the workers of a handle, its record and its result can be
together: one worker at most, none for a transfer that is over, and a result only
where no worker is left to give another (`OneResult`, `OneWorker`). It is an
invariant of its own, because `Pause` and `Resume` keep it only where they find
the worker done: a lemma per action says so, and those steps that would break it
set the ghost. `Placed` holds until a torrent was swapped or a call outpaced a
worker: `Homes` says who may be in a queue, in the session, or on its way, and
`Over` that a transfer that failed is over. `Settled` joins the two.
The condition says that `m_HttpAlerts` has room for one result of every handle:
as long as `Alone` holds a result comes once for a handle, so the stack then
never refuses one.
The code's stack has 128 places (`FClipDownloaderEx.cpp:165`), for as many
results as can come before the alert thread looks, not for as many as ever come;
a dropped result is the hazard at `FAsyncHttpDownload.cpp:553`. `LimitHolds`
counts the torrents of the session before and after the step.

**RSSManager** – for any channels and items, any copies of an item, any size of
the dispatcher's stack, any worlds:

* `TypeCorrect`: `Spec => []TypeOK`;
* `ChainIsAlive`: `Spec => []ChainAlive`;
* `OnceLoaded`: `Spec => []LoadedOnce`;
* `NothingUnasked`: `Spec => NeverUnasked`;
* `ErasedGone`: `Spec => ErasedStaysAway`;
* `ValuesAgree`: `Cardinality(Video) <= MaxValue` implies `Spec => []ValueAgrees`.

As in the module, `Inv` speaks of the record a function of `FRSSManager` works on,
so that it can be followed through a function that calls others: `Good` and
`Follows` say what holds after each of them (`DownloadItemDoes`, `VisitsFollow`,
`LoadRSSFollows`, `AllShownFollows`, `AnsweredGoes`), and one lemma per action says
that it keeps `Inv`. Its parts:

* `TInv`: the types, and that a loaded feed has a page;
* `Claimed`: whatever is around of an item – a request, a transfer, a load, a
  metafile, a video – says that the item was asked for or is in the history, and
  what was asked for is not new. This is why nothing is requested a second time
  while the first request is on its way, and why `LoadedOnce` survives a restart
  from whatever the folder holds. Where nobody asks twice (`Neat`), `Single` adds
  that a request leads to one transfer, that to one load, and that leaves one
  metafile, unless a crash left two (`torn`): what is erased leaves nothing behind;
* `Remembered`: the history is saved as soon as it changes, and what the user
  marked or had is in it, or is old both in memory and in rss.uid. `NeverUnasked`
  holds across a crash because of the second half;
* `Linked` and `Going`: the queue of updates names listed channels, each once, and
  a channel of it that is in progress has its transfer; as long as it is not
  empty, an answer is to come. `ChainAlive` alone does not see that a channel in
  the queue cannot have been removed, or left in progress by an `AddFeed` that
  failed: `UpdateNextFeed` would then drop the head without asking for anything.

`ValuesAgree` counts on top of `Inv` (`Counts`, `CountsKept`): the videos of a
channel that are neither watched nor deleted, and the one `StopDownload` has
deleted and not subtracted yet. Its hypothesis is that a DWORD can count all videos,
as `Plus` and `Minus` are modulo 2^32 in the code.

**Updater** – for any finite set of versions, any sizes and any number of faults:

* `TypeCorrect`: `Spec => []TypeOK`;
* `OnlyWholeUpdates`: `Spec => []RegisteredIsWhole`;
* `LaunchesUpdate`: `Spec => LaunchUpdates`.

The inductive invariant `Inv` has two parts. `TInv` always holds: types, distinct
transfers, at most one with the file open, and that a check finds at most one
transfer and none that is about to be answered (`Ask`). `Good` holds until one of
the two ghosts is set: every transfer is for `m_UpdateVersion`, the file is a
beginning of its setup program, no position lies behind its end, what `Notify`
has established stays so while it writes the three values, and a registered
version newer than the installed one comes with its whole file. The last part is
why a crash between the values does no harm: the version is written last and
forgotten last, and what is left of older values has a version that is not newer.
It also shows what the ghosts cost: `Found` and `DownloadUpdate` are the only
steps that would break `Good` without them.

**Only model-checked**: liveness, which needs `ENABLED` and fairness and is out
of the prover's reach (`Drains`, `EveryDownloadEnds`, `StopEnds`,
`QueuedGetSlots`, `EveryClipEnds`, `FeedsAreUpdated`, `StartedIsLoaded`,
`UpdateArrives`); of `DownloadMgr`, `TorrentFoundWhenFinished`, and `SlotsCounted`
and `DeletedIsErased` for videos that turn out to be torrents. The
library's induction theorems take an operator as a parameter, which the provers
used cannot instantiate; where a proof goes over the turns of a loop or the
entries of a sequence, it takes the least number of a set at which the claim
would fail.

## 7. What is not covered

The repository is 230 thousand lines, of which libtorrent, WTL, the VLC and COM
headers and windows with their HTML are by far the most: third-party code and
presentation, with nothing of LiberTV's own protocol. What is modelled is the
part that has state shared by threads, runs or messages.

* Contents of files, URLs, progress counters, status texts (except that the
  manager asks whether `m_StatusStr` has "Error": `error`), balloons, resume data.
* `DownloadMgr`: saving; the model keeps only what a later start can find
  (`world.stored`, `timed`, the liberty `crash`). `E_HTTP_WRITE_FILE` behaves as
  `E_HTTP_NET_ERROR`; a data folder that cannot be made (`EnsureDirExists`) counts
  as a clip that is refused. `m_bStopping`, `Stop` and `StopDownloads`: the
  manager is modelled while it runs.
* `AsyncDownload`: a thread that cannot be created; the instant between the
  creation of a thread and its entry in the pool; `AddWorker` resuming
  `m_kaThreads[0]` of a pool that `Stop` has just emptied (`mz_Thread.cpp:98`).
* `ClipDownloader`: the pool and the queue of the HTTP downloader, which
  `AsyncDownload` has (a record is fetched some time, as `m_Urls` refuses none);
  the order in which one thread polls HTTP and libtorrent is
  left open; the 30 seconds before the queues are looked at, and that incomplete
  and complete queue take turns; `ALERT_FILE_ERROR`; libtorrent's limit on the
  alerts it keeps; `PauseAll` and `ResumeAll`, which nobody calls; two videos that
  share a torrent.
* `RSSManager`: streams, what `UpdateItemVideoId` and `m_GuidMap` display, names
  of channels, filters other than the reload they cause, a maximum of active
  downloads per channel (`MaxActive` is one constant), metafiles that subscribe to
  a channel, the temporary file that an overwritten transfer shares with the
  current one, `RemoveCachedImages`, a `DownloadURL` that returns 0, the forced
  `CheckForUpdates`, the order of the items of a page.
* `Updater`: `CheckConnectable`, the proxy, the dialog of the tray window; the
  uninitialised `m_hDownload` in `Stop` (a handle no download has).
* Media player: its playlist is driven by events of COM and VLC objects and by
  the order in which Windows delivers messages, both outside the repository.
* Quick HTTP: nothing calls it. Image cache: its downloads are commented out.
* Ads, labels, subtitles, settings, converter, firewall, `LTVUtil.dll`: file and
  registry access and pure functions over text, with no protocol of their own.
