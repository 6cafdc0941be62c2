------------------------------ MODULE RSSManager ------------------------------
(***************************************************************************)
(* FRSSManager (LiberTV/FRSSManager.cpp), its feeds (RSSFeed.cpp), the     *)
(* FDownloadDispatcher (FDownloadDispatcher.cpp) their items go through,   *)
(* and what FDownloadMgr does with a video of a feed: load it, count it,   *)
(* remember it, delete it, find it on disk at the next start.              *)
(*                                                                         *)
(* The manager of feeds has one lock and so has the manager of downloads.  *)
(* A function of the first is one step, unless it has to wait inside its   *)
(* lock for the second ("waiting").  A function of the second that ends    *)
(* under the first lock is two steps, and "loading" tells what the thread  *)
(* between them is doing.                                                  *)
(***************************************************************************)
EXTENDS Integers, Sequences, FiniteSets, SequencesExt

CONSTANTS Feeds,        \* channels, by URL
          Items,        \* GUIDs
          FeedOf,       \* the channel an item is published in
          Kind,         \* m_EnclosureType: "mtti", "media" or "feed"
          Copies,       \* bound of the model: video IDs for one item
          MaxActive,    \* m_MaxActiveDownloads
          MaxRequests,  \* m_QueuedDownloads.SetSize
          MaxValue,     \* the largest DWORD
          Worlds,       \* the environments to be considered
          None

(* A world is an environment: the channels listed when the program is        *)
(* started first, the items that will be published, bounds of the model for  *)
(* calls of the user, failed transfers and restarts, and liberties: what may *)
(* happen in it.                                                             *)
(* feeds     the user adds, removes and refreshes channels                   *)
(* views     the user looks at channels, marks them and sets their options   *)
(* twice     the user asks for an item that is under way or was loaded       *)
(* watch     a video is watched                                              *)
(* delete    the user deletes a video that was not watched                   *)
(* watched   the user deletes a video that was watched                       *)
(* late      the user watches a deleted video, deletes one again, or renames *)
(*           one with details that were read before it was watched           *)
(* unsaved   SaveIndex may fail                                              *)
(* cancel    the user cancels the dialog that asks for a folder              *)
(* crash     the program may end without GlobalObjects::Stop                 *)
(* ids       the URL of a metafile carries the ID of its video               *)
AllLiberties == {"feeds", "views", "twice", "watch", "delete", "watched", "late",
                 "unsaved", "cancel", "crash", "ids"}

World == [known : SUBSET Feeds, items : SUBSET Items, ops : Nat, fails : Nat,
          starts : Nat, may : SUBSET AllLiberties]

ASSUME RSSManagerAssumption ==
    /\ IsFiniteSet(Feeds)
    /\ IsFiniteSet(Items)
    /\ FeedOf \in [Items -> Feeds]
    /\ Kind \in [Items -> {"mtti", "media", "feed"}]
    /\ Copies \in Nat \ {0}
    /\ MaxActive \in Nat
    /\ MaxRequests \in Nat
    /\ MaxValue \in Nat \ {0}
    /\ Worlds \subseteq World

VARIABLES
    feed,       \* each FRSSFeed
    recent,     \* m_RecentItems: the items seen, and whether they are new
    transfers,  \* answers still to come, for a feed's handle or an old one
    updates,    \* m_UpdateQueue
    progress,   \* m_InProgress: how often each channel is in it
    requests,   \* m_QueuedDownloads, the top is the last element
    fetching,   \* metafiles the dispatcher fetches over HTTP, how often
    waiting,    \* the call inside the lock of FRSSManager that waits
    loading,    \* the call inside the lock of FDownloadMgr
    video,      \* each FDownload of an item
    value,      \* _RSSChannelMap: the unwatched videos of each channel
    history,    \* _VideoHistory, in memory
    file,       \* the metafiles in the storage folder, by video ID
    saved,      \* rss.ini, rss.uid and VideoHistory.uid
    published,  \* the items on the servers
    left,       \* what is left of the world's bounds
    world,      \* the environment, it never changes
    started,    \* ghost: items this run of the program took, not loaded yet
    settled,    \* ghost: items loaded or marked as viewed, not asked for since
    trash,      \* ghost: items deleted by the user, not asked for since
    torn        \* ghost: videos a crash left with two metafiles

rss    == <<feed, recent, transfers, updates, progress>>
asked  == <<requests, fetching>>
mgr    == <<video, value, history>>
ghosts == <<started, settled, trash, torn>>
vars   == <<rss, asked, waiting, loading, mgr, file, saved, published, left,
            world, ghosts>>

May(liberty) == liberty \in world.may

Video   == Items \X (1..Copies)
Item(v) == v[1]
Feed(v) == FeedOf[Item(v)]

(* The calls that may download an item, and what the manager of downloads    *)
(* does in two steps.                                                        *)
Call  == [do : {"Notify", "LockChannel", "SetChannelOptions"}, f : Feeds]
         \cup [do : {"LockChannels"}] \cup [do : {"DownloadItem"}, i : Items]
Task  == [do : {"load", "remove"}, v : Video]

ASSUME NoneAssumption ==
    None \notin Call \cup Task /\ \A page \in SUBSET Items : page # None

(* A feed as AddFeed makes it, and one that is not listed.                   *)
NewFeed  == [listed |-> TRUE, auto |-> FALSE, refreshed |-> FALSE, loaded |-> FALSE,
             due |-> TRUE, page |-> None]
NoFeed   == [NewFeed EXCEPT !.listed = FALSE, !.due = FALSE]
NoVideo  == [at |-> "absent", watched |-> FALSE, conf |-> "xml"]
NoFile   == [tmp |-> "none", xml |-> "none"]

Feedless == [f \in Feeds |-> NoFeed]
Listed   == {f \in Feeds : feed[f].listed}

(* The videos in m_Downloads.                                                *)
Collection == {v \in Video : video[v].at # "absent"}
Known(i)   == \E v \in Collection : Item(v) = i

TypeOK ==
    /\ feed \in [Feeds -> [listed : BOOLEAN, auto : BOOLEAN, refreshed : BOOLEAN,
                           loaded : BOOLEAN, due : BOOLEAN,
                           page : {None} \cup SUBSET Items]]
    /\ recent \in [Items -> {"unseen", "old", "new"}]
    /\ transfers \in [Feeds -> [current : BOOLEAN, stale : Nat]]
    /\ updates \in Seq(Feeds)
    /\ progress \in [Feeds -> Nat]
    /\ requests \in Seq(Video) /\ Len(requests) <= MaxRequests
    /\ fetching \in [Items -> Nat]
    /\ waiting \in {None} \cup Call
    /\ loading \in {None} \cup Task
    /\ video \in [Video -> [at : {"absent", "live", "deleted"}, watched : BOOLEAN,
                            conf : {"tmp", "xml"}]]
    /\ value \in [Feeds -> 0..MaxValue]
    /\ history \subseteq Items
    /\ file \in [Video -> [tmp : {"none", "unwatched", "watched"},
                           xml : {"none", "unwatched", "watched"}]]
    /\ started \cup settled \cup trash \subseteq Items
    /\ torn \subseteq Video

(* The channels of the world were added and refreshed by an earlier run.     *)
Init ==
    /\ world \in Worlds
    /\ feed = [f \in Feeds |->
          IF f \in world.known
          THEN [NewFeed EXCEPT !.auto = TRUE, !.refreshed = TRUE, !.due = FALSE, !.page = {}]
          ELSE NoFeed]
    /\ recent = [i \in Items |-> "unseen"]
    /\ transfers = [f \in Feeds |-> [current |-> FALSE, stale |-> 0]]
    /\ updates = <<>>
    /\ progress = [f \in Feeds |-> 0]
    /\ requests = <<>>
    /\ fetching = [i \in Items |-> 0]
    /\ waiting = None
    /\ loading = None
    /\ video = [v \in Video |-> NoVideo]
    /\ value = [f \in Feeds |-> 0]
    /\ history = {}
    /\ file = [v \in Video |-> NoFile]
    /\ saved = [feed |-> feed, recent |-> recent, history |-> {}]
    /\ published = {}
    /\ left = [ops |-> world.ops, fails |-> world.fails, starts |-> world.starts]
    /\ started = {}
    /\ settled = {}
    /\ trash = {}
    /\ torn = {}

-----------------------------------------------------------------------------
(* What a function of FRSSManager works on, as a record: its functions call  *)
(* one another, each changes the record, the step commits it.                *)
State == [feed |-> feed, recent |-> recent, transfers |-> transfers,
          updates |-> updates, progress |-> progress, requests |-> requests,
          file |-> file, started |-> started, active |-> 0, asks |-> FALSE]

Commit(s) ==
    /\ feed' = s.feed
    /\ recent' = s.recent
    /\ transfers' = s.transfers
    /\ updates' = s.updates
    /\ progress' = s.progress
    /\ requests' = s.requests
    /\ file' = s.file
    /\ started' = s.started

(* UpdateFeed: the answer to an earlier request finds a new handle.          *)
UpdateFeed(s, f) ==
    [s EXCEPT !.progress[f] = @ + 1,
              !.transfers[f] = [current |-> TRUE,
                                stale |-> @.stale + (IF @.current THEN 1 ELSE 0)]]

RefreshChannel(s, f) == IF s.feed[f].listed THEN UpdateFeed(s, f) ELSE s

IsInProgress(s, f) == s.progress[f] > 0

UpdateNextFeed(s) ==
    IF s.updates = <<>> THEN s
    ELSE LET f == Head(s.updates)
             t == [s EXCEPT !.updates = Tail(@)]
         IN  IF IsInProgress(s, f) THEN t ELSE RefreshChannel(t, f)

(* The request holds an ID that no video has: GetRandomVideoID.  The ID of a *)
(* metafile is in the file.                                                  *)
FreeCopies(s, i) == {n \in 1..Copies : /\ s.file[<<i, n>>] = NoFile
                                       /\ video[<<i, n>>].at = "absent"}
NewVideo(s, i)   == <<i, IF Kind[i] = "mtti" THEN 1
                         ELSE CHOOSE n \in FreeCopies(s, i) : TRUE>>

(* Mutant of Fits: one place is never used.                                  *)
FitsButOne(s) == Len(s.requests) + 1 < MaxRequests

(* m_QueuedDownloads.Push drops a request that does not fit.                 *)
Fits(s)    == Len(s.requests) < MaxRequests
Push(s, v) == IF Fits(s) THEN [s EXCEPT !.requests = Append(@, v)] ELSE s

(* Mutant of Started: the item stays new.                                    *)
StartedStillNew(s, i) == [s EXCEPT !.active = @ + 1, !.started = @ \cup ({i} \ history)]

(* DownloadItem has started something: the item is no longer new.            *)
Started(s, i) == [s EXCEPT !.recent[i] = "old", !.active = @ + 1,
                           !.started = @ \cup ({i} \ history)]

(* OpenMTTFromHTTP: with the ID in the URL, IsDownload is asked first, which *)
(* takes the lock of the manager of downloads.                               *)
OpenMTTFromHTTP(s, i) ==
    LET t == [s EXCEPT !.asks = @ \/ May("ids")] IN
    IF May("ids") /\ <<i, 1>> \in Collection THEN Started(t, i)
    ELSE IF Fits(t) THEN Started(Push(t, <<i, 1>>), i) ELSE t

(* DownloadItem: a metafile is fetched; for anything else a temporary        *)
(* metafile is written and queued, and the result of the Push is ignored.    *)
DownloadItem(s, i) ==
    CASE Kind[i] = "feed"  -> s
      [] Kind[i] = "mtti"  -> OpenMTTFromHTTP(s, i)
      [] Kind[i] = "media" -> LET v == NewVideo(s, i) IN
             Started(Push([s EXCEPT !.file[v].tmp = "unwatched"], v), i)

(* OnFeedLoaded: new items are downloaded, as many as the channel may have.  *)
Visit(s, i) ==
    IF s.active < MaxActive /\ s.recent[i] = "new" /\ i \notin history
    THEN DownloadItem(s, i) ELSE s

Visits(s, order) ==
    LET after[n \in 0..Len(order)] ==
            IF n = 0 THEN s ELSE Visit(after[n - 1], order[n])
    IN  after[Len(order)]

OnFeedLoaded(s, f) ==
    IF s.feed[f].auto THEN Visits([s EXCEPT !.active = value[f]], SetToSeq(s.feed[f].page))
    ELSE s

(* LoadRSS: the first page a feed shows has no new items.                    *)
LoadRSS(s, f) ==
    LET page == s.feed[f].page
        seen == [i \in Items |->
                   IF i \notin page \/ s.recent[i] # "unseen" THEN s.recent[i]
                   ELSE IF s.feed[f].refreshed THEN "new" ELSE "old"]
    IN  IF page = None THEN s
        ELSE OnFeedLoaded([s EXCEPT !.recent = seen, !.feed[f].loaded = TRUE,
                                    !.feed[f].refreshed = TRUE], f)

(* LockChannel: the feed is loaded to be shown, if it is not.                *)
Shown(s, f) == IF s.feed[f].loaded THEN s ELSE LoadRSS(s, f)

(* LockChannels: the feeds that are not being updated, one after the other.  *)
ShownIfIdle(s, f) == IF IsInProgress(s, f) THEN s ELSE Shown(s, f)

AllShown(s) ==
    LET order == SetToSeq(Listed)
        after[n \in 0..Len(order)] ==
            IF n = 0 THEN s ELSE ShownIfIdle(after[n - 1], order[n])
    IN  after[Len(order)]

(* SaveIndex writes rss.uid, then rss.ini, and returns whether it could      *)
(* write the second.  What was in the files stays where it could not.        *)
Written == IF May("unsaved") THEN [uid : BOOLEAN, ini : BOOLEAN]
                             ELSE {[uid |-> TRUE, ini |-> TRUE]}

SaveIndex(files, feeds, seen, ok) ==
    [files EXCEPT !.recent = IF ok.uid THEN seen ELSE @,
                  !.feed   = IF ok.ini THEN feeds ELSE @]

-----------------------------------------------------------------------------
(* Mutant of Answered: a failure leaves the channel in m_InProgress.         *)
AnsweredIfLoaded(f, ok) ==
    LET page == {i \in published : FeedOf[i] = f}
        s == LET t == LoadRSS([State EXCEPT !.feed[f].page = page], f)
             IN  [t EXCEPT !.feed[f].loaded = FALSE, !.feed[f].refreshed = TRUE,
                           !.feed[f].due = FALSE, !.progress[f] = 0]
    IN  UpdateNextFeed([(IF ok THEN s ELSE State) EXCEPT !.transfers[f].current = FALSE])

(* Notify with the answer to the current handle of a feed.                   *)
Answered(f, ok) ==
    LET page == {i \in published : FeedOf[i] = f}
        s == IF ok THEN LET t == LoadRSS([State EXCEPT !.feed[f].page = page], f)
                        IN  [t EXCEPT !.feed[f].loaded = FALSE]
             ELSE State
    IN  UpdateNextFeed([s EXCEPT !.feed[f].refreshed = TRUE, !.feed[f].due = FALSE,
                                 !.progress[f] = 0, !.transfers[f].current = FALSE])

(* What a call leaves behind.                                                *)
After(c) ==
    CASE c.do = "Notify"            -> Answered(c.f, TRUE)
      [] c.do = "LockChannel"       -> Shown(State, c.f)
      [] c.do = "LockChannels"      -> AllShown(State)
      [] c.do = "SetChannelOptions" -> LoadRSS(State, c.f)
      [] c.do = "DownloadItem"      -> DownloadItem(State, c.i)

(* A user who asks once does not ask for what is on its way or was loaded.   *)
(* The last free ID of an item is kept for OnFeedLoaded.                     *)
Called(c) ==
    CASE c.do = "Notify" -> transfers[c.f].current
      [] c.do \in {"LockChannel", "SetChannelOptions"} -> feed[c.f].listed
      [] c.do = "LockChannels" -> TRUE
      [] c.do = "DownloadItem" ->
            /\ \E f \in Listed : feed[f].loaded /\ c.i \in feed[f].page
            /\ c.i \notin started \cup history \/ May("twice")
            /\ Kind[c.i] = "media" => Cardinality(FreeCopies(State, c.i)) > 1

(* A call of the user costs one of the world's calls.                        *)
Spend ==
    /\ left.ops > 0
    /\ left' = [left EXCEPT !.ops = @ - 1]

Paid(c) == CASE c.do \in {"SetChannelOptions", "DownloadItem"} -> Spend
             [] c.do \in {"LockChannel", "LockChannels"} -> May("views") /\ left' = left
             [] c.do = "Notify" -> left' = left

(* SetChannelOptions saves the index; DownloadItem is a wish of the user.    *)
Run(c) ==
    /\ waiting \in {None, c}
    /\ IF waiting = c THEN left' = left ELSE Called(c) /\ Paid(c)
    /\ waiting' = None
    /\ LET s == After(c) IN
          /\ s.asks => loading = None
          /\ Commit(s)
    /\ IF c.do = "SetChannelOptions"
       THEN \E ok \in Written : saved' = SaveIndex(saved, feed', recent', ok)
       ELSE saved' = saved
    /\ IF c.do = "DownloadItem"
       THEN settled' = settled \ {c.i} /\ trash' = trash \ {c.i}
       ELSE UNCHANGED <<settled, trash>>
    /\ UNCHANGED <<fetching, loading, mgr, published, world, torn>>

(* The call is inside the lock of FRSSManager, and IsDownload waits for the  *)
(* lock of FDownloadMgr.                                                     *)
Wait(c) ==
    /\ waiting = None
    /\ loading # None
    /\ Called(c)
    /\ Paid(c)
    /\ After(c).asks
    /\ waiting' = c
    /\ UNCHANGED <<rss, asked, loading, mgr, file, saved, published, world, ghosts>>

(* Every other function of FRSSManager.                                      *)
Free == waiting = None
Else == <<fetching, waiting, loading, mgr, published, world>>

(* AddFeed: the feed is updated if the index could be saved.                 *)
AddFeed(f) ==
    /\ Free
    /\ May("feeds")
    /\ Spend
    /\ f \notin Listed
    /\ LET s == [State EXCEPT !.feed[f] = NewFeed] IN
       \E ok \in Written :
          /\ saved' = SaveIndex(saved, s.feed, recent, ok)
          /\ Commit(IF ok.ini THEN UpdateFeed(s, f) ELSE s)
    /\ UNCHANGED <<Else, settled, trash, torn>>

(* AddFeed with the URL of a channel that is listed changes its name only,   *)
(* and saves the index.                                                      *)
NameFeed(f) ==
    /\ Free
    /\ May("feeds")
    /\ Spend
    /\ f \in Listed
    /\ \E ok \in Written : saved' = SaveIndex(saved, feed, recent, ok)
    /\ UNCHANGED <<Else, rss, requests, file, settled, started, trash, torn>>

(* RemoveChannel: an answer that is still to come will match no handle, and  *)
(* m_InProgress keeps the channel.  RemoveFromQueue takes out one entry.     *)
RemoveChannel(f) ==
    /\ Free
    /\ May("feeds")
    /\ Spend
    /\ f \in Listed
    /\ LET t == transfers[f]
           s == [State EXCEPT
                   !.feed[f] = NoFeed,
                   !.updates = RemoveFirst(@, f),
                   !.transfers[f] = [current |-> FALSE,
                                     stale |-> t.stale + (IF t.current THEN 1 ELSE 0)]]
       IN  /\ Commit(s)
           /\ \E ok \in Written : saved' = SaveIndex(saved, s.feed, recent, ok)
    /\ UNCHANGED <<Else, settled, trash, torn>>

(* RefreshChannel, called by the user.                                       *)
Refresh(f) ==
    /\ Free
    /\ May("feeds")
    /\ Spend
    /\ f \in Listed
    /\ Commit(RefreshChannel(State, f))
    /\ UNCHANGED <<Else, saved, settled, trash, torn>>

(* MarkAllAsViewed: a feed that is not loaded has no items to be marked.     *)
Marked(fs) == UNION {feed[f].page : f \in {g \in fs : feed[g].loaded}}
Viewed(fs) == [i \in Items |-> IF i \in Marked(fs) THEN "old" ELSE recent[i]]

(* MarkAsViewed of one channel or of all.                                    *)
MarkAsViewed(fs) ==
    /\ Free
    /\ May("views")
    /\ Spend
    /\ recent' = Viewed(fs)
    /\ \E ok \in Written :
          /\ saved' = SaveIndex(saved, feed, recent', ok)
          /\ settled' = IF ok.uid THEN settled \cup Marked(fs) ELSE settled
    /\ UNCHANGED <<Else, feed, transfers, updates, progress, requests, file, started, trash, torn>>

(* SetChannelAutoDownload calls MarkAsViewed, turns the flag over and saves  *)
(* the index once more.                                                      *)
SetChannelAutoDownload(f) ==
    /\ Free
    /\ May("views")
    /\ Spend
    /\ f \in Listed
    /\ feed' = [feed EXCEPT ![f].auto = ~@]
    /\ recent' = Viewed({f})
    /\ \E marked, turned \in Written :
          /\ saved' = SaveIndex(SaveIndex(saved, feed, recent', marked),
                                feed', recent', turned)
          /\ settled' = IF marked.uid \/ turned.uid THEN settled \cup Marked({f})
                        ELSE settled
    /\ UNCHANGED <<Else, transfers, updates, progress, requests, file, started, trash, torn>>

(* ClearChannels, when the main window closes.                               *)
ClearChannels ==
    /\ Free
    /\ feed' = [f \in Feeds |-> [feed[f] EXCEPT !.loaded = FALSE]]
    /\ UNCHANGED <<Else, recent, transfers, updates, progress, requests, file, saved,
                   left, ghosts>>

(* CheckForUpdates, from the timer of the tray window.                       *)
CheckForUpdates ==
    /\ Free
    /\ LET s == State
           Due(f) == /\ feed[f].due
                     /\ ~Contains(updates, f)
                     /\ ~IsInProgress(s, f)
       IN  Commit(UpdateNextFeed([s EXCEPT !.updates =
                      @ \o SetToSeq({f \in Listed : Due(f)})]))
    /\ UNCHANGED <<Else, saved, left, settled, trash, torn>>

(* Notify with a failure, or with the answer to a handle no feed has.        *)
NotifyFailed(f) ==
    /\ Free
    /\ transfers[f].current
    /\ Commit(Answered(f, FALSE))
    /\ UNCHANGED <<Else, saved, left, settled, trash, torn>>

(* Mutant of NotifyStale: an answer nobody waits for starts nothing.         *)
NotifyStaleSilently(f) ==
    /\ Free
    /\ transfers[f].stale > 0
    /\ Commit([State EXCEPT !.transfers[f].stale = @ - 1])
    /\ UNCHANGED <<Else, saved, left, settled, trash, torn>>

NotifyStale(f) ==
    /\ Free
    /\ transfers[f].stale > 0
    /\ Commit(UpdateNextFeed([State EXCEPT !.transfers[f].stale = @ - 1]))
    /\ UNCHANGED <<Else, saved, left, settled, trash, torn>>

-----------------------------------------------------------------------------
(* FDispThread takes the top: the URL of a metafile goes to the HTTP         *)
(* downloader.                                                               *)
Fetch ==
    /\ requests # <<>>
    /\ Kind[Item(Last(requests))] = "mtti"
    /\ requests' = Front(requests)
    /\ fetching' = [fetching EXCEPT ![Item(Last(requests))] = @ + 1]
    /\ UNCHANGED <<rss, waiting, loading, mgr, file, saved, published, left, world, ghosts>>

(* ConvertAndLoad writes the metafile of the video before it looks whether   *)
(* the item is there already.                                                *)
ConvertAndLoad(v) ==
    /\ loading = None
    /\ loading' = [do |-> "load", v |-> v]
    /\ file' = [file EXCEPT ![v].xml = "unwatched"]

(* FDispThread takes a temporary metafile: LoadDownload.                     *)
Load ==
    /\ requests # <<>>
    /\ Kind[Item(Last(requests))] = "media"
    /\ requests' = Front(requests)
    /\ ConvertAndLoad(Last(requests))
    /\ UNCHANGED <<rss, fetching, waiting, mgr, saved, published, left, world, ghosts>>

(* The user cancels the dialog of LoadDownload.                              *)
Cancel ==
    /\ May("cancel")
    /\ requests # <<>>
    /\ LET v == Last(requests) IN
          /\ Kind[Item(v)] = "media"
          /\ requests' = Front(requests)
          /\ file' = [file EXCEPT ![v].tmp = "none"]
    /\ UNCHANGED <<rss, fetching, waiting, loading, mgr, saved, published, left,
                   world, ghosts>>

(* FDownloadDispatcher::Notify with a metafile, or with a failure.           *)
Fetched(i) ==
    /\ fetching[i] > 0
    /\ fetching' = [fetching EXCEPT ![i] = @ - 1]
    /\ ConvertAndLoad(<<i, 1>>)
    /\ UNCHANGED <<rss, requests, waiting, mgr, saved, published, left, world, ghosts>>

FetchFailed(i) ==
    /\ fetching[i] > 0
    /\ left.fails > 0
    /\ left' = [left EXCEPT !.fails = @ - 1]
    /\ fetching' = [fetching EXCEPT ![i] = @ - 1]
    /\ UNCHANGED <<rss, requests, waiting, loading, mgr, file, saved, published,
                   world, ghosts>>

(* Mutant of Minus: the value does not wrap around.                          *)
MinusSigned(f) == [value EXCEPT ![f] = @ - 1]

(* An unwatched video more, or less, of a channel: m_dwValue is a DWORD.     *)
Plus(f)  == [value EXCEPT ![f] = (@ + 1) % (MaxValue + 1)]
Minus(f) == [value EXCEPT ![f] = (@ + MaxValue) % (MaxValue + 1)]

(* Mutant of Remember: the history is saved when the program ends.           *)
RememberUnsaved(i) ==
    /\ history' = history \cup {i}
    /\ saved' = saved

(* QueueDownload: the item is in the history, which is saved at once.        *)
Remember(i) ==
    /\ history' = history \cup {i}
    /\ saved' = [saved EXCEPT !.history = history']

(* Mutant of Converted: the temporary metafile stays.                        *)
ConvertedKept(v) == file' = file

(* After LoadDownload the temporary metafile is deleted.                     *)
Converted(v) == file' = [file EXCEPT ![v].tmp = "none"]

(* AddDownload, unless FindByGUID finds a download of the item.  It takes    *)
(* the lock of FRSSManager, in UpdateItemVideoId.                            *)
Loaded ==
    /\ loading # None
    /\ loading.do = "load"
    /\ LET v == loading.v IN
          /\ Converted(v)
          /\ \/ /\ Known(Item(v))
                /\ UNCHANGED <<mgr, saved, settled>>
             \/ /\ ~Known(Item(v))
                /\ Free
                /\ video' = [video EXCEPT ![v] = [NoVideo EXCEPT !.at = "live"]]
                /\ value' = Plus(Feed(v))
                /\ Remember(Item(v))
                /\ settled' = settled \cup {Item(v)}
          /\ started' = started \ {Item(v)}
    /\ loading' = None
    /\ UNCHANGED <<rss, asked, waiting, published, left, world, trash, torn>>

-----------------------------------------------------------------------------
(* DeleteStorage: the metafile the download was loaded from.                 *)
Erase(v) ==
    /\ video' = [video EXCEPT ![v] = NoVideo]
    /\ file' = [file EXCEPT ![v][video[v].conf] = "none"]

(* RemoveDownload and StopDownload: a download at rest is erased, another    *)
(* waits for its ALERT_ITEM_REMOVED.                                         *)
RemoveDownload(v) ==
    /\ loading = None
    /\ v \in Collection
    /\ Spend
    /\ \/ May("delete") /\ video[v].at = "live" /\ ~video[v].watched
       \/ May("watched") /\ video[v].at = "live" /\ video[v].watched
       \/ May("late") /\ video[v].at = "deleted"
    /\ loading' = [do |-> "remove", v |-> v]
    /\ \/ Erase(v)
       \/ video' = [video EXCEPT ![v].at = "deleted"] /\ file' = file
    /\ trash' = trash \cup {Item(v)}
    /\ UNCHANGED <<rss, asked, waiting, value, history, saved, published, world,
                   started, settled, torn>>

(* Mutant of Uncounted: a removed video stays counted.                       *)
UncountedNever(f) == value

(* "Watched videos may not be in the map".                                   *)
Uncounted(f) == IF value[f] > 0 THEN Minus(f) ELSE value

(* The end of StopDownload, under the lock of FRSSManager too.               *)
Removed ==
    /\ loading # None
    /\ loading.do = "remove"
    /\ Free
    /\ loading' = None
    /\ value' = Uncounted(Feed(loading.v))
    /\ UNCHANGED <<rss, asked, waiting, video, history, file, saved, published, left,
                   world, ghosts>>

(* OnItemRemoved                                                             *)
ItemRemoved(v) ==
    /\ loading = None
    /\ video[v].at = "deleted"
    /\ Erase(v)
    /\ UNCHANGED <<rss, asked, waiting, loading, value, history, saved, published,
                   left, world, ghosts>>

(* SaveVideoDetails, with the time the player counted or with details that   *)
(* were read before the video was watched.                                   *)
SaveVideoDetails(v, watched) ==
    /\ loading = None
    /\ May("watch")
    /\ v \in Collection
    /\ \/ video[v].at = "live" /\ watched
       \/ May("late")
    /\ video' = [video EXCEPT ![v].watched = watched]
    /\ file' = [file EXCEPT ![v][video[v].conf] = IF watched THEN "watched" ELSE "unwatched"]
    /\ value' = IF watched /\ ~video[v].watched THEN Minus(Feed(v)) ELSE value
    /\ UNCHANGED <<rss, asked, waiting, loading, history, saved, published, left,
                   world, ghosts>>

-----------------------------------------------------------------------------
(* A server publishes an item; an hour passes since a feed was updated.      *)
Publish(i) ==
    /\ i \in world.items \ published
    /\ published' = published \cup {i}
    /\ UNCHANGED <<rss, asked, waiting, loading, mgr, file, saved, left, world, ghosts>>

HourPasses(f) ==
    /\ f \in Listed
    /\ feed' = [feed EXCEPT ![f].due = TRUE]
    /\ UNCHANGED <<recent, transfers, updates, progress, asked, waiting, loading, mgr,
                   file, saved, published, left, world, ghosts>>

(* LoadStorage loads each video whose folder has a metafile, from one of them. *)
OnDisk == {v \in Video : file[v] # NoFile}

TwoMetafiles == {v \in Video : file[v].tmp # "none" /\ file[v].xml # "none"}

LoadedFrom(conf) ==
    [v \in Video |-> IF v \in OnDisk
                     THEN [at |-> "live", conf |-> conf[v],
                           watched |-> file[v][conf[v]] = "watched"]
                     ELSE NoVideo]

(* The program starts again, after GlobalObjects::Stop, which saves what the *)
(* managers know, or after a crash.  LoadIndex and LoadStorage load what is  *)
(* in the files, AddDownload counts and remembers each video again.          *)
Restart(crash) ==
    /\ left.starts > 0
    /\ left' = [left EXCEPT !.starts = @ - 1]
    /\ crash \/ (Free /\ loading = None)
    /\ crash => May("crash")
    /\ LET old   == IF crash THEN saved
                    ELSE [feed |-> feed, recent |-> recent, history |-> history]
           now   == old.history \cup {Item(v) : v \in OnDisk}
       IN  /\ feed' = [f \in Feeds |-> [old.feed[f] EXCEPT !.loaded = FALSE,
                                                           !.page = feed[f].page]]
           /\ recent' = old.recent
           /\ \E conf \in [OnDisk -> {"tmp", "xml"}] :
                 /\ \A v \in OnDisk : file[v][conf[v]] # "none"
                 /\ video' = LoadedFrom(conf)
           /\ value' = [f \in Feeds |->
                 Cardinality({v \in OnDisk : Feed(v) = f /\ ~video'[v].watched})
                     % (MaxValue + 1)]
           /\ history' = now
           /\ saved' = [old EXCEPT !.history = now]
           /\ settled' = settled \cup {Item(v) : v \in OnDisk}
    /\ transfers' = [f \in Feeds |-> [current |-> FALSE, stale |-> 0]]
    /\ updates' = <<>>
    /\ progress' = [f \in Feeds |-> 0]
    /\ requests' = <<>>
    /\ fetching' = [i \in Items |-> 0]
    /\ waiting' = None
    /\ loading' = None
    /\ started' = {}
    /\ torn' = IF crash THEN torn \cup TwoMetafiles ELSE torn
    /\ UNCHANGED <<file, published, world, trash>>

Next ==
    \/ \E c \in Call : Run(c) \/ Wait(c)
    \/ \E f \in Feeds : \/ AddFeed(f) \/ NameFeed(f) \/ RemoveChannel(f) \/ Refresh(f)
                        \/ SetChannelAutoDownload(f)
                        \/ NotifyFailed(f) \/ NotifyStale(f) \/ HourPasses(f)
    \/ \E fs \in {Listed} \cup {{f} : f \in Listed} : MarkAsViewed(fs)
    \/ ClearChannels \/ CheckForUpdates
    \/ Fetch \/ Load \/ Cancel \/ Loaded \/ Removed
    \/ \E i \in Items : Publish(i) \/ Fetched(i) \/ FetchFailed(i)
    \/ \E v \in Video : RemoveDownload(v) \/ ItemRemoved(v)
    \/ \E v \in Video, watched \in BOOLEAN : SaveVideoDetails(v, watched)
    \/ \E crash \in BOOLEAN : Restart(crash)

Spec == Init /\ [][Next]_vars

(* The timer of the tray window ticks, every transfer ends, and the threads  *)
(* of the dispatcher and the manager of downloads go on.                     *)
Answer(f) == NotifyFailed(f) \/ Run([do |-> "Notify", f |-> f])

Fairness ==
    /\ WF_vars(CheckForUpdates)
    /\ \A f \in Feeds : WF_vars(Answer(f)) /\ WF_vars(NotifyStale(f))
    /\ WF_vars(Fetch \/ Load)
    /\ WF_vars(Loaded \/ Removed)
    /\ \A i \in Items : WF_vars(Fetched(i) \/ FetchFailed(i))
    /\ WF_vars(waiting # None /\ Run(waiting))

FairSpec == Spec /\ Fairness

-----------------------------------------------------------------------------
(* Properties.                                                               *)

(* Nothing that waits for an answer waits in vain: while channels are in     *)
(* m_UpdateQueue an answer is to come, and its Notify takes the next one; a  *)
(* channel that is listed and in m_InProgress has a transfer whose answer    *)
(* will take it out, else CheckForUpdates and UpdateNextFeed would skip it   *)
(* for ever.  An AddFeed that could not save its index leaves a channel with *)
(* what an earlier one of that URL left in m_InProgress.                     *)
ChainAlive ==
    /\ updates # <<>> => \E f \in Feeds : transfers[f].current \/ transfers[f].stale > 0
    /\ May("unsaved") \/ \A f \in Listed : progress[f] > 0 => transfers[f].current

(* _RSSChannelMap counts the videos of a channel that were neither watched   *)
(* nor deleted, unless a deleted video was watched or is deleted again, or   *)
(* the details of a watched one were written back.                           *)
Unwatched(f) == {v \in Video : Feed(v) = f /\ video[v].at = "live" /\ ~video[v].watched}
Leaving(f)   == IF loading # None /\ loading.do = "remove" /\ Feed(loading.v) = f THEN 1 ELSE 0

ValueAgrees ==
    \/ May("watched") \/ May("late")
    \/ \A f \in Feeds : value[f] = Cardinality(Unwatched(f)) + Leaving(f)

(* The same item is in the collection once, also after a restart, unless it  *)
(* was asked for twice: ConvertAndLoad writes a second metafile then.        *)
LoadedOnce ==
    May("twice") \/ \A v, w \in Collection : Item(v) = Item(w) => v = w

(* What was in the collection or was marked by the user is not requested     *)
(* unless the user asks for it, whatever crash came between.                 *)
Requested(i) == {n \in DOMAIN requests : Item(requests[n]) = i}

NeverUnasked ==
    [][\A i \in Items : Cardinality(Requested(i)') > Cardinality(Requested(i))
                        => i \notin settled']_vars

(* A video that was deleted and erased does not come back, neither from a    *)
(* request that was still on its way nor from what a later start finds,      *)
(* unless a crash had left two metafiles of it or the item was asked for     *)
(* twice.  One that waits for its ALERT_ITEM_REMOVED is not erased yet: see  *)
(* DeletedIsNotRevived.                                                      *)
ErasedStaysAway ==
    [][May("twice")
       \/ \A v \in Video \ torn : video[v].at = "absent" /\ video'[v].at = "live"
                                  => Item(v) \notin trash]_vars

(* FDownloadMgr.cpp:559, "wait for notifications from clip downloader before *)
(* erasing": a video that was deleted is erased, it is not there again.      *)
DeletedIsNotRevived ==
    [][\A v \in Video : video[v].at = "deleted" => video'[v].at # "live"]_vars

(* A channel that is due is updated, or removed.  Metafiles with their ID in *)
(* the URL may stop everything: the managers wait for each other's lock.     *)
FeedsAreUpdated ==
    \A f \in Feeds :
       (f \in Listed /\ feed[f].due /\ ~May("unsaved") /\ ~May("ids"))
          ~> (f \notin Listed \/ ~feed[f].due)

(* An item that DownloadItem took, and that is not new any more, comes into  *)
(* the collection: QueueDownload remembers it.  For an item with a media     *)
(* file this holds through restarts and crashes, as its temporary metafile   *)
(* is loaded by the next start; the request of a metafile is lost by any     *)
(* restart, so it is promised only when none is to come.                     *)
Outlives(i) == Kind[i] = "media" \/ left.starts = 0

StartedIsLoaded ==
    \A i \in Items :
       (/\ i \in started /\ Outlives(i)
        /\ ~May("ids") /\ ~May("cancel") /\ ~May("twice") /\ world.fails = 0)
          ~> i \in history

(* FDownloadMgr.cpp:1252, ATLASSERT(pInfo.m_dwValue > 0): a video is counted *)
(* until it is watched.                                                      *)
WatchedWasCounted ==
    [][\A v \in Video : ~video[v].watched /\ video'[v].watched /\ video[v].at # "absent"
                        => value[Feed(v)] > 0]_vars
=============================================================================
