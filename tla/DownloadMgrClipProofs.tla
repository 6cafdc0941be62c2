----------------------- MODULE DownloadMgrClipProofs -------------------------
(***************************************************************************)
(* The life of a download between its clips, for any videos, any number of *)
(* slots and any order of calls, alerts and transfers, and what follows    *)
(* from it: the slots are counted (SlotsAreCounted), what is deleted goes  *)
(* away (DeletedAreErased), no download is forgotten (NothingIsForgotten), *)
(* and whoever asks for the next clip has one left (ClipsAreLeft).         *)
(***************************************************************************)
EXTENDS DownloadMgrProofs

-----------------------------------------------------------------------------
(* What each download does between two of its clips, for videos that do not  *)
(* turn out to be torrents.  StartQueuedDownload makes the first clip of a   *)
(* stream downloadable, so a stream is taken to have one.                    *)
Plain ==
    /\ StreamsAreSingle
    /\ Without({"add-again", "stale-start"}) /\ world.bittorrent = {}
    /\ ~(May("refuse") /\ May("pause-failed"))

(* Nobody finds a torrent, and only a video that is no playlist is retried.  *)
Messages ==
    /\ \A i \in DOMAIN alerts :
          /\ alerts[i].code # "TORRENT"
          /\ alerts[i].code = "SCHEDULED" => alerts[i].v \notin Playlists /\ alerts[i].k = 1
    /\ \A v \in Videos : retry[v] > 0 => v \notin Playlists
    /\ \A h \in DOMAIN pairs : pairs[h].at # "typing"

(* What is left to do is about downloads that are there; a clip that waits   *)
(* behind something else had been completed; nothing but its end is left to  *)
(* do for a download that is being erased.                                   *)
Owned ==
    /\ \A c \in Range(calls) :
          c.do # "CountTorrentFound" /\ (c.do # "EraseDownload" => c.v \in listed)
    /\ \A c \in Behind(calls) : c.do = "AddClip" => c.k \in item[c.v].timed
    /\ \A c, d \in Range(calls) :
          d.do = "EraseDownload" => c.do # "Resume" /\ (c.v = d.v => c.do = "EraseDownload")

Started(v) == Is(v, "ACTIVE") \/ Is(v, "FINISHED")

(* m_dwClipsActive, m_CurClipIndex and the clips agree.                      *)
Counts(v) ==
    /\ item[v].clips >= 0
    /\ item[v].cur = 0 <=> item[v].clips = 0
    /\ item[v].completed \subseteq item[v].timed
    /\ \A k \in item[v].completed \cup item[v].missing : k <= item[v].cur
    /\ \A k \in Clips(v) : item[v].type[k] = "stream" <=> IsStream(v)
    /\ IsStream(v) => ClipType[v] = "stream"

(* Clips are fetched, and talked about, once the first one was queued.       *)
Engaged(v) ==
    /\ Traced(v) => item[v].cur > 0
    /\ \A c \in Range(calls) :
          /\ c.v = v /\ c.do \in OfClip => c.k <= item[v].cur
          /\ c.v = v /\ c.do = "OnDownloadComplete" => item[v].cur > 0
    /\ Is(v, "ACTIVE") => Traced(v)
    /\ item[v].missing # {} => Traced(v) /\ Started(v)

(* A download without a clip waits in the queue, is paused or was finished   *)
(* before.                                                                   *)
Waits(v) ==
    /\ Is(v, "QUEUED") \/ Asked(v) => item[v].cur = 0 /\ (Is(v, "STOPPED") => Erasing(v))
    /\ Is(v, "FORCE") => 
          (Is(v, "QUEUED") \/ Asked(v)) /\ ~Is(v, "FINISHED") /\ ~IsStream(v)
    /\ item[v].cur = 0 =>
          \/ item[v].flags \cap {"QUEUED", "PAUSED", "FINISHED"} # {}
          \/ Asked(v) \/ Doing("QueueNextDownloadItem", v)

(* A deleted download is erased, or waits for its clips to be removed.  The  *)
(* retry of its first clip may still come: it leads nowhere.                 *)
Stops(v) ==
    /\ Is(v, "STOPPED") <=> Is(v, "DELETED")
    /\ Is(v, "STOPPED") =>
          /\ Erasing(v) \/ (item[v].cur > 0 /\ ~Is(v, "FINISHED") /\ ~IsStream(v))
          /\ \A c \in Range(calls) : c.v = v =>
                \/ c.do \in {"EraseDownload", "Resume"}
                \/ /\ c.do \in OfClip /\ c.k = 1 /\ v \notin Playlists
                   /\ c.do = "OnItemComplete" /\ c.hr = "S_OK" => 1 \in item[v].completed

(* The thread inside m_Sync is about to bring v on.                          *)
Moving(v) ==
    \/ Doing("QueueNextDownloadItem", v) /\ item[v].cur < ClipCount[v]
    \/ /\ Doing("QueueDownloadItem", v)
       /\ Head(calls).k = item[v].cur /\ Head(calls).k \notin item[v].completed
    \/ /\ Doing("AddClip", v)
       /\ Head(calls).k = item[v].cur /\ Head(calls).k \notin item[v].timed
    \/ /\ Doing("OnItemComplete", v)
       /\ Head(calls).hr = "S_OK" /\ Head(calls).k \notin item[v].completed
    \/ Doing("OnDownloadComplete", v)

(* A download of which no clip was started was refused its last one, so that *)
(* nobody pauses it; a stream is finished at once; and a transfer only fails *)
(* in a download that was started.                                           *)
Idles(v) ==
    /\ ~Started(v) /\ ~IsStream(v) /\ item[v].cur > 0 =>
          \/ Moving(v)
          \/ /\ May("refuse") /\ item[v].handle[item[v].cur] = 0
             /\ item[v].cur \notin item[v].timed
    /\ ~Started(v) /\ ~IsStream(v) /\ Is(v, "PAUSED") =>
          item[v].cur = 0 /\ ~Doing("QueueNextDownloadItem", v)
    /\ IsStream(v) => Is(v, "FINISHED") \/ Asked(v) \/ Moving(v)
    /\ \A h \in DOMAIN pairs : pairs[h].v = v /\ pairs[h].at = "http" => Started(v)
    /\ \A i \in DOMAIN alerts :
          alerts[i].v = v /\ alerts[i].code = "FINISHED" /\ alerts[i].hr \in Failures
             => Started(v)
    /\ \A c \in Range(calls) : c.v = v /\ c.hr \notin {"S_OK", "E_FAIL"} => Started(v)

(* Who works on clip k of v: a pair, an alert, a retry, the thread.          *)
Fetched(v, k, h) ==
    /\ h \in DOMAIN pairs /\ pairs[h].v = v /\ pairs[h].k = k
    /\ pairs[h].at \in {"http", "torrent"}

Told(v, k, i) ==
    /\ i \in DOMAIN alerts /\ alerts[i].v = v /\ alerts[i].k = k
    /\ alerts[i].code \in {"FINISHED", "SCHEDULED"}

Retried(v, k) == IF k = 1 THEN retry[v] ELSE 0

Handled(v, k) ==
    /\ calls # <<>> /\ Head(calls).v = v /\ Head(calls).k = k /\ Head(calls).do \in OfClip
    /\ Head(calls).do = "AddClip" => k \notin item[v].timed

Handed(v, k) ==
    \/ \E h : Fetched(v, k, h)
    \/ \E i : Told(v, k, i)
    \/ Retried(v, k) > 0
    \/ Handled(v, k)

(* It is one of them only, until the clip is completed.                      *)
Lone(v, k) ==
    /\ \A h, g : Fetched(v, k, h) /\ Fetched(v, k, g) => h = g
    /\ \A i, j : Told(v, k, i) /\ Told(v, k, j) => i = j
    /\ Retried(v, k) <= 1
    /\ \A h : Fetched(v, k, h) =>
          (\A i : ~Told(v, k, i)) /\ Retried(v, k) = 0 /\ ~Handled(v, k)
    /\ \A i : Told(v, k, i) => Retried(v, k) = 0 /\ ~Handled(v, k)
    /\ Retried(v, k) > 0 => ~Handled(v, k)

(* Clip after clip: those of a video that is no playlist are completed in    *)
(* order, and unless a completed clip may be fetched or refused again the    *)
(* clip at work is the current one.                                          *)
Steady(v) == v \notin Playlists \/ Without({"refuse", "moved"})

Once(v) ==
    /\ \A k \in Clips(v) : k \notin item[v].completed =>
          /\ Lone(v, k)
          /\ Handed(v, k) => k <= item[v].cur
          /\ Handed(v, k) /\ Steady(v) =>
                k = item[v].cur /\ ~Doing("QueueNextDownloadItem", v)
          /\ v \notin Playlists /\ k \in item[v].missing => ~Handed(v, k)
    /\ v \notin Playlists =>
          /\ \A k \in Clips(v) : k < item[v].cur => k \in item[v].completed
          /\ Doing("QueueNextDownloadItem", v) /\ item[v].cur > 0 =>
                item[v].cur \in item[v].completed

(* A clip completed in an earlier run is completed as soon as it is queued.  *)
First(v) ==
    \A k \in Clips(v) :
        k <= item[v].cur /\ k \in item[v].timed /\ k \notin item[v].completed =>
            /\ ~Is(v, "STOPPED")
            /\ Doing("QueueDownloadItem", v) \/ Doing("OnItemComplete", v)
            /\ Head(calls).k = k /\ Head(calls).hr = "S_OK"

(* Where no clip is fetched again, a completed one does not fail.            *)
Sure(v) ==
    Without({"refuse", "moved"}) =>
        /\ \A h \in DOMAIN pairs :
              pairs[h].v = v /\ pairs[h].at = "http" => pairs[h].k \notin item[v].completed
        /\ \A i \in DOMAIN alerts :
              alerts[i].v = v /\ alerts[i].code = "FINISHED" /\ alerts[i].hr \in Failures
                 => alerts[i].k \notin item[v].completed
        /\ Doing("OnItemComplete", v) /\ Head(calls).hr # "S_OK" =>
              Head(calls).k \notin item[v].completed

(* In a finished download nothing is fetched again.                          *)
Ends(v) ==
    /\ Is(v, "FINISHED") /\ ~IsStream(v) =>
          /\ \A k \in Clips(v) : k > item[v].cur => k \in item[v].timed
          /\ v \notin Playlists => Clips(v) \subseteq item[v].timed
          /\ \A c \in Range(calls) :
                c.v = v /\ c.do \in {"QueueDownloadItem", "AddClip"} => c.k \in item[v].timed
    /\ Doing("OnDownloadComplete", v) =>
          /\ item[v].cur = ClipCount[v]
          /\ v \notin Playlists => Clips(v) \subseteq item[v].timed

COf(v) ==
    /\ Counts(v) /\ Engaged(v) /\ Waits(v) /\ Stops(v) /\ Idles(v)
    /\ Once(v) /\ First(v) /\ Sure(v) /\ Ends(v)

CInv == Messages /\ Owned /\ \A v \in listed : COf(v)


(* A download in the collection.                                             *)
LEMMA ListedIs ==
    ASSUME TInv, CInv, NEW v \in listed
    PROVE  /\ v \in Videos /\ item[v] \in ItemsOf(v) /\ COf(v)
           /\ Clips(v) \subseteq Nat \ {0} /\ 1 \in Clips(v)
           /\ ClipCount[v] \in Nat /\ ClipCount[v] > 0
           /\ \A i \in Clips(v) : i <= ClipCount[v]
           /\ item[v].cur \in Nat /\ item[v].cur <= ClipCount[v] /\ item[v].clips \in Int
           /\ item[v].cur > 0 => item[v].cur \in Clips(v)
           /\ item[v].completed \subseteq Clips(v) /\ item[v].timed \subseteq Clips(v)
           /\ item[v].missing \subseteq Clips(v)
           /\ item[v].handle \in [Clips(v) -> Nat]
           /\ retry[v] \in Nat
           /\ \A c \in Range(calls) : c.v = v /\ c.do \in OfClip => c.k \in Clips(v)
<1>1. /\ v \in Videos /\ item[v] \in ItemsOf(v) /\ COf(v)
      /\ Clips(v) \subseteq Nat \ {0} /\ 1 \in Clips(v)
      /\ ClipCount[v] \in Nat /\ ClipCount[v] > 0 /\ retry[v] \in Nat
      /\ \A i \in Clips(v) : i <= ClipCount[v]
  BY Settings DEF TInv, ItemsTyped, CInv, Clips
<1>2. \A c \in Range(calls) : c \in CallSet
  BY SeqEntries DEF TInv
<1>3. \A c \in Range(calls) : c.v = v /\ c.do \in OfClip => c.k \in Clips(v)
  BY <1>2 DEF CallSet
<1>4. item[v].cur \in 0..ClipCount[v]
  BY <1>1 DEF ItemsOf
<1>5. item[v].cur > 0 => item[v].cur \in Clips(v)
  BY <1>1, <1>4 DEF Clips
<1> QED BY <1>1, <1>3, <1>4, <1>5 DEF ItemsOf

(* The thread inside m_Sync goes on, with nothing that is about w, but it    *)
(* may give w the slot it waits for.                                         *)
Passed(w) ==
    /\ calls # <<>> => Head(calls).v # w
    /\ \A c \in Range(calls) : c.v = w => c \in Range(calls')
    /\ \A c \in Range(calls') : c.v = w =>
          \/ c \in Range(calls)
          \/ c.do = "QueueDownload" /\ c.hr = "S_OK" /\ Is(w, "QUEUED") /\ ~Erasing(w)
    /\ calls' # <<>> /\ Head(calls').v = w =>
          /\ Head(calls') \in Range(calls')
          /\ \/ Head(calls').do \in {"EraseDownload", "Resume"}
             \/ Head(calls').do = "QueueDownload" /\ Is(w, "QUEUED") /\ ~Erasing(w)
             \/ Head(calls').do = "AddClip" /\ Head(calls').k \in item[w].timed

(* A step that is about another download.                                    *)
SamePairsOf(w) ==
    /\ \A h \in DOMAIN pairs' : pairs'[h].v = w => h \in DOMAIN pairs /\ pairs'[h] = pairs[h]
    /\ \A h \in DOMAIN pairs : pairs[h].v = w => h \in DOMAIN pairs' /\ pairs'[h] = pairs[h]

SameAlertsOf(w) ==
    /\ \A i \in DOMAIN alerts' : alerts'[i].v = w => i \in DOMAIN alerts /\ alerts'[i] = alerts[i]
    /\ \A i \in DOMAIN alerts : alerts[i].v = w => i \in DOMAIN alerts' /\ alerts'[i] = alerts[i]

Apart(w) ==
    /\ world' = world /\ item'[w] = item[w] /\ retry'[w] = retry[w]
    /\ SamePairsOf(w) /\ SameAlertsOf(w)
    /\ calls' = calls \/ Passed(w)

LEMMA ApartHands ==
    ASSUME TInv, NEW w \in Videos, Apart(w), NEW k \in Clips(w), Lone(w, k)
    PROVE  Lone(w, k)' /\ (Handed(w, k)' => Handed(w, k))
<1>1. \A h : Fetched(w, k, h)' => Fetched(w, k, h)
  BY DEF Apart, SamePairsOf, Fetched
<1>2. \A i : Told(w, k, i)' => Told(w, k, i)
  BY DEF Apart, SameAlertsOf, Told
<1>3. Retried(w, k)' = Retried(w, k)
  BY DEF Apart, Retried
<1>4. Handled(w, k)' => Handled(w, k)
  <2>1. CASE calls' = calls
    BY <2>1 DEF Apart, Handled
  <2>2. CASE Passed(w)
    BY <2>2 DEF Apart, Passed, Handled, OfClip
  <2> QED BY <2>1, <2>2 DEF Apart
<1> QED BY <1>1, <1>2, <1>3, <1>4 DEF Lone, Handed

LEMMA ApartDoes ==
    ASSUME TInv, NEW w \in Videos, Apart(w)
    PROVE  /\ Traced(w)' <=> Traced(w)
           /\ (Is(w, "QUEUED") /\ ~Erasing(w)) \/ ~(Asked(w)' /\ ~Asked(w))
           /\ Erasing(w)' <=> Erasing(w)
           /\ \A f \in {"QueueNextDownloadItem", "OnDownloadComplete", "QueueDownloadItem",
                        "OnItemComplete"} : Doing(f, w)' => Doing(f, w)
           /\ calls' = calls \/ \A f : ~Doing(f, w)
           /\ Moving(w)' <=> Moving(w)
           /\ \A c \in Range(calls') : c.v = w =>
                 \/ c \in Range(calls)
                 \/ c.do = "QueueDownload" /\ c.hr = "S_OK" /\ Is(w, "QUEUED") /\ ~Erasing(w)
<1>1. Traced(w)' <=> Traced(w)
  BY DEF Apart, SamePairsOf, Traced
<1>2. CASE calls' = calls
  BY <1>1, <1>2 DEF Apart, Asked, Erasing, Doing, Moving
<1>3. CASE Passed(w)
  <2>1. (Is(w, "QUEUED") /\ ~Erasing(w)) \/ ~(Asked(w)' /\ ~Asked(w))
    BY <1>3 DEF Passed, Asked, Erasing
  <2>2. Erasing(w)' <=> Erasing(w)
    BY <1>3 DEF Passed, Erasing
  <2>3. \A f : ~Doing(f, w)
    BY <1>3 DEF Passed, Doing
  <2>4. \A f \in {"QueueNextDownloadItem", "OnDownloadComplete", "QueueDownloadItem",
                  "OnItemComplete"} : ~Doing(f, w)'
    BY <1>3 DEF Passed, Doing
  <2>5. ~Moving(w) /\ ~Moving(w)'
    BY <1>3, <2>3, <2>4 DEF Moving, Passed, Apart, Doing
  <2> QED BY <1>1, <1>3, <2>1, <2>2, <2>3, <2>4, <2>5 DEF Passed
<1> QED BY <1>2, <1>3 DEF Apart

LEMMA ApartKeeps ==
    ASSUME TInv, TInv', CInv, NEW w \in listed, Apart(w)
    PROVE  COf(w)'
<1>0. /\ w \in Videos /\ COf(w) /\ item'[w] = item[w] /\ world' = world /\ Clips(w) \subseteq Nat
      /\ retry[w] \in Nat
  BY ListedIs DEF Apart
<1> DEFINE Fs == {"QueueNextDownloadItem", "OnDownloadComplete", "QueueDownloadItem",
                  "OnItemComplete"}
<1>1. /\ Traced(w)' <=> Traced(w)
      /\ (Is(w, "QUEUED") /\ ~Erasing(w)) \/ ~(Asked(w)' /\ ~Asked(w))
      /\ Erasing(w)' <=> Erasing(w)
      /\ \A f \in Fs : Doing(f, w)' => Doing(f, w)
      /\ calls' = calls \/ \A f : ~Doing(f, w)
      /\ Moving(w)' <=> Moving(w)
      /\ \A c \in Range(calls') : c.v = w =>
            \/ c \in Range(calls)
            \/ c.do = "QueueDownload" /\ c.hr = "S_OK" /\ Is(w, "QUEUED") /\ ~Erasing(w)
  BY <1>0, ApartDoes
<1>2. Counts(w)'
  BY <1>0 DEF COf, Counts, IsStream
<1>3. Engaged(w)'
  BY <1>0, <1>1 DEF COf, Engaged, Is, Started, OfClip
<1>4. Waits(w)'
  <2>1. calls' = calls =>
           /\ Asked(w)' <=> Asked(w)
           /\ Doing("QueueNextDownloadItem", w)' <=> Doing("QueueNextDownloadItem", w)
    BY DEF Asked, Doing
  <2>2. ~(\E f : Doing(f, w)) => ~Asked(w) /\ ~Doing("QueueNextDownloadItem", w)
    BY DEF Asked, Doing
  <2> QED BY <1>0, <1>1, <2>1, <2>2 DEF COf, Waits, Is, IsStream
<1>5. Stops(w)'
  BY <1>0, <1>1 DEF COf, Stops, Is, OfClip, IsStream, Waits
<1>6. Idles(w)'
  <2>1. (~Started(w) /\ ~IsStream(w) /\ item[w].cur > 0 =>
          \/ Moving(w)
          \/ /\ May("refuse") /\ item[w].handle[item[w].cur] = 0
             /\ item[w].cur \notin item[w].timed)'
    BY <1>0, <1>1 DEF COf, Idles, Started, Is, IsStream, May
  <2>2. (~Started(w) /\ ~IsStream(w) /\ Is(w, "PAUSED") =>
          item[w].cur = 0 /\ ~Doing("QueueNextDownloadItem", w))'
    BY <1>0, <1>1 DEF COf, Idles, Started, Is, IsStream
  <2>3. (IsStream(w) => Is(w, "FINISHED") \/ Asked(w) \/ Moving(w))'
    <3>1. calls' = calls => (Asked(w)' <=> Asked(w))
      BY DEF Asked
    <3>2. ~(\E f : Doing(f, w)) => ~Asked(w)
      BY DEF Asked, Doing
    <3> QED BY <1>0, <1>1, <3>1, <3>2 DEF COf, Idles, Is, IsStream
  <2>4. (\A h \in DOMAIN pairs : pairs[h].v = w /\ pairs[h].at = "http" => Started(w))'
    BY <1>0 DEF COf, Idles, Started, Is, Apart, SamePairsOf
  <2>5. (\A i \in DOMAIN alerts :
          alerts[i].v = w /\ alerts[i].code = "FINISHED" /\ alerts[i].hr \in Failures
             => Started(w))'
    BY <1>0 DEF COf, Idles, Started, Is, Apart, SameAlertsOf
  <2>6. (\A c \in Range(calls) : c.v = w /\ c.hr \notin {"S_OK", "E_FAIL"} => Started(w))'
    BY <1>0, <1>1 DEF COf, Idles, Started, Is
  <2> QED BY <2>1, <2>2, <2>3, <2>4, <2>5, <2>6 DEF Idles
<1>7. Once(w)'
  BY <1>0, <1>1, ApartHands DEF COf, Once, Steady, Without
<1>8. First(w)'
  BY <1>0, <1>1 DEF COf, First, Is, Doing
<1>9. Ends(w)'
  BY <1>0, <1>1 DEF COf, Ends, Is, IsStream
<1>10. Sure(w)'
  <2>1. Doing("OnItemComplete", w)' => Doing("OnItemComplete", w) /\ Head(calls') = Head(calls)
    BY <1>1 DEF Doing
  <2> QED BY <1>0, <2>1 DEF COf, Sure, Without, Apart, SamePairsOf, SameAlertsOf
<1> QED BY <1>2, <1>3, <1>4, <1>5, <1>6, <1>7, <1>8, <1>9, <1>10 DEF COf


(* A call behind another one: it goes on with what was done before.          *)
Rests(c) == c.do = "Resume" \/ (c.do = "AddClip" /\ c.k \in item[c.v].timed)

(* A body that ends with calls about its own download, or gives the slot of  *)
(* that one to the head of the queue.                                        *)
NextCalls(v) ==
    {c \in CallSet :
        \/ c.v = v /\ c.do \in AtWork \ {"CountTorrentFound"}
        \/ /\ c.v # v /\ c.v \in listed /\ c.do = "QueueDownload" /\ c.hr = "S_OK"
           /\ Is(c.v, "QUEUED") /\ ~Erasing(c.v)}

LEMMA WorkOn ==
    ASSUME TInv, QInv, CInv, NEW f, NEW v \in Videos, Doing(f, v),
           \/ Then(<<>>)
           \/ f # "EraseDownload" /\ \E c \in NextCalls(v) : Then(<<c>>)
           \/ /\ f # "EraseDownload"
              /\ \E c, d \in NextCalls(v) :
                    /\ Then(<<c, d>>)
                    /\ d.v = v /\ d.do = "AddClip" /\ d.k \in item[v].timed,
           listed' = IF f = "EraseDownload" THEN listed \ {v} ELSE listed,
           \A w \in Videos : w # v => item'[w] = item[w],
           f # "EraseDownload" => item[v].timed \subseteq item'[v].timed
    PROVE  /\ Owned'
           /\ \A w \in Videos : w # v => Passed(w)
           /\ f # "EraseDownload" =>
                 /\ v \in listed /\ ~Erasing(v) /\ ~Erasing(v)'
                 /\ \A c \in Range(calls') : c.v = v =>
                       c \in NextCalls(v) \/ (c \in Range(calls) /\ Rests(c))
                 /\ calls' # <<>> /\ Head(calls').v = v =>
                       Head(calls') \in NextCalls(v) \/ Rests(Head(calls'))
<1> DEFINE N == NextCalls(v)
<1>0. N \in SUBSET CallSet
  BY DEF NextCalls
<1>1. /\ calls # <<>> /\ Head(calls).v = v /\ Head(calls).do = f /\ calls \in Seq(CallSet)
      /\ Head(calls) \in CallSet
      /\ Range(calls) = {Head(calls)} \cup Behind(calls)
      /\ Head(calls) \in Range(calls) /\ Behind(calls) \subseteq Range(calls)
  BY DoingIs
<1>2. /\ Stacked'
      /\ Behind(calls) \subseteq Range(calls')
      /\ \A c \in Behind(calls) : c \in Range(calls) /\ c.do \in Later
      /\ \A c \in Range(calls') : c \in Behind(calls) \/ c \in N
      /\ calls' # <<>> => Head(calls').do \in Later \/ Head(calls') \in N
  <2>1. \/ Then(<<>>)
        \/ \E c \in N : Then(<<c>>)
        \/ \E c, d \in N : Then(<<c, d>>) /\ d.do \in Later
    BY DEF Later
  <2> HIDE DEF N
  <2> QED BY <1>0, <2>1, CallsLeft DEF QInv
<1>3. calls' # <<>> => Head(calls') \in Range(calls')
  <2>1. CASE Then(<<>>)
    BY <1>1, <2>1, ThenNothing
  <2>2. ASSUME NEW c \in N, Then(<<c>>) PROVE Head(calls') \in Range(calls')
    BY <1>0, <1>1, <2>2, ThenCall
  <2>3. ASSUME NEW c \in N, NEW d \in N, Then(<<c, d>>) PROVE Head(calls') \in Range(calls')
    BY <1>0, <1>1, <2>3, ThenTwoCalls
  <2> QED BY <2>1, <2>2, <2>3
<1>4. \A c \in Behind(calls') : c \in Behind(calls) \/
           (c.v = v /\ c.do = "AddClip" /\ c.k \in item[v].timed)
  <2>1. CASE Then(<<>>)
    BY <1>1, <2>1, ThenNothing
  <2>2. ASSUME NEW c \in N, Then(<<c>>) PROVE Behind(calls') = Behind(calls)
    BY <1>0, <1>1, <2>2, ThenCall
  <2>3. ASSUME NEW c \in N, NEW d \in N, Then(<<c, d>>)
        PROVE Behind(calls') = {d} \cup Behind(calls)
    BY <1>0, <1>1, <2>3, ThenTwoCalls
  <2>4. ASSUME NEW c \in N, NEW d \in N, Then(<<c, d>>),
               d.v = v /\ d.do = "AddClip" /\ d.k \in item[v].timed
        PROVE  \A e \in Behind(calls') : e \in Behind(calls) \/
                  (e.v = v /\ e.do = "AddClip" /\ e.k \in item[v].timed)
    BY <2>3, <2>4
  <2> QED BY <2>1, <2>2, <2>4
<1>5. \A c \in N :
         /\ c.do # "EraseDownload" /\ c.do # "Resume" /\ c.do # "CountTorrentFound"
         /\ ~Erasing(c.v) \/ c.v = v
         /\ c.v \in listed \/ c.v = v
  BY DEF NextCalls, AtWork
<1>6. /\ \A c \in Range(calls) :
             c.do # "CountTorrentFound" /\ (c.do # "EraseDownload" => c.v \in listed)
      /\ \A c \in Behind(calls) : c.do = "AddClip" => c.k \in item[c.v].timed
      /\ \A c, d \in Range(calls) :
             d.do = "EraseDownload" => c.do # "Resume" /\ (c.v = d.v => c.do = "EraseDownload")
  BY DEF CInv, Owned
<1>7. f # "EraseDownload" => v \in listed /\ ~Erasing(v)
  BY <1>1, <1>6 DEF Erasing
<1>8. \A c \in Behind(calls) : Rests(c) \/ c.do = "EraseDownload"
  BY <1>2, <1>6 DEF Rests, Later
<1>9. \A c \in Behind(calls) : c.v = v /\ f # "EraseDownload" => Rests(c)
  BY <1>2, <1>7, <1>8 DEF Erasing
<1>10. f = "EraseDownload" => \A c \in Range(calls') : c \in Behind(calls)
  BY <1>1, ThenNothing
<1>11. f # "EraseDownload" =>
         \A c \in N, d \in Range(calls) : d.do = "EraseDownload" => c.v # d.v
  BY <1>5, <1>7 DEF Erasing
<1> HIDE DEF N
<1>12. Owned'
  <2>1. \A c \in Range(calls') :
            c.do # "CountTorrentFound" /\ (c.do # "EraseDownload" => c.v \in listed')
    <3>1. CASE f = "EraseDownload"
      <4>1. \A c \in Behind(calls) : c.do # "EraseDownload" => c.v # v
        BY <1>1, <1>2, <1>6, <3>1
      <4> QED BY <1>2, <1>6, <1>10, <3>1, <4>1
    <3>2. CASE f # "EraseDownload"
      BY <1>2, <1>5, <1>6, <1>7, <3>2
    <3> QED BY <3>1, <3>2
  <2>2. \A c \in Behind(calls') : c.do = "AddClip" => c.k \in item'[c.v].timed
    <3> SUFFICES ASSUME NEW c \in Behind(calls'), c.do = "AddClip"
                 PROVE  c.k \in item'[c.v].timed
      OBVIOUS
    <3>1. c.k \in item[c.v].timed /\ (c \in Behind(calls) \/ c.v = v)
      BY <1>4, <1>6
    <3>2. c \in Behind(calls) => c.v \in Videos
      BY <1>1, <1>2, SeqEntries DEF CallSet
    <3>3. f = "EraseDownload" => c.v # v
      <4>1. ASSUME f = "EraseDownload" PROVE c \in Behind(calls)
        BY <1>1, <4>1, ThenNothing
      <4> QED BY <1>1, <1>2, <1>6, <4>1
    <3> QED BY <3>1, <3>2, <3>3
  <2>3. \A c, d \in Range(calls') :
          d.do = "EraseDownload" => c.do # "Resume" /\ (c.v = d.v => c.do = "EraseDownload")
    <3> SUFFICES ASSUME NEW c \in Range(calls'), NEW d \in Range(calls'),
                        d.do = "EraseDownload"
                 PROVE  c.do # "Resume" /\ (c.v = d.v => c.do = "EraseDownload")
      OBVIOUS
    <3>1. d \in Behind(calls) /\ d \in Range(calls)
      BY <1>2, <1>5
    <3>2. CASE c \in Behind(calls)
      BY <1>2, <1>6, <3>1, <3>2
    <3>3. CASE c \notin Behind(calls)
      BY <1>2, <1>5, <1>10, <1>11, <3>1, <3>3
    <3> QED BY <3>2, <3>3
  <2> QED BY <2>1, <2>2, <2>3 DEF Owned
<1>13. ASSUME NEW w \in Videos, w # v PROVE Passed(w)
  <2>1. \A c \in Range(calls) : c.v = w => c \in Range(calls')
    BY <1>1, <1>2, <1>13
  <2>2. \A c \in N : c.v = w =>
           c.do = "QueueDownload" /\ c.hr = "S_OK" /\ Is(w, "QUEUED") /\ ~Erasing(w)
    BY <1>13 DEF N, NextCalls
  <2>3. \A c \in Range(calls') : c.v = w =>
          \/ c \in Range(calls)
          \/ c.do = "QueueDownload" /\ c.hr = "S_OK" /\ Is(w, "QUEUED") /\ ~Erasing(w)
    BY <1>2, <2>2
  <2>4. ASSUME calls' # <<>>, Head(calls').v = w
        PROVE  /\ Head(calls') \in Range(calls')
               /\ \/ Head(calls').do \in {"EraseDownload", "Resume"}
                  \/ Head(calls').do = "QueueDownload" /\ Is(w, "QUEUED") /\ ~Erasing(w)
                  \/ Head(calls').do = "AddClip" /\ Head(calls').k \in item[w].timed
    BY <1>2, <1>3, <1>8, <2>2, <2>4 DEF Rests
  <2> QED BY <1>1, <1>13, <2>1, <2>3, <2>4 DEF Passed
<1>14. ASSUME f # "EraseDownload"
       PROVE  /\ ~Erasing(v)'
              /\ \A c \in Range(calls') : c.v = v =>
                       c \in N \/ (c \in Range(calls) /\ Rests(c))
              /\ calls' # <<>> /\ Head(calls').v = v =>
                       Head(calls') \in N \/ Rests(Head(calls'))
  <2>1. \A c \in Range(calls') : c.v = v => c \in N \/ (c \in Range(calls) /\ Rests(c))
    BY <1>2, <1>9, <1>14
  <2>2. ~Erasing(v)'
    BY <1>5, <2>1 DEF Erasing, Rests
  <2> QED BY <1>3, <2>1, <2>2
<1> QED BY <1>7, <1>12, <1>13, <1>14 DEF N


(* What a step leaves to be done for a clip, when it adds nothing to it.     *)
LEMMA FewerHands ==
    ASSUME NEW v, NEW k, Lone(v, k), Retried(v, k) \in Nat, Retried(v, k)' \in Nat,
           \A h : Fetched(v, k, h)' => Fetched(v, k, h),
           \A i : Told(v, k, i)' => Told(v, k, i),
           Retried(v, k)' <= Retried(v, k),
           Handled(v, k)' => Handled(v, k)
    PROVE  Lone(v, k)' /\ (Handed(v, k)' => Handed(v, k))
BY DEF Lone, Handed

(* A clip is handed on from one to another.                                  *)
LEMMA OnceKept ==
    ASSUME NEW v \in Videos, Once(v), world' = world,
           item'[v].cur = item[v].cur, item[v].completed \subseteq item'[v].completed,
           item'[v].missing = item[v].missing,
           Doing("QueueNextDownloadItem", v)' => Doing("QueueNextDownloadItem", v),
           \A k \in Clips(v) : k \notin item'[v].completed =>
              Lone(v, k)' /\ (Handed(v, k)' => Handed(v, k))
    PROVE  Once(v)'
<1>1. Steady(v)' <=> Steady(v)
  BY DEF Steady, Without
<1> QED BY <1>1 DEF Once

(* A download of which no clip was queued, and none is about to be fetched.  *)
LEMMA Unstarted ==
    ASSUME TInv', Traces', NEW v \in Videos,
           item'[v].cur = 0, item'[v].clips = 0,
           item'[v].completed = {}, item'[v].missing = {},
           \A k \in Clips(v) : item'[v].type[k] = "stream" <=> IsStream(v)',
           IsStream(v)' => ClipType[v] = "stream",
           ~Traced(v)', ~Is(v, "ACTIVE")',
           \A c \in Range(calls') : c.v = v =>
               c.do \notin OfClip /\ c.do # "OnDownloadComplete",
           calls' # <<>> => Head(calls') \in Range(calls'),
           Waits(v)', Stops(v)',
           IsStream(v)' =>
              Is(v, "FINISHED")' \/ Asked(v)' \/ Doing("QueueNextDownloadItem", v)',
           ~Is(v, "FINISHED")' /\ ~IsStream(v)' /\ Is(v, "PAUSED")' =>
              ~Doing("QueueNextDownloadItem", v)',
           Is(v, "FINISHED")' /\ ~IsStream(v)' => Clips(v) \subseteq item'[v].timed
    PROVE  COf(v)'
<1>0. Clips(v) \subseteq Nat \ {0} /\ ClipCount[v] > 0 /\ retry'[v] \in Nat
  BY Settings DEF Clips, TInv
<1>1. /\ \A h \in DOMAIN pairs' : pairs'[h].v # v
      /\ \A i \in DOMAIN alerts' : alerts'[i].v # v
      /\ ~(retry'[v] > 0)
      /\ \A c \in Range(calls') : c.v = v => c.hr \in {"S_OK", "E_FAIL"}
  BY DEF Traced, Traces, Range
<1>2. \A f \in OfClip \cup {"OnDownloadComplete"} : ~Doing(f, v)'
  BY DEF Doing
<1>3. Counts(v)'
  BY DEF Counts
<1>4. Engaged(v)'
  BY DEF Engaged
<1>5. Idles(v)'
  <2>1. IsStream(v)' => Is(v, "FINISHED")' \/ Asked(v)' \/ Moving(v)'
    BY <1>0 DEF Moving
  <2> QED BY <1>1, <2>1 DEF Idles, Started
<1>6. \A k \in Clips(v) : ~Handed(v, k)' /\ Lone(v, k)'
  <2> TAKE k \in Clips(v)
  <2>1. (\A h : ~Fetched(v, k, h)') /\ (\A i : ~Told(v, k, i)')
    BY <1>1 DEF Fetched, Told
  <2>2. Retried(v, k)' = 0
    BY <1>0, <1>1 DEF Retried
  <2>3. ~Handled(v, k)'
    BY DEF Handled
  <2> QED BY <2>1, <2>2, <2>3 DEF Lone, Handed
<1>7. Once(v)'
  BY <1>0, <1>6 DEF Once
<1>8. First(v)'
  BY <1>0 DEF First
<1>9. Sure(v)'
  BY DEF Sure
<1>10. Ends(v)'
  BY <1>2 DEF Ends, OfClip
<1> QED BY <1>3, <1>4, <1>5, <1>7, <1>8, <1>9, <1>10 DEF COf

(* A step is judged download by download.                                    *)
LEMMA Together ==
    ASSUME TInv, TInv', CInv, Messages', Owned', NEW v \in Videos,
           listed' \subseteq listed \cup {v}, v \in listed' => COf(v)',
           \A w \in listed : w # v => Apart(w)
    PROVE  CInv'
<1>1. ASSUME NEW w \in listed', w # v PROVE COf(w)'
  BY <1>1, ApartKeeps
<1> QED BY <1>1 DEF CInv

(* One more pair.                                                            *)
LEMMA OnePair ==
    ASSUME TInv, NEW p \in PairSet, pairs' = Append(pairs, p)
    PROVE  /\ Len(pairs) + 1 \notin DOMAIN pairs
           /\ DOMAIN pairs' = DOMAIN pairs \cup {Len(pairs) + 1}
           /\ \A h \in DOMAIN pairs : pairs'[h] = pairs[h]
           /\ pairs'[Len(pairs) + 1] = p
<1> DEFINE n == Len(pairs)
<1>1. /\ n \in Nat /\ DOMAIN pairs = 1..n /\ DOMAIN pairs' = 1..n + 1
      /\ \A h \in 1..n : pairs'[h] = pairs[h]
      /\ pairs'[n + 1] = p
  <2>1. /\ Append(pairs, p) \in Seq(PairSet) /\ Len(Append(pairs, p)) = n + 1
        /\ \A h \in 1..n : Append(pairs, p)[h] = pairs[h]
        /\ Append(pairs, p)[n + 1] = p
    BY AppendProperties DEF TInv
  <2> QED BY <2>1, SeqEntries DEF TInv
<1> HIDE DEF n
<1> QED BY <1>1 DEF n

(* The thread inside m_Sync deals with v.                                    *)
LEMMA BodyC ==
    ASSUME TInv, TInv', CInv, Owned', NEW v \in Videos,
           listed' \subseteq listed, alerts' = alerts, world' = world,
           retry'[v] > 0 => retry[v] > 0 \/ v \notin Playlists,
           pairs' = pairs \/ \E p \in PairSet :
                                p.v = v /\ p.at # "typing" /\ pairs' = Append(pairs, p),
           \A w \in Videos : w # v => item'[w] = item[w] /\ retry'[w] = retry[w] /\ Passed(w),
           v \in listed' => COf(v)'
    PROVE  CInv'
<1>1. ASSUME NEW w \in listed, w # v PROVE Apart(w)
  <2>1. w \in Videos
    BY DEF TInv
  <2>2. SamePairsOf(w)
    BY <1>1, OnePair DEF SamePairsOf
  <2> QED BY <1>1, <2>1, <2>2 DEF Apart, SameAlertsOf
<1>2. Messages'
  <2>1. \A h \in DOMAIN pairs' : pairs'[h].at # "typing"
    BY OnePair DEF CInv, Messages
  <2>2. \A w \in Videos : retry'[w] > 0 => w \notin Playlists
    BY DEF CInv, Messages
  <2> QED BY <2>1, <2>2 DEF CInv, Messages
<1> QED BY <1>1, <1>2, Together


(* Nothing has been fetched for a download without a clip.                   *)
LEMMA Unheard ==
    ASSUME TInv, CInv, NEW v \in listed, item[v].cur = 0
    PROVE  /\ item[v].clips = 0 /\ item[v].completed = {} /\ item[v].missing = {}
           /\ ~Traced(v) /\ ~Is(v, "ACTIVE")
           /\ \A c \in Range(calls) : c.v = v =>
                 c.do \notin OfClip /\ c.do # "OnDownloadComplete"
<1>1. /\ COf(v) /\ Clips(v) \subseteq Nat \ {0} /\ item[v].cur \in Nat
      /\ item[v].completed \subseteq Clips(v) /\ item[v].missing \subseteq Clips(v)
  BY ListedIs
<1>2. item[v].completed = {} /\ item[v].missing = {}
  BY <1>1 DEF COf, Counts
<1>3. ~Traced(v) /\ ~Is(v, "ACTIVE")
  BY <1>1 DEF COf, Engaged
<1>4. \A c \in Range(calls) : c.v = v => c.do \notin OfClip
  <2> SUFFICES ASSUME NEW c \in Range(calls), c.v = v, c.do \in OfClip PROVE FALSE
    OBVIOUS
  <2>1. c \in CallSet
    BY SeqEntries DEF TInv
  <2>2. c.k \in Clips(v) /\ c.k <= item[v].cur
    BY <1>1, <2>1 DEF CallSet, COf, Engaged
  <2> QED BY <1>1, <2>2
<1> QED BY <1>1, <1>2, <1>3, <1>4 DEF COf, Counts, Engaged

(* A download starts without a clip, and waits for its slot without one.     *)
LEMMA QueueDownloadC ==
    ASSUME TInv, TInv', Traces', QInv, CInv, NEW v \in Videos, QueueDownload(v)
    PROVE  CInv'
<1> DEFINE goon == Call("QueueNextDownloadItem", v)
<1>1. Doing("QueueDownload", v) /\ Asked(v)
  BY DEF QueueDownload, Doing, Asked
<1>2. v \in listed /\ ~Erasing(v)
  BY <1>1 DEF QInv, QOf
<1>3. COf(v) /\ item[v].cur = 0 /\ ClipCount[v] > 0
  BY <1>1, <1>2, ListedIs DEF COf, Waits
<1>4. /\ item[v].clips = 0 /\ item[v].completed = {} /\ item[v].missing = {}
      /\ ~Traced(v) /\ ~Is(v, "ACTIVE")
      /\ \A c \in Range(calls) : c.v = v =>
                 c.do \notin OfClip /\ c.do # "OnDownloadComplete"
  BY <1>2, <1>3, Unheard
<1>5. /\ UNCHANGED <<listed, alerts, retry, pairs, world>>
      /\ \A w \in Videos : w # v => item'[w] = item[w]
      /\ item'[v].cur = 0 /\ item'[v].clips = 0
      /\ item'[v].completed = {} /\ item'[v].missing = {}
      /\ item'[v].type = item[v].type /\ item'[v].timed = item[v].timed
      /\ Then(<<>>) \/ Then(<<goon>>)
  BY <1>3, <1>4, QueueDownloadDoes DEF Reflagged
<1>6. goon \in NextCalls(v) /\ goon \in CallSet
  BY CallsTyped, CallFields DEF OfVideo, NextCalls, AtWork
<1>7. /\ Owned' /\ \A w \in Videos : w # v => Passed(w)
      /\ ~Erasing(v)'
      /\ \A c \in Range(calls') : c.v = v =>
            c \in NextCalls(v) \/ (c \in Range(calls) /\ Rests(c))
      /\ calls' # <<>> /\ Head(calls').v = v =>
            Head(calls') \in NextCalls(v) \/ Rests(Head(calls'))
  BY <1>1, <1>5, <1>6, WorkOn
<1>8. /\ Then(<<goon>>) => /\ Doing("QueueNextDownloadItem", v)'
                           /\ Range(calls') = {goon} \cup Behind(calls)
      /\ Then(<<>>) => Range(calls') = Behind(calls)
      /\ Behind(calls) \subseteq Range(calls)
      /\ calls' # <<>> => Head(calls') \in Range(calls')
  <2>1. /\ calls # <<>> /\ calls \in Seq(CallSet)
        /\ Range(calls) = {Head(calls)} \cup Behind(calls)
    BY <1>1, DoingIs
  <2>2. Then(<<goon>>) => /\ Head(calls') = goon /\ calls' # <<>>
                          /\ Range(calls') = {goon} \cup Behind(calls)
    BY <1>6, <2>1, ThenCall
  <2>3. Then(<<>>) => /\ Range(calls') = Behind(calls)
                      /\ calls' # <<>> => Head(calls') \in Behind(calls)
    BY <2>1, ThenNothing
  <2>4. goon.do = "QueueNextDownloadItem" /\ goon.v = v
    BY CallFields
  <2> HIDE DEF goon
  <2> QED BY <1>5, <2>1, <2>2, <2>3, <2>4 DEF Doing
<1>9. \A c \in Range(calls') : c.v = v =>
         /\ c.do \notin OfClip /\ c.do # "OnDownloadComplete"
         /\ c \in Range(calls) \/ c = goon
  <2>1. goon.do = "QueueNextDownloadItem"
    BY CallFields
  <2> HIDE DEF goon
  <2> QED BY <1>4, <1>5, <1>8, <2>1 DEF OfClip
<1>10. ~Asked(v)'
  BY <1>1, <1>5, <1>7, <1>8, <1>6, CallFields DEF Asked, Rests, NextCalls, AtWork
<1>11. ~Traced(v)' /\ (IsStream(v)' <=> IsStream(v))
  BY <1>4, <1>5 DEF Traced, IsStream
<1> HIDE DEF goon
<1>12. /\ \A k \in Clips(v) : item'[v].type[k] = "stream" <=> IsStream(v)'
       /\ IsStream(v)' => ClipType[v] = "stream"
  BY <1>3, <1>5, <1>11 DEF COf, Counts
<1>13. ~Is(v, "STOPPED") /\ ~Is(v, "DELETED")
  BY <1>1, <1>2, <1>3 DEF COf, Waits, Stops
<1>14. ASSUME Is(v, "FINISHED") /\ ~IsStream(v) PROVE Clips(v) \subseteq item[v].timed
  BY <1>3, <1>14, Settings DEF COf, Ends, Clips
<1>15. Is(v, "QUEUED") => ~Is(v, "FINISHED") /\ ~Is(v, "PAUSED") /\ ~IsStream(v)
  BY <1>2 DEF QInv, QOf
<1>16. Is(v, "FORCE") => ~Is(v, "FINISHED") /\ ~IsStream(v)
  BY <1>3 DEF COf, Waits
<1>17. ASSUME Waits(v)', Stops(v)', 
              IsStream(v) => Is(v, "FINISHED")' \/ Doing("QueueNextDownloadItem", v)',
              ~Is(v, "FINISHED")' /\ ~IsStream(v)' /\ Is(v, "PAUSED")' =>
                 ~Doing("QueueNextDownloadItem", v)',
              Is(v, "FINISHED")' => Is(v, "FINISHED"), ~Is(v, "ACTIVE")'
       PROVE  CInv'
  <2>1. COf(v)'
    BY <1>5, <1>8, <1>9, <1>11, <1>12, <1>14, <1>17, Unstarted
  <2> QED BY <1>5, <1>7, <2>1, BodyC
<1>18. CASE /\ (Is(v, "FINISHED") /\ ~Is(v, "PAUSED")) \/ IsStream(v)
            /\ item'[v].flags = item[v].flags
            /\ Then(<<goon>>)
  <2>1. /\ \A flag : Is(v, flag)' <=> Is(v, flag)
        /\ Doing("QueueNextDownloadItem", v)' 
    BY <1>8, <1>18 DEF Is
  <2>2. Waits(v)' /\ Stops(v)'
    BY <1>5, <1>10, <1>13, <1>15, <1>16, <1>18, <2>1 DEF Waits, Stops, Is
  <2> QED BY <1>4, <1>11, <1>17, <1>18, <2>1, <2>2
<1>19. CASE /\ Is(v, "PAUSED") /\ ~Is(v, "FORCE") /\ ~IsStream(v)
            /\ item'[v].flags = item[v].flags
            /\ Then(<<>>)
  <2>1. /\ \A flag : Is(v, flag)' <=> Is(v, flag)
        /\ ~Doing("QueueNextDownloadItem", v)'
    BY <1>7, <1>8, <1>19 DEF Is, Doing, Stacked, QInv, Later
  <2>2. Waits(v)' /\ Stops(v)'
    BY <1>5, <1>10, <1>13, <1>15, <1>16, <1>19, <2>1 DEF Waits, Stops, Is
  <2> QED BY <1>4, <1>11, <1>17, <1>19, <2>1, <2>2
<1>20. CASE /\ ~(Is(v, "FINISHED") /\ ~Is(v, "PAUSED")) /\ ~IsStream(v)
            /\ ~(Is(v, "PAUSED") /\ ~Is(v, "FORCE"))
            /\ item'[v].flags = item[v].flags \ {"QUEUED", "FORCE", "PAUSED"}
            /\ Then(<<goon>>)
  <2>1. /\ \A flag : Is(v, flag)' <=> Is(v, flag) /\ flag \notin {"QUEUED", "FORCE", "PAUSED"}
        /\ Doing("QueueNextDownloadItem", v)'
    BY <1>8, <1>20 DEF Is
  <2>2. Waits(v)' /\ Stops(v)'
    BY <1>5, <1>10, <1>13, <1>20, <2>1 DEF Waits, Stops
  <2> QED BY <1>4, <1>11, <1>17, <1>20, <2>1, <2>2
<1>21. CASE /\ ~(Is(v, "FINISHED") /\ ~Is(v, "PAUSED")) /\ ~IsStream(v)
            /\ ~(Is(v, "PAUSED") /\ ~Is(v, "FORCE"))
            /\ item'[v].flags = item[v].flags \cup {"QUEUED"}
            /\ Then(<<>>)
  <2>1. /\ \A flag : Is(v, flag)' <=> Is(v, flag) \/ flag = "QUEUED"
        /\ ~Doing("QueueNextDownloadItem", v)'
    BY <1>7, <1>8, <1>21 DEF Is, Doing, Stacked, QInv, Later
  <2>2. Waits(v)' /\ Stops(v)'
    BY <1>5, <1>10, <1>11, <1>13, <1>16, <1>21, <2>1 DEF Waits, Stops
  <2> QED BY <1>4, <1>11, <1>17, <1>21, <2>1, <2>2
<1> QED BY <1>18, <1>19, <1>20, <1>21, QueueDownloadDoes DEF goon


(* A step that leaves no more to be done for a download, and changes nothing *)
(* about it but perhaps its flag PAUSED.                                     *)
LEMMA NoMore ==
    ASSUME TInv, TInv', CInv, NEW v \in listed, world' = world,
           item'[v].cur = item[v].cur,
           \/ item'[v].clips = item[v].clips
           \/ item[v].cur > 0 /\ item'[v].clips > 0,
           item'[v].completed = item[v].completed, item'[v].timed = item[v].timed,
           item'[v].missing = item[v].missing, item'[v].type = item[v].type,
           item'[v].handle = item[v].handle,
           \A flag \in Flags \ {"PAUSED"} : Is(v, flag)' <=> Is(v, flag),
           SamePairs, \A h \in DOMAIN pairs' : pairs'[h].at = pairs[h].at,
           \A i \in DOMAIN alerts' : i \in DOMAIN alerts /\ alerts'[i] = alerts[i],
           retry'[v] = retry[v],
           \A c \in Range(calls') : c.v = v =>
              \/ c \in Range(calls) /\ Rests(c)
              \/ c.do = "Resume" /\ c.hr = "S_OK",
           calls' # <<>> /\ Head(calls').v = v => Rests(Head(calls')),
           ~Erasing(v), Waits(v)',
           ~Started(v) /\ ~IsStream(v) /\ item[v].cur > 0 => ~Moving(v),
           ~Started(v) /\ ~IsStream(v) /\ Is(v, "PAUSED")' => item[v].cur = 0,
           IsStream(v) => Is(v, "FINISHED"),
           \A k \in Clips(v) : k <= item[v].cur /\ k \in item[v].timed =>
              k \in item[v].completed
    PROVE  COf(v)'
<1>1. COf(v) /\ v \in Videos /\ retry[v] \in Nat
  BY ListedIs
<1>2. \A f \in {"QueueNextDownloadItem", "QueueDownloadItem", "OnItemComplete",
                "OnDownloadComplete", "QueueDownload"} : ~Doing(f, v)'
  BY DEF Doing, Rests
<1>3. /\ Is(v, "ACTIVE")' <=> Is(v, "ACTIVE")
      /\ Is(v, "FINISHED")' <=> Is(v, "FINISHED")
      /\ Is(v, "STOPPED")' <=> Is(v, "STOPPED")
      /\ Is(v, "DELETED")' <=> Is(v, "DELETED")
      /\ Started(v)' <=> Started(v)
      /\ IsStream(v)' <=> IsStream(v)
      /\ May("refuse")' <=> May("refuse")
  BY DEF Flags, Started, IsStream, May
<1>4. /\ Traced(v)' <=> Traced(v)
      /\ \A h : h \in DOMAIN pairs' <=> h \in DOMAIN pairs
      /\ \A h \in DOMAIN pairs : /\ pairs'[h].v = pairs[h].v /\ pairs'[h].k = pairs[h].k
                                 /\ pairs'[h].at = pairs[h].at
  <2>1. DOMAIN pairs = 1..Len(pairs) /\ DOMAIN pairs' = 1..Len(pairs)
    BY SeqEntries DEF TInv, SamePairs
  <2> QED BY <2>1, TracedSame DEF SamePairs
<1>5. \A k : ~Handled(v, k)'
  BY DEF Handled, Rests, OfClip
<1>6. Counts(v)'
  <2>1. Counts(v)
    BY <1>1 DEF COf
  <2>2. item'[v].clips >= 0 /\ (item'[v].cur = 0 <=> item'[v].clips = 0)
    BY <1>1, <2>1 DEF Counts, TInv, ItemsTyped, ItemsOf
  <2> QED BY <1>1, <1>3, <2>1, <2>2 DEF Counts
<1>7. Engaged(v)'
  <2>1. Engaged(v)
    BY <1>1 DEF COf
  <2>2. \A c \in Range(calls') : c.v = v => c \in Range(calls) \/ c.do = "Resume"
    OBVIOUS
  <2> QED BY <1>3, <1>4, <2>1, <2>2 DEF Engaged, OfClip
<1>8. Stops(v)'
  <2>1. ~Erasing(v)' /\ Stops(v)
    BY <1>1 DEF Erasing, Rests, COf
  <2>2. \A c \in Range(calls') : c.v = v => c \in Range(calls) \/ c.do = "Resume"
    OBVIOUS
  <2> QED BY <1>3, <2>1, <2>2 DEF Stops
<1>9. Idles(v)'
  BY <1>1, <1>2, <1>3, <1>4 DEF COf, Idles
<1>10. Once(v)'
  <2> SUFFICES ASSUME NEW k \in Clips(v), k \notin item[v].completed
               PROVE  Lone(v, k)' /\ (Handed(v, k)' => Handed(v, k))
    BY <1>1, <1>2, OnceKept DEF COf
  <2>1. \A h : Fetched(v, k, h)' => Fetched(v, k, h)
    BY <1>4 DEF Fetched
  <2>2. \A i : Told(v, k, i)' => Told(v, k, i)
    BY DEF Told
  <2>3. Retried(v, k)' = Retried(v, k) /\ Retried(v, k) \in Nat
    BY <1>1 DEF Retried
  <2>4. Lone(v, k)
    BY <1>1 DEF COf, Once
  <2> QED BY <1>5, <2>1, <2>2, <2>3, <2>4, FewerHands
<1>11. First(v)'
  BY DEF First
<1>12. Sure(v)'
  BY <1>1, <1>2, <1>4 DEF COf, Sure, Without
<1>13. Ends(v)'
  BY <1>1, <1>2, <1>3 DEF COf, Ends, Rests
<1> QED BY <1>6, <1>7, <1>8, <1>9, <1>10, <1>11, <1>12, <1>13 DEF COf

LEMMA PairsAsTheyAre ==
    ASSUME TInv, pairs' = pairs
    PROVE  SamePairs /\ \A h \in DOMAIN pairs' : pairs'[h].at = pairs[h].at
BY PairsUntouched


(* What stays as it is when one call leads to another.                       *)
LEMMA QueueNextC ==
    ASSUME TInv, TInv', QInv, CInv, NEW v \in Videos, QueueNextDownloadItem(v)
    PROVE  CInv'
<1> DEFINE n == item[v].cur + 1
           c == CallClip("QueueDownloadItem", v, n)
<1>1. Doing("QueueNextDownloadItem", v) /\ "QueueNextDownloadItem" \in AtWork
  BY DEF QueueNextDownloadItem, AtWork
<1>2. /\ UNCHANGED <<listed, alerts, retry, pairs, world>>
      /\ \A w \in Videos : w # v => item'[w] = item[w]
      /\ item'[v].flags = item[v].flags /\ item'[v].type = item[v].type
      /\ item'[v].completed = item[v].completed /\ item'[v].timed = item[v].timed
      /\ item'[v].missing = item[v].missing /\ item'[v].handle = item[v].handle
      /\ \/ /\ item[v].cur < ClipCount[v]
            /\ item'[v].cur = n /\ item'[v].clips = item[v].clips + 1
            /\ n \in Clips(v) /\ Then(<<c>>)
         \/ ~(item[v].cur < ClipCount[v]) /\ item'[v] = item[v] /\ Then(<<>>)
  BY QueueNextDoes
<1>3. n \in Clips(v) => c \in NextCalls(v) /\ c \in CallSet /\ c.k = n /\ c.hr = "S_OK"
                        /\ c.do = "QueueDownloadItem" /\ c.v = v
  BY CallsTyped DEF OfClip, NextCalls, AtWork, CallClip
<1>4. /\ Owned' /\ \A w \in Videos : w # v => Passed(w)
      /\ v \in listed /\ ~Erasing(v) /\ ~Erasing(v)'
      /\ \A d \in Range(calls') : d.v = v => d \in NextCalls(v) \/ (d \in Range(calls) /\ Rests(d))
      /\ calls' # <<>> /\ Head(calls').v = v =>
            Head(calls') \in NextCalls(v) \/ Rests(Head(calls'))
  BY <1>1, <1>2, <1>3, WorkOn
<1>5. /\ COf(v) /\ Clips(v) \subseteq Nat \ {0} /\ ClipCount[v] \in Nat /\ ClipCount[v] > 0
      /\ \A i \in Clips(v) : i <= ClipCount[v]
      /\ item[v].cur \in Nat /\ item[v].clips \in Int /\ retry[v] \in Nat
      /\ item[v].cur > 0 => item[v].cur \in Clips(v)
      /\ item[v].completed \subseteq Clips(v) /\ item[v].timed \subseteq Clips(v)
      /\ item[v].missing \subseteq Clips(v)
      /\ \A d \in Range(calls) : d.v = v /\ d.do \in OfClip => d.k \in Clips(v)
  BY <1>4, ListedIs
<1>6. /\ \A flag : Is(v, flag)' <=> Is(v, flag)
      /\ IsStream(v)' <=> IsStream(v)
      /\ Traced(v)' <=> Traced(v)
  BY <1>2 DEF Is, IsStream, Traced
<1>7. ~Is(v, "QUEUED") /\ ~Asked(v) /\ ~Is(v, "FORCE") /\ ~Is(v, "STOPPED")
  <2>1. ~Asked(v)
    BY <1>1 DEF Asked, Doing
  <2>2. ~Is(v, "QUEUED")
    BY <1>1, <1>4, NotWaiting
  <2>3. Head(calls) \in Range(calls) /\ Head(calls).v = v
        /\ Head(calls).do = "QueueNextDownloadItem"
    BY <1>1, DoingIs
  <2> QED BY <1>5, <2>1, <2>2, <2>3 DEF COf, Waits, Stops, OfClip
<1>8. CASE /\ item[v].cur < ClipCount[v]
           /\ item'[v].cur = n /\ item'[v].clips = item[v].clips + 1
           /\ n \in Clips(v) /\ Then(<<c>>)
  <2>1. /\ calls' # <<>> /\ Head(calls') = c
        /\ \A d \in Range(calls') : d.v = v => d = c \/ (d \in Range(calls) /\ Rests(d))
    <3>1. /\ calls # <<>> /\ calls \in Seq(CallSet)
          /\ Range(calls) = {Head(calls)} \cup Behind(calls)
      BY <1>1, DoingIs
    <3>2. /\ Head(calls') = c /\ calls' # <<>>
          /\ Range(calls') = {c} \cup Behind(calls)
      BY <1>3, <1>8, <3>1, ThenCall
    <3>3. \A d \in Behind(calls) : d \in Range(calls) /\ d.do \in Later
      BY <3>1 DEF QInv, Stacked
    <3>4. \A d \in Behind(calls) : d.v = v => Rests(d)
      BY <1>4, <3>3 DEF Rests, CInv, Owned, Later, Erasing
    <3> QED BY <3>2, <3>3, <3>4
  <2>2. /\ Doing("QueueDownloadItem", v)'
        /\ \A f : f # "QueueDownloadItem" => ~Doing(f, v)'
        /\ ~Asked(v)'
    BY <1>3, <1>8, <2>1 DEF Doing, Asked
  <2> HIDE DEF c
  <2>3. Counts(v)'
    BY <1>2, <1>5, <1>6, <1>8 DEF COf, Counts
  <2>4. Engaged(v)'
    BY <1>2, <1>3, <1>5, <1>6, <1>8, <2>1 DEF COf, Engaged, Started, Rests
  <2>5. Waits(v)'
    BY <1>5, <1>6, <1>7, <1>8, <2>2 DEF Waits
  <2>6. Stops(v)'
    BY <1>5, <1>6, <1>7 DEF COf, Stops
  <2>7. Idles(v)'
    <3>1. Moving(v)'
      BY <1>2, <1>3, <1>5, <1>8, <2>1, <2>2 DEF COf, Counts, Moving
    <3>2. ~(~Started(v) /\ ~IsStream(v) /\ Is(v, "PAUSED"))
      BY <1>1, <1>5 DEF COf, Idles
    <3>3. \A d \in Range(calls') : d.v = v /\ d.hr \notin {"S_OK", "E_FAIL"} => Started(v)
      BY <1>3, <1>5, <1>8, <2>1 DEF COf, Idles
    <3>4. Started(v)' <=> Started(v)
      BY <1>6 DEF Started
    <3> QED BY <1>2, <1>5, <1>6, <3>1, <3>2, <3>3, <3>4 DEF COf, Idles
  <2>8. Once(v)'
    <3>1. Steady(v)' <=> Steady(v)
      BY <1>2 DEF Steady, Without
    <3>2. \A k \in Clips(v) :
             /\ \A h : Fetched(v, k, h)' <=> Fetched(v, k, h)
             /\ \A i : Told(v, k, i)' <=> Told(v, k, i)
             /\ Retried(v, k)' = Retried(v, k)
             /\ Handled(v, k)' <=> k = n
             /\ ~Handled(v, k)
      BY <1>1, <1>2, <1>3, <1>8, <2>1
         DEF Fetched, Told, Retried, Handled, Doing, OfClip
    <3>3. \A k \in Clips(v) : k \notin item[v].completed =>
             /\ Lone(v, k) /\ (Handed(v, k) => k <= item[v].cur)
             /\ Handed(v, k) => ~Steady(v)
             /\ v \notin Playlists /\ k \in item[v].missing => ~Handed(v, k)
      BY <1>1, <1>5 DEF COf, Once
    <3>4. ASSUME NEW k \in Clips(v), k \notin item[v].completed
          PROVE  /\ Lone(v, k)'
                 /\ Handed(v, k)' => k <= n
                 /\ Handed(v, k)' /\ Steady(v) => k = n
                 /\ v \notin Playlists /\ k \in item[v].missing => ~Handed(v, k)'
      <4>1. CASE k = n
        <5>1. ~Handed(v, k)
          BY <1>5, <3>3, <3>4, <4>1
        <5>2. k \notin item[v].missing
          BY <1>5, <4>1 DEF COf, Counts
        <5>3. Lone(v, k)'
          <6>1. /\ \A h : ~Fetched(v, k, h)
                /\ \A i : ~Told(v, k, i)
                /\ ~(Retried(v, k) > 0)
            BY <5>1 DEF Handed
          <6>2. Retried(v, k) = 0
            BY <1>5, <6>1 DEF Retried
          <6> QED BY <3>2, <6>1, <6>2 DEF Lone
        <5> QED BY <1>5, <4>1, <5>2, <5>3
      <4>2. CASE k # n
        <5>1. Lone(v, k)' /\ (Handed(v, k)' => Handed(v, k))
          BY <3>2, <3>3, <3>4, <4>2 DEF Lone, Handed
        <5> QED BY <1>5, <3>3, <3>4, <5>1
      <4> QED BY <4>1, <4>2
    <3>5. v \notin Playlists => \A k \in Clips(v) : k < n => k \in item[v].completed
      BY <1>1, <1>5 DEF COf, Once
    <3> QED BY <1>2, <1>8, <2>2, <3>1, <3>4, <3>5 DEF Once
  <2>9. First(v)'
    <3>1. \A k \in Clips(v) : k <= item[v].cur /\ k \in item[v].timed => k \in item[v].completed
      BY <1>1, <1>5 DEF COf, First, Doing
    <3> QED BY <1>2, <1>3, <1>5, <1>6, <1>7, <1>8, <2>1, <2>2, <3>1 DEF First
  <2>10. Sure(v)'
    BY <1>2, <1>5, <2>2 DEF COf, Sure, Without
  <2>11. Ends(v)'
    BY <1>2, <1>3, <1>5, <1>6, <1>8, <2>1, <2>2 DEF COf, Ends, Rests
  <2>12. COf(v)'
    BY <2>3, <2>4, <2>5, <2>6, <2>7, <2>8, <2>9, <2>10, <2>11 DEF COf
  <2> QED BY <1>2, <1>4, <2>12, BodyC
<1>9. CASE ~(item[v].cur < ClipCount[v]) /\ item'[v] = item[v] /\ Then(<<>>)
  <2>1. /\ \A d \in Range(calls') : d.v = v => d \in Range(calls) /\ Rests(d)
        /\ calls' # <<>> /\ Head(calls').v = v => Rests(Head(calls'))
    <3>1. /\ calls # <<>> /\ calls \in Seq(CallSet)
          /\ Range(calls) = {Head(calls)} \cup Behind(calls)
      BY <1>1, DoingIs
    <3>2. /\ Range(calls') = Behind(calls)
          /\ calls' # <<>> => Head(calls') \in Behind(calls)
      BY <1>9, <3>1, ThenNothing
    <3>3. \A d \in Behind(calls) : d \in Range(calls) /\ d.do \in Later
      BY <3>1 DEF QInv, Stacked
    <3>4. \A d \in Behind(calls) : d.v = v => Rests(d)
      BY <1>4, <3>3 DEF Rests, CInv, Owned, Later, Erasing
    <3> QED BY <3>2, <3>3, <3>4
  <2>2. Waits(v)'
    BY <1>5, <1>6, <1>7, <1>9, <2>1 DEF Waits, Asked, Rests
  <2>3. COf(v)'
    <3>1. ~Moving(v) /\ (IsStream(v) => Is(v, "FINISHED"))
      BY <1>1, <1>5, <1>7, <1>9 DEF COf, Idles, Moving, Doing
    <3>2. \A k \in Clips(v) : k <= item[v].cur /\ k \in item[v].timed => k \in item[v].completed
      BY <1>1, <1>5 DEF COf, First, Doing
    <3>3. ~(~Started(v) /\ ~IsStream(v) /\ Is(v, "PAUSED"))
      BY <1>1, <1>5 DEF COf, Idles
    <3> QED BY <1>2, <1>4, <1>6, <1>9, <2>1, <2>2, <3>1, <3>2, <3>3, NoMore, PairsAsTheyAre
  <2> QED BY <1>2, <1>4, <2>3, BodyC
<1> QED BY <1>2, <1>8, <1>9


(* The thread inside m_Sync goes on with a clip of a download.               *)
LEMMA AtClip ==
    ASSUME TInv, QInv, CInv, NEW f \in OfClip, NEW v \in Videos, Doing(f, v), v \in listed
    PROVE  /\ Head(calls).k \in Clips(v) /\ Head(calls).k <= item[v].cur /\ item[v].cur > 0
           /\ Head(calls) \in Range(calls)
           /\ ~Is(v, "QUEUED") /\ ~Asked(v) /\ ~Is(v, "FORCE")
           /\ f = "AddClip" => ~IsStream(v)
           /\ ~IsStream(v) /\ ~Started(v) => ~Is(v, "PAUSED")
<1>1. Head(calls) \in Range(calls) /\ Head(calls).do = f /\ Head(calls).v = v
  BY DoingIs
<1>2. /\ COf(v) /\ Clips(v) \subseteq Nat \ {0} /\ item[v].cur \in Nat
      /\ \A c \in Range(calls) : c.v = v /\ c.do \in OfClip => c.k \in Clips(v)
  BY ListedIs
<1>3. Head(calls).k \in Clips(v) /\ Head(calls).k <= item[v].cur
  BY <1>1, <1>2 DEF COf, Engaged
<1>4. item[v].cur > 0
  BY <1>2, <1>3
<1>5. ~Is(v, "QUEUED") /\ (IsStream(v) => f # "AddClip")
  BY NotWaiting DEF OfClip, AtWork
<1>6. ~Asked(v)
  BY DEF Asked, Doing, OfClip
<1>7. ~Is(v, "FORCE") /\ (~IsStream(v) /\ ~Started(v) => ~Is(v, "PAUSED"))
  BY <1>2, <1>4, <1>5, <1>6 DEF COf, Waits, Idles
<1> QED BY <1>1, <1>3, <1>4, <1>5, <1>6, <1>7

LEMMA QueueItemC ==
    ASSUME TInv, TInv', QInv, CInv, NEW v \in Videos, QueueDownloadItem(v)
    PROVE  CInv'
<1>1. Doing("QueueDownloadItem", v) /\ "QueueDownloadItem" \in AtWork
      /\ "QueueDownloadItem" \in OfClip
  BY DEF QueueDownloadItem, AtWork, OfClip
<1>2. PICK k \in Clips(v) :
         /\ Head(calls).k = k
         /\ \/ /\ item[v].type[k] = "stream" \/ k \in item[v].missing
               /\ Then(<<Complete(v, k, "S_OK")>>)
            \/ /\ item[v].type[k] # "stream" /\ k \notin item[v].timed
               /\ Then(<<CallClip("AddClip", v, k)>>)
            \/ /\ item[v].type[k] # "stream" /\ k \in item[v].timed
               /\ Then(<<Complete(v, k, "S_OK"), CallClip("AddClip", v, k)>>)
  BY QueueItemDoes
<1>3. UNCHANGED <<listed, item, alerts, retry, pairs, world>>
  BY QueueItemDoes
<1> DEFINE done == Complete(v, k, "S_OK")
           add  == CallClip("AddClip", v, k)
<1>4. /\ done \in CallSet /\ done \in NextCalls(v)
      /\ done.v = v /\ done.do = "OnItemComplete" /\ done.k = k /\ done.hr = "S_OK"
      /\ add \in CallSet /\ add \in NextCalls(v)
      /\ add.v = v /\ add.do = "AddClip" /\ add.k = k /\ add.hr = "S_OK"
  <2>1. done \in CallSet /\ add \in CallSet
    BY CallsTyped DEF OfClip, Answers
  <2> QED BY <2>1 DEF NextCalls, AtWork, Complete, CallClip
<1> HIDE DEF done, add
<1>5. /\ Owned' /\ \A w \in Videos : w # v => Passed(w)
      /\ v \in listed /\ ~Erasing(v) /\ ~Erasing(v)'
  <2>1. \/ \E c \in NextCalls(v) : Then(<<c>>)
        \/ \E c, d \in NextCalls(v) :
              Then(<<c, d>>) /\ d.v = v /\ d.do = "AddClip" /\ d.k \in item[v].timed
    BY <1>2, <1>4 DEF done, add
  <2>2. /\ listed' = IF "QueueDownloadItem" = "EraseDownload" THEN listed \ {v} ELSE listed
        /\ \A w \in Videos : w # v => item'[w] = item[w]
        /\ item[v].timed \subseteq item'[v].timed
    BY <1>3
  <2>3. "QueueDownloadItem" # "EraseDownload"
    OBVIOUS
  <2>4. CASE \E c \in NextCalls(v) : Then(<<c>>)
    BY <1>1, <2>2, <2>3, <2>4, WorkOn
  <2>5. CASE \E c, d \in NextCalls(v) :
                Then(<<c, d>>) /\ d.v = v /\ d.do = "AddClip" /\ d.k \in item[v].timed
    BY <1>1, <2>2, <2>3, <2>5, WorkOn
  <2> QED BY <1>3, <2>1, <2>4, <2>5
<1>6. /\ COf(v) /\ Clips(v) \subseteq Nat \ {0} /\ retry[v] \in Nat
      /\ item[v].completed \subseteq Clips(v) /\ item[v].cur \in Nat
  BY <1>5, ListedIs
<1>7. /\ k <= item[v].cur /\ item[v].cur > 0
      /\ Head(calls) \in Range(calls)
      /\ ~Is(v, "QUEUED") /\ ~Asked(v) /\ ~Is(v, "FORCE")
      /\ ~IsStream(v) /\ ~Started(v) => ~Is(v, "PAUSED")
  BY <1>1, <1>2, <1>5, AtClip
<1>8. /\ Head(calls).v = v /\ Head(calls).do = "QueueDownloadItem" /\ calls # <<>>
      /\ calls \in Seq(CallSet) /\ Range(calls) = {Head(calls)} \cup Behind(calls)
  BY <1>1, DoingIs
<1>9. /\ \A flag : Is(v, flag)' <=> Is(v, flag)
      /\ IsStream(v)' <=> IsStream(v)
      /\ Traced(v)' <=> Traced(v)
      /\ Started(v)' <=> Started(v)
      /\ May("refuse")' <=> May("refuse")
  BY <1>3 DEF Is, IsStream, Traced, Started, May
<1>10. /\ calls' # <<>>
       /\ \/ Head(calls') = done /\ (k \in item[v].timed \/ IsStream(v) \/ k \in item[v].missing)
          \/ Head(calls') = add /\ k \notin item[v].timed
       /\ \A d \in Range(calls') : d.v = v => d = done \/ d = add \/ d \in Range(calls)
       /\ add \in Range(calls') => ~IsStream(v)
  <2>1. item[v].type[k] = "stream" <=> IsStream(v)
    BY <1>6 DEF COf, Counts
  <2>2. IsStream(v) => add \notin Range(calls)
    BY <1>4, <1>5 DEF QInv, QOf
  <2>3. CASE /\ item[v].type[k] = "stream" \/ k \in item[v].missing
             /\ Then(<<done>>)
    <3>1. calls' # <<>> /\ Head(calls') = done /\ Range(calls') = {done} \cup Behind(calls)
      BY <1>4, <1>8, <2>3, ThenCall
    <3>2. add # done
      BY <1>4
    <3> QED BY <1>8, <2>1, <2>2, <2>3, <3>1, <3>2
  <2>4. CASE item[v].type[k] # "stream" /\ k \notin item[v].timed /\ Then(<<add>>)
    <3>1. calls' # <<>> /\ Head(calls') = add /\ Range(calls') = {add} \cup Behind(calls)
      BY <1>4, <1>8, <2>4, ThenCall
    <3> QED BY <1>8, <2>1, <2>4, <3>1
  <2>5. CASE item[v].type[k] # "stream" /\ k \in item[v].timed /\ Then(<<done, add>>)
    <3>1. calls' # <<>> /\ Head(calls') = done /\ Range(calls') = {done, add} \cup Behind(calls)
      BY <1>4, <1>8, <2>5, ThenTwoCalls
    <3> QED BY <1>8, <2>1, <2>5, <3>1
  <2> QED BY <1>2, <2>3, <2>4, <2>5 DEF done, add
<1>11. /\ Handled(v, k)
       /\ \A j : Handled(v, j)' => Handled(v, j)
       /\ \A f : Doing(f, v)' => f \in {"OnItemComplete", "AddClip"}
       /\ ~Asked(v)'
  BY <1>2, <1>3, <1>4, <1>8, <1>10 DEF Handled, Doing, Asked, OfClip
<1>12. Is(v, "STOPPED") => /\ k = 1 /\ v \notin Playlists
                           /\ Head(calls') = done => 1 \in item[v].completed
  <2> SUFFICES ASSUME Is(v, "STOPPED")
               PROVE  /\ k = 1 /\ v \notin Playlists
                      /\ Head(calls') = done => 1 \in item[v].completed
    OBVIOUS
  <2>1. k = 1 /\ v \notin Playlists /\ ~IsStream(v)
    BY <1>2, <1>5, <1>6, <1>7, <1>8 DEF COf, Stops, OfClip
  <2>2. 1 \in item[v].timed => 1 \in item[v].completed
    BY <1>2, <1>6, <1>7, <2>1 DEF COf, First
  <2>3. 1 \in item[v].missing => 1 \in item[v].completed
    BY <1>2, <1>6, <1>11, <2>1 DEF COf, Once, Handed
  <2> QED BY <1>4, <1>10, <2>1, <2>2, <2>3
<1>13. Counts(v)' /\ Waits(v)'
  BY <1>3, <1>6, <1>7, <1>9, <1>11 DEF COf, Counts, Waits
<1>14. Engaged(v)'
  BY <1>3, <1>4, <1>6, <1>7, <1>9, <1>10 DEF COf, Engaged
<1>15. Stops(v)'
  <2>1. Is(v, "STOPPED") => done \notin Range(calls') \/ 1 \in item[v].completed
    <3>1. done \in Range(calls') => done \in Range(calls) \/ Head(calls') = done
      BY <1>2, <1>4, <1>8, <1>10, ThenCall DEF done, add
    <3> QED BY <1>4, <1>6, <1>12, <3>1 DEF COf, Stops
  <2> QED BY <1>3, <1>4, <1>5, <1>6, <1>7, <1>9, <1>10, <1>12, <2>1 DEF COf, Stops, OfClip
<1>16. Idles(v)'
  <2>1. Moving(v) => Moving(v)'
    BY <1>2, <1>3, <1>4, <1>8, <1>10 DEF Moving, Doing
  <2> QED BY <1>3, <1>4, <1>6, <1>7, <1>9, <1>10, <1>11, <2>1 DEF COf, Idles
<1>17. Once(v)'
  <2> SUFFICES ASSUME NEW j \in Clips(v), j \notin item[v].completed
               PROVE  Lone(v, j)' /\ (Handed(v, j)' => Handed(v, j))
    BY <1>3, <1>6, <1>11, OnceKept DEF COf
  <2>1. /\ \A h : Fetched(v, j, h)' => Fetched(v, j, h)
        /\ \A i : Told(v, j, i)' => Told(v, j, i)
        /\ Retried(v, j)' = Retried(v, j) /\ Retried(v, j) \in Nat
        /\ Lone(v, j)
    BY <1>3, <1>6 DEF Fetched, Told, Retried, COf, Once
  <2> QED BY <1>11, <2>1, FewerHands
<1>18. First(v)'
  <2>1. Doing("OnItemComplete", v)' \/ k \notin item[v].timed
    BY <1>4, <1>10 DEF Doing
  <2> QED BY <1>2, <1>3, <1>4, <1>6, <1>9, <1>10, <2>1 DEF COf, First
<1>19. Sure(v)'
  BY <1>3, <1>4, <1>6, <1>10 DEF COf, Sure, Without, Doing
<1>20. Ends(v)'
  BY <1>2, <1>3, <1>4, <1>6, <1>8, <1>9, <1>10, <1>11 DEF COf, Ends
<1>21. COf(v)'
  BY <1>13, <1>14, <1>15, <1>16, <1>17, <1>18, <1>19, <1>20 DEF COf
<1> QED BY <1>3, <1>5, <1>21, BodyC


(* What is left to be done for a download after one of its bodies.           *)
LEMMA LeftToDo ==
    ASSUME TInv, QInv, CInv, NEW f, NEW v \in Videos, Doing(f, v), f # "EraseDownload"
    PROVE  /\ v \in listed /\ ~Erasing(v)
           /\ Then(<<>>) =>
                 /\ \A d \in Range(calls') : d.v = v => d \in Range(calls) /\ Rests(d)
                 /\ calls' # <<>> /\ Head(calls').v = v => Rests(Head(calls'))
           /\ \A c \in CallSet : Then(<<c>>) =>
                 /\ calls' # <<>> /\ Head(calls') = c
                 /\ \A d \in Range(calls') : d.v = v => d = c \/ (d \in Range(calls) /\ Rests(d))
<1>1. /\ calls # <<>> /\ calls \in Seq(CallSet)
      /\ Range(calls) = {Head(calls)} \cup Behind(calls)
      /\ Head(calls).v = v /\ Head(calls).do = f
  BY DoingIs
<1>2. v \in listed /\ ~Erasing(v)
  BY <1>1 DEF CInv, Owned, Erasing
<1>3. \A d \in Behind(calls) : d \in Range(calls) /\ (d.v = v => Rests(d))
  BY <1>1, <1>2 DEF QInv, Stacked, Rests, CInv, Owned, Later, Erasing
<1>4. ASSUME Then(<<>>)
      PROVE  /\ \A d \in Range(calls') : d.v = v => d \in Range(calls) /\ Rests(d)
             /\ calls' # <<>> /\ Head(calls').v = v => Rests(Head(calls'))
  BY <1>1, <1>3, <1>4, ThenNothing
<1>5. ASSUME NEW c \in CallSet, Then(<<c>>)
      PROVE  /\ calls' # <<>> /\ Head(calls') = c
             /\ \A d \in Range(calls') : d.v = v => d = c \/ (d \in Range(calls) /\ Rests(d))
  BY <1>1, <1>3, <1>5, ThenCall
<1> QED BY <1>2, <1>4, <1>5

(* AddClip: the clip is refused, it was completed before, or is fetched.     *)
AddRefused(v, k) ==
    /\ May("refuse") /\ pairs' = pairs /\ item'[v].flags = item[v].flags
    /\ item'[v].handle[k] = 0
    /\ Then(<<Complete(v, k, "E_FAIL")>>)

AddKnown(v, k, p) ==
    /\ k \in item[v].timed /\ p.at \in {"torrent", "idle"}
    /\ pairs' = Append(pairs, p) /\ item'[v].flags = item[v].flags
    /\ item'[v].handle[k] = Len(pairs) + 1
    /\ Then(<<Complete(v, k, "S_OK")>>)

AddStarted(v, k, p) ==
    /\ k \in item[v].timed => May("moved")
    /\ p.at \in {"http", "torrent", "idle"} /\ (p.at = "idle" => May("crash"))
    /\ pairs' = Append(pairs, p)
    /\ item'[v].flags = (item[v].flags \ {"FINISHED", "QUEUED"}) \cup {"ACTIVE"}
    /\ item'[v].handle[k] = Len(pairs) + 1
    /\ Then(<<>>)

LEMMA AddClipHow ==
    ASSUME TInv, NEW v \in Videos, AddClip(v)
    PROVE  /\ Doing("AddClip", v) /\ Head(calls).k \in Clips(v)
           /\ item'[v].cur = item[v].cur /\ item'[v].clips = item[v].clips
           /\ item'[v].type = item[v].type /\ item'[v].timed = item[v].timed
           /\ item'[v].completed = item[v].completed /\ item'[v].missing = item[v].missing
           /\ \A j \in Clips(v) \ {Head(calls).k} : item'[v].handle[j] = item[v].handle[j]
           /\ \/ AddRefused(v, Head(calls).k)
              \/ \E p \in PairSet :
                    /\ p.v = v /\ p.k = Head(calls).k /\ (p.paused <=> Is(v, "PAUSED"))
                    /\ AddKnown(v, Head(calls).k, p) \/ AddStarted(v, Head(calls).k, p)
<1>0. /\ Doing("AddClip", v) /\ Head(calls) \in CallSet
      /\ Head(calls).do = "AddClip" /\ Head(calls).v = v
      /\ item[v] \in ItemsOf(v) /\ item \in [Videos -> {item[w] : w \in Videos}]
      /\ item[v].type \in [Clips(v) -> Types] /\ item[v].handle \in [Clips(v) -> Nat]
  BY DoingIs DEF AddClip, TInv, ItemsTyped, ItemsOf
<1>a. PICK k \in Clips(v) : k = Head(calls).k
  BY <1>0 DEF CallSet, OfClip
<1>b. PICK hr \in Outcomes(v, k) :
        LET started == hr # "QD_FAILED" /\ ~(hr = "QD_ADDED" /\ k \in item[v].timed)
            pair    == [v |-> v, k |-> k, type |-> item[v].type[k], paused |-> Is(v, "PAUSED"),
                        at |-> IF hr = "QD_PENDING" THEN "http"
                               ELSE IF item[v].type[k] = "torrent" THEN "torrent" ELSE "idle"]
        IN  /\ pairs' = IF hr = "QD_FAILED" THEN pairs ELSE Append(pairs, pair)
            /\ item' = [item EXCEPT
                  ![v].handle[k] = IF hr = "QD_FAILED" THEN 0 ELSE Len(pairs) + 1,
                  ![v].flags     = IF started THEN (@ \ {"FINISHED", "QUEUED"}) \cup {"ACTIVE"}
                                   ELSE @,
                  ![v].error     = IF started THEN FALSE ELSE @]
            /\ Then(IF started THEN <<>>
                    ELSE <<Complete(v, k, IF hr = "QD_FAILED" THEN "E_FAIL" ELSE "S_OK")>>)
  BY <1>a DEF AddClip
<1> DEFINE started == hr # "QD_FAILED" /\ ~(hr = "QD_ADDED" /\ k \in item[v].timed)
           pair == [v |-> v, k |-> k, type |-> item[v].type[k], paused |-> Is(v, "PAUSED"),
                    at |-> IF hr = "QD_PENDING" THEN "http"
                           ELSE IF item[v].type[k] = "torrent" THEN "torrent" ELSE "idle"]
           h == IF hr = "QD_FAILED" THEN 0 ELSE Len(pairs) + 1
           F == IF started THEN (item[v].flags \ {"FINISHED", "QUEUED"}) \cup {"ACTIVE"}
                ELSE item[v].flags
           e == IF started THEN FALSE ELSE item[v].error
           err == IF hr = "QD_FAILED" THEN "E_FAIL" ELSE "S_OK"
<1>1. /\ pairs' = IF hr = "QD_FAILED" THEN pairs ELSE Append(pairs, pair)
      /\ item' = [item EXCEPT ![v].handle[k] = h, ![v].flags = F, ![v].error = e]
      /\ Then(IF started THEN <<>> ELSE <<Complete(v, k, err)>>)
  BY <1>b
<1>2. /\ pair \in PairSet /\ pair.v = v /\ pair.k = k /\ (pair.paused <=> Is(v, "PAUSED"))
      /\ pair.at \in {"http", "torrent", "idle"}
      /\ pair.at = "http" <=> hr = "QD_PENDING"
      /\ pair.at = "idle" => item[v].type[k] # "torrent"
  <2>1. k \in Nat /\ item[v].type[k] \in Types
    BY <1>0, Settings
  <2>2. Is(v, "PAUSED") \in BOOLEAN
    BY DEF Is
  <2> QED BY <2>1, <2>2 DEF PairSet, States
<1>3. /\ hr \in {"QD_FAILED", "QD_ADDED", "QD_PENDING"}
      /\ hr = "QD_FAILED" => May("refuse")
      /\ hr = "QD_PENDING" /\ k \in item[v].timed => May("moved")
      /\ hr = "QD_ADDED" /\ k \notin item[v].timed => item[v].type[k] = "torrent" \/ May("crash")
  BY <1>b DEF Outcomes
<1>4. /\ F = IF started THEN (item[v].flags \ {"FINISHED", "QUEUED"}) \cup {"ACTIVE"}
             ELSE item[v].flags
      /\ h = IF hr = "QD_FAILED" THEN 0 ELSE Len(pairs) + 1
      /\ err = IF hr = "QD_FAILED" THEN "E_FAIL" ELSE "S_OK"
      /\ started <=> hr # "QD_FAILED" /\ ~(hr = "QD_ADDED" /\ k \in item[v].timed)
  OBVIOUS
<1> HIDE DEF started, pair, h, F, e, err
<1>5. /\ item'[v].flags = F /\ item'[v].type = item[v].type
      /\ item'[v].cur = item[v].cur /\ item'[v].clips = item[v].clips
      /\ item'[v].timed = item[v].timed /\ item'[v].completed = item[v].completed
      /\ item'[v].missing = item[v].missing
      /\ item'[v].handle = [item[v].handle EXCEPT ![k] = h]
  <2> DEFINE r == [item[v] EXCEPT !.handle[k] = h, !.flags = F, !.error = e]
  <2>1. /\ r.flags = F /\ r.type = item[v].type
        /\ r.cur = item[v].cur /\ r.clips = item[v].clips
        /\ r.timed = item[v].timed /\ r.completed = item[v].completed
        /\ r.missing = item[v].missing
        /\ r.handle = [item[v].handle EXCEPT ![k] = h]
    BY <1>0 DEF ItemsOf
  <2>2. item' = [item EXCEPT ![v] = r]
    BY <1>1
  <2> HIDE DEF r
  <2>3. item'[v] = r
    BY <1>0, <2>2
  <2> QED BY <2>1, <2>3
<1>6. item'[v].handle[k] = h /\ \A j \in Clips(v) \ {k} : item'[v].handle[j] = item[v].handle[j]
  BY <1>0, <1>5
<1>7. CASE hr = "QD_FAILED"
  <2>1. AddRefused(v, k)
    BY <1>1, <1>3, <1>4, <1>5, <1>6, <1>7 DEF AddRefused
  <2> QED BY <1>0, <1>5, <1>6, <1>a, <2>1
<1>8. CASE hr = "QD_ADDED" /\ k \in item[v].timed
  <2>1. AddKnown(v, k, pair)
    BY <1>1, <1>2, <1>4, <1>5, <1>6, <1>8 DEF AddKnown
  <2> QED BY <1>0, <1>2, <1>5, <1>6, <1>a, <2>1
<1>9. CASE hr # "QD_FAILED" /\ ~(hr = "QD_ADDED" /\ k \in item[v].timed)
  <2>1. AddStarted(v, k, pair)
    BY <1>1, <1>2, <1>3, <1>4, <1>5, <1>6, <1>9 DEF AddStarted
  <2> QED BY <1>0, <1>2, <1>5, <1>6, <1>a, <2>1
<1> QED BY <1>7, <1>8, <1>9


LEMMA AddClipC ==
    ASSUME TInv, TInv', QInv, CInv, NEW v \in Videos, AddClip(v)
    PROVE  CInv'
<1> DEFINE k == Head(calls).k
           fail == Complete(v, k, "E_FAIL")
           done == Complete(v, k, "S_OK")
<1>1. Doing("AddClip", v) /\ "AddClip" \in AtWork /\ "AddClip" \in OfClip
      /\ "AddClip" # "EraseDownload"
  BY DEF AddClip, AtWork, OfClip
<1>2. /\ UNCHANGED <<listed, alerts, retry, world>>
      /\ \A w \in Videos : w # v => item'[w] = item[w]
      /\ k \in Clips(v)
      /\ item'[v].cur = item[v].cur /\ item'[v].clips = item[v].clips
      /\ item'[v].type = item[v].type /\ item'[v].timed = item[v].timed
      /\ item'[v].completed = item[v].completed /\ item'[v].missing = item[v].missing
      /\ \A j \in Clips(v) \ {k} : item'[v].handle[j] = item[v].handle[j]
      /\ \/ AddRefused(v, k)
         \/ \E p \in PairSet : p.v = v /\ p.k = k /\ (AddKnown(v, k, p) \/ AddStarted(v, k, p))
  BY AddClipDoes, AddClipHow
<1>3. /\ fail \in CallSet /\ fail \in NextCalls(v) /\ done \in CallSet /\ done \in NextCalls(v)
      /\ fail.v = v /\ fail.do = "OnItemComplete" /\ fail.k = k /\ fail.hr = "E_FAIL"
      /\ done.v = v /\ done.do = "OnItemComplete" /\ done.k = k /\ done.hr = "S_OK"
  <2>1. fail \in CallSet /\ done \in CallSet
    BY <1>2, CallsTyped DEF OfClip, Answers, Failures
  <2> QED BY <2>1 DEF NextCalls, AtWork, Complete
<1> HIDE DEF fail, done
<1>4. Then(<<>>) \/ Then(<<fail>>) \/ Then(<<done>>)
  BY <1>2 DEF AddRefused, AddKnown, AddStarted, fail, done
<1>5. /\ Owned' /\ \A w \in Videos : w # v => Passed(w)
      /\ ~Erasing(v)'
  <2>1. /\ listed' = IF "AddClip" = "EraseDownload" THEN listed \ {v} ELSE listed
        /\ \A w \in Videos : w # v => item'[w] = item[w]
        /\ item[v].timed \subseteq item'[v].timed
    BY <1>1, <1>2
  <2>2. Then(<<>>) \/ \E c \in NextCalls(v) : Then(<<c>>)
    BY <1>3, <1>4
  <2> QED BY <1>1, <2>1, <2>2, WorkOn
<1>6. /\ v \in listed /\ ~Erasing(v)
      /\ Then(<<>>) =>
            /\ \A d \in Range(calls') : d.v = v => d \in Range(calls) /\ Rests(d)
            /\ calls' # <<>> /\ Head(calls').v = v => Rests(Head(calls'))
      /\ \A c \in CallSet : Then(<<c>>) =>
            /\ calls' # <<>> /\ Head(calls') = c
            /\ \A d \in Range(calls') : d.v = v => d = c \/ (d \in Range(calls) /\ Rests(d))
  BY <1>1, LeftToDo
<1>7. /\ COf(v) /\ Clips(v) \subseteq Nat \ {0} /\ retry[v] \in Nat
      /\ item[v].completed \subseteq Clips(v) /\ item[v].cur \in Nat
      /\ item[v].cur > 0 => item[v].cur \in Clips(v)
  BY <1>6, ListedIs
<1>8. /\ k <= item[v].cur /\ item[v].cur > 0
      /\ Head(calls) \in Range(calls)
      /\ ~Is(v, "QUEUED") /\ ~Asked(v) /\ ~Is(v, "FORCE") /\ ~IsStream(v)
      /\ ~Started(v) => ~Is(v, "PAUSED")
  BY <1>1, <1>6, AtClip
<1>9. Head(calls).v = v /\ Head(calls).do = "AddClip" /\ calls # <<>>
  BY <1>1, DoingIs
<1>10. /\ IsStream(v)' <=> IsStream(v)
       /\ May("refuse")' <=> May("refuse")
       /\ May("moved")' <=> May("moved")
       /\ Steady(v)' <=> Steady(v)
  BY <1>2 DEF IsStream, May, Steady, Without
<1>11. \A j \in Clips(v) : j <= item[v].cur /\ j \in item[v].timed => j \in item[v].completed
  BY <1>7, <1>9 DEF COf, First, Doing
<1>12. Is(v, "STOPPED") => k = 1 /\ v \notin Playlists /\ item[v].cur > 0 /\ ~Is(v, "FINISHED")
  BY <1>6, <1>7, <1>8, <1>9, AtClip DEF COf, Stops, OfClip
<1>13. /\ \A f : Doing(f, v)' => f \in {"OnItemComplete", "AddClip", "Resume"}
       /\ Doing("OnItemComplete", v)' =>
             \/ Head(calls') = fail /\ AddRefused(v, k)
             \/ Head(calls') = done /\ k \in item[v].timed
       /\ Doing("AddClip", v)' => Head(calls').k \in item[v].timed
       /\ \A d \in Range(calls') : d.v = v =>
             \/ d = fail /\ AddRefused(v, k)
             \/ d = done /\ k \in item[v].timed
             \/ d \in Range(calls) /\ Rests(d)
  <2>1. CASE AddRefused(v, k)
    <3>1. Then(<<fail>>)
      BY <2>1 DEF AddRefused, fail
    <3> QED BY <1>3, <1>6, <2>1, <3>1 DEF Doing
  <2>2. ASSUME NEW p, AddKnown(v, k, p)
        PROVE  /\ calls' # <<>> /\ Head(calls') = done /\ k \in item[v].timed
               /\ \A d \in Range(calls') : d.v = v => d = done \/ (d \in Range(calls) /\ Rests(d))
    <3>1. Then(<<done>>) /\ k \in item[v].timed
      BY <2>2 DEF AddKnown, done
    <3> QED BY <1>3, <1>6, <3>1
  <2>3. ASSUME NEW p, AddStarted(v, k, p) PROVE Then(<<>>)
    BY <2>3 DEF AddStarted
  <2> QED BY <1>2, <1>3, <1>6, <2>1, <2>2, <2>3 DEF Doing, Rests
<1>14. /\ \A flag : flag \notin {"ACTIVE", "FINISHED", "QUEUED"} => (Is(v, flag)' <=> Is(v, flag))
       /\ Is(v, "QUEUED")' => Is(v, "QUEUED")
       /\ Is(v, "FINISHED")' => Is(v, "FINISHED")
       /\ Started(v) => Started(v)'
  BY <1>2 DEF AddRefused, AddKnown, AddStarted, Is, Started
<1>15. /\ \A h \in DOMAIN pairs : h \in DOMAIN pairs' /\ pairs'[h] = pairs[h]
       /\ \A h \in DOMAIN pairs' : h \in DOMAIN pairs \/
             /\ pairs' # pairs
             /\ pairs'[h].v = v /\ pairs'[h].k = k /\ pairs'[h].at \in {"http", "torrent", "idle"}
             /\ h = Len(pairs) + 1
             /\ pairs'[h].at = "http" => Started(v)' /\ (k \in item[v].timed => May("moved"))
       /\ AddRefused(v, k) => pairs' = pairs
       /\ \/ pairs' = pairs
          \/ \E p \in PairSet : p.v = v /\ p.at # "typing" /\ pairs' = Append(pairs, p)
  <2>1. CASE AddRefused(v, k)
    BY <2>1 DEF AddRefused
  <2>2. ASSUME NEW p \in PairSet, p.v = v, p.k = k, AddKnown(v, k, p) \/ AddStarted(v, k, p)
        PROVE  /\ pairs' = Append(pairs, p) /\ p.at \in {"http", "torrent", "idle"}
               /\ p.at = "http" => Started(v)' /\ (k \in item[v].timed => May("moved"))
    BY <2>2 DEF AddKnown, AddStarted, Started, Is
  <2>3. ASSUME NEW p \in PairSet, p.v = v, p.k = k, AddKnown(v, k, p) \/ AddStarted(v, k, p)
        PROVE  /\ \A h \in DOMAIN pairs : h \in DOMAIN pairs' /\ pairs'[h] = pairs[h]
               /\ \A h \in DOMAIN pairs' : h \in DOMAIN pairs \/
                     (h = Len(pairs) + 1 /\ pairs'[h] = p /\ pairs' # pairs)
    BY <2>2, <2>3, OnePair
  <2>4. CASE ~AddRefused(v, k)
    BY <1>2, <2>2, <2>3, <2>4
  <2> QED BY <2>1, <2>4
<1>16. Counts(v)'
  BY <1>2, <1>7, <1>10 DEF COf, Counts
<1>17. Engaged(v)'
  <2>1. Traced(v)' => item'[v].cur > 0
    BY <1>2, <1>8
  <2>2. \A c \in Range(calls') :
          /\ c.v = v /\ c.do \in OfClip => c.k <= item[v].cur
          /\ c.v = v /\ c.do = "OnDownloadComplete" => item[v].cur > 0
    BY <1>3, <1>7, <1>8, <1>13 DEF COf, Engaged
  <2>3. Traced(v) => Traced(v)'
    BY <1>15 DEF Traced
  <2>4. Is(v, "ACTIVE")' => Traced(v)'
    <3>1. CASE item'[v].flags = item[v].flags
      BY <1>7, <2>3, <3>1 DEF COf, Engaged, Is
    <3>2. ASSUME NEW p \in PairSet, p.v = v, pairs' = Append(pairs, p) PROVE Traced(v)'
      BY <3>2, OnePair DEF Traced
    <3> QED BY <1>2, <3>1, <3>2 DEF AddRefused, AddKnown, AddStarted
  <2>5. item'[v].missing # {} => Traced(v)' /\ Started(v)'
    BY <1>2, <1>7, <1>14, <2>3 DEF COf, Engaged
  <2> QED BY <1>2, <2>1, <2>2, <2>4, <2>5 DEF Engaged
<1>18. Waits(v)'
  BY <1>2, <1>7, <1>8, <1>13, <1>14 DEF Waits, Asked, Doing
<1>19. Stops(v)'
  <2>1. Is(v, "STOPPED")' => \A c \in Range(calls') : c.v = v =>
                \/ c.do \in {"EraseDownload", "Resume"}
                \/ /\ c.do \in OfClip /\ c.k = 1 /\ v \notin Playlists
                   /\ c.do = "OnItemComplete" /\ c.hr = "S_OK" => 1 \in item[v].completed
    <3> SUFFICES ASSUME Is(v, "STOPPED"), NEW c \in Range(calls'), c.v = v
                 PROVE  \/ c.do \in {"EraseDownload", "Resume"}
                        \/ /\ c.do \in OfClip /\ c.k = 1 /\ v \notin Playlists
                           /\ c.do = "OnItemComplete" /\ c.hr = "S_OK" => 1 \in item[v].completed
      BY <1>14
    <3>1. k \in item[v].timed => 1 \in item[v].completed
      BY <1>2, <1>8, <1>11, <1>12
    <3>2. CASE c = fail \/ (c = done /\ k \in item[v].timed)
      BY <1>3, <1>12, <3>1, <3>2 DEF OfClip
    <3>3. CASE c \in Range(calls)
      BY <1>7, <3>3 DEF COf, Stops
    <3> QED BY <1>13, <3>2, <3>3
  <2> QED BY <1>2, <1>7, <1>8, <1>12, <1>14, <1>10, <2>1 DEF COf, Stops
<1>20. Idles(v)'
  <2>1. (~Started(v) /\ ~IsStream(v) /\ item[v].cur > 0 =>
          \/ Moving(v)
          \/ /\ May("refuse") /\ item[v].handle[item[v].cur] = 0
             /\ item[v].cur \notin item[v].timed)'
    <3> SUFFICES ASSUME ~Started(v)'
                 PROVE  /\ May("refuse") /\ item'[v].handle[item[v].cur] = 0
                        /\ item[v].cur \notin item[v].timed
      BY <1>2, <1>10
    <3>1. ~Started(v)
      BY <1>14
    <3>2. \/ k = item[v].cur /\ k \notin item[v].timed
          \/ /\ May("refuse") /\ item[v].handle[item[v].cur] = 0
             /\ item[v].cur \notin item[v].timed
      BY <1>7, <1>8, <1>9, <3>1 DEF COf, Idles, Moving, Doing
    <3>3. \A p : ~AddStarted(v, k, p)
      BY DEF AddStarted, Started, Is
    <3>4. CASE AddRefused(v, k)
      <4>1. May("refuse") /\ item'[v].handle[k] = 0
        BY <3>4 DEF AddRefused
      <4> QED BY <1>2, <1>7, <1>8, <3>2, <4>1
    <3>5. ASSUME NEW p, AddKnown(v, k, p)
          PROVE  /\ May("refuse") /\ item'[v].handle[item[v].cur] = 0
                 /\ item[v].cur \notin item[v].timed
      <4>1. k \in item[v].timed
        BY <3>5 DEF AddKnown
      <4> QED BY <1>2, <1>7, <1>8, <3>2, <4>1
    <3> QED BY <1>2, <3>3, <3>4, <3>5
  <2>2. (~Started(v) /\ ~IsStream(v) /\ Is(v, "PAUSED") =>
          item[v].cur = 0 /\ ~Doing("QueueNextDownloadItem", v))'
    BY <1>8, <1>14
  <2>3. \A h \in DOMAIN pairs' : pairs'[h].v = v /\ pairs'[h].at = "http" => Started(v)'
    BY <1>7, <1>14, <1>15 DEF COf, Idles
  <2>4. (\A i \in DOMAIN alerts :
          alerts[i].v = v /\ alerts[i].code = "FINISHED" /\ alerts[i].hr \in Failures
             => Started(v))'
    BY <1>2, <1>7, <1>14 DEF COf, Idles
  <2>5. (\A c \in Range(calls) : c.v = v /\ c.hr \notin {"S_OK", "E_FAIL"} => Started(v))'
    BY <1>3, <1>7, <1>13, <1>14 DEF COf, Idles
  <2> QED BY <1>8, <1>10, <2>1, <2>2, <2>3, <2>4, <2>5 DEF Idles
<1>21. Once(v)'
  <2> SUFFICES ASSUME NEW j \in Clips(v), j \notin item[v].completed
               PROVE  Lone(v, j)' /\ (Handed(v, j)' => Handed(v, j))
    BY <1>2, <1>7, <1>13, OnceKept DEF COf
  <2>1. /\ \A i : Told(v, j, i)' <=> Told(v, j, i)
        /\ Retried(v, j)' = Retried(v, j) /\ Retried(v, j) \in Nat
        /\ Lone(v, j)
    BY <1>2, <1>7 DEF Told, Retried, COf, Once
  <2>2. CASE j # k \/ pairs' = pairs
    <3>1. \A h : Fetched(v, j, h)' => Fetched(v, j, h)
      BY <1>15, <2>2 DEF Fetched
    <3>2. Handled(v, j)' => Handled(v, j)
      <4>1. Handled(v, j)' => j = k /\ j \notin item[v].timed
        <5>1. Handled(v, j)' => Doing("OnItemComplete", v)' \/ 
                 (Doing("AddClip", v)' /\ Head(calls').k = j /\ j \notin item[v].timed)
          BY <1>2, <1>13 DEF Handled, Doing, OfClip
        <5>2. j \notin item[v].timed \/ ~(j = k)
          BY <1>8, <1>11
        <5> QED BY <1>3, <1>13, <5>1, <5>2 DEF Handled
      <4> QED BY <1>9, <4>1 DEF Handled, OfClip
    <3> QED BY <2>1, <3>1, <3>2, FewerHands
  <2>3. CASE j = k /\ pairs' # pairs
    <3>1. j \notin item[v].timed /\ Handled(v, j)
      BY <1>8, <1>9, <1>11, <2>3 DEF Handled, OfClip
    <3>2. \A h : Fetched(v, j, h)' => h = Len(pairs) + 1
      BY <1>15, <2>1, <3>1 DEF Fetched, Lone
    <3>3. ~Handled(v, j)'
      BY <1>2, <1>13, <1>15, <2>3, <3>1 DEF Handled, Doing, OfClip
    <3>4. Retried(v, j) = 0 /\ \A i : ~Told(v, j, i)
      BY <2>1, <3>1 DEF Lone
    <3> QED BY <2>1, <3>1, <3>2, <3>3, <3>4 DEF Lone, Handed
  <2> QED BY <2>2, <2>3
<1>22. First(v)'
  BY <1>2, <1>11 DEF First
<1>23. Sure(v)'
  <2>1. Without({"refuse", "moved"})' => Without({"refuse", "moved"})
           /\ ~May("refuse") /\ ~May("moved")
    BY <1>2 DEF Without, May
  <2>2. k \notin item[v].timed => k \notin item[v].completed
    BY <1>7 DEF COf, Counts
  <2>3. Doing("OnItemComplete", v)' /\ Head(calls').hr # "S_OK" => May("refuse")
    BY <1>3, <1>13 DEF AddRefused
  <2> QED BY <1>2, <1>7, <1>15, <2>1, <2>2, <2>3 DEF COf, Sure
<1>24. Ends(v)'
  BY <1>2, <1>3, <1>7, <1>10, <1>13, <1>14 DEF COf, Ends
<1>25. COf(v)'
  BY <1>16, <1>17, <1>18, <1>19, <1>20, <1>21, <1>22, <1>23, <1>24 DEF COf
<1>26. retry'[v] > 0 => retry[v] > 0
  BY <1>2
<1> QED BY <1>2, <1>5, <1>15, <1>25, <1>26, BodyC


LEMMA ItemCompleteHow ==
    ASSUME TInv, NEW v \in Videos, OnItemComplete(v)
    PROVE  /\ Doing("OnItemComplete", v) /\ Head(calls).k \in Clips(v)
           /\ Head(calls).hr \in Answers
           /\ UNCHANGED <<listed, active, queue, alerts, pairs, world>>
           /\ item'[v].cur = item[v].cur /\ item'[v].clips = item[v].clips
           /\ item'[v].type = item[v].type /\ item'[v].handle = item[v].handle
           /\ \/ /\ Head(calls).hr = "S_OK"
                 /\ item'[v].flags = item[v].flags /\ item'[v].missing = item[v].missing
                 /\ item'[v].timed = item[v].timed \cup {Head(calls).k}
                 /\ item'[v].completed = item[v].completed \cup {Head(calls).k}
                 /\ Then(IF Head(calls).k \in item[v].completed THEN <<>> ELSE Onward(v))
                 /\ retry' = retry
              \/ /\ Head(calls).hr # "S_OK" /\ Is(v, "STOPPED")
                 /\ item' = item /\ retry' = retry /\ Then(<<>>)
              \/ /\ Head(calls).hr # "S_OK" /\ ~Is(v, "STOPPED") /\ v \in Playlists
                 /\ item' = item /\ retry' = retry /\ Then(<<Call("QueueNextDownloadItem", v)>>)
              \/ /\ Head(calls).hr # "S_OK" /\ ~Is(v, "STOPPED") /\ v \notin Playlists
                 /\ item'[v].flags = item[v].flags \cup {"ERR_NETWORK"}
                 /\ item'[v].timed = item[v].timed /\ item'[v].completed = item[v].completed
                 /\ item'[v].missing = IF Head(calls).hr = "E_HTTP_NOTFOUND"
                                       THEN item[v].missing \cup {Head(calls).k}
                                       ELSE item[v].missing
                 /\ Then(<<>>)
                 /\ retry'[v] = IF Head(calls).hr = "E_HTTP_NET_ERROR" THEN retry[v] + 1
                                ELSE retry[v]
<1>0. /\ Doing("OnItemComplete", v) /\ Head(calls) \in CallSet
      /\ Head(calls).do = "OnItemComplete" /\ Head(calls).v = v
      /\ UNCHANGED <<listed, active, queue, alerts, pairs, world>>
      /\ item[v] \in ItemsOf(v) /\ item \in [Videos -> {item[w] : w \in Videos}]
      /\ retry \in [Videos -> Nat]
  BY DoingIs DEF OnItemComplete, TInv, ItemsTyped
<1>a. PICK k \in Clips(v) : k = Head(calls).k
  BY <1>0 DEF CallSet, OfClip
<1>b. PICK hr \in Answers : hr = Head(calls).hr
  BY <1>0 DEF CallSet
<1>1. CASE /\ hr = "S_OK"
           /\ item' = [item EXCEPT ![v].timed = @ \cup {k}, ![v].completed = @ \cup {k}]
           /\ Then(IF k \in item[v].completed THEN <<>> ELSE Onward(v))
           /\ UNCHANGED retry
  <2> DEFINE r == [item[v] EXCEPT !.timed = @ \cup {k}, !.completed = @ \cup {k}]
  <2>1. /\ r.cur = item[v].cur /\ r.clips = item[v].clips /\ r.type = item[v].type
        /\ r.handle = item[v].handle /\ r.flags = item[v].flags
        /\ r.missing = item[v].missing
        /\ r.timed = item[v].timed \cup {k} /\ r.completed = item[v].completed \cup {k}
    BY <1>0 DEF ItemsOf
  <2>2. item' = [item EXCEPT ![v] = r]
    BY <1>1
  <2> HIDE DEF r
  <2>3. item'[v] = r
    BY <1>0, <2>2
  <2> QED BY <1>0, <1>1, <1>a, <1>b, <2>1, <2>3
<1>2. CASE /\ hr # "S_OK"
           /\ Is(v, "STOPPED") \/ v \in Playlists
           /\ Then(IF Is(v, "STOPPED") THEN <<>> ELSE <<Call("QueueNextDownloadItem", v)>>)
           /\ UNCHANGED <<item, retry>>
  BY <1>0, <1>2, <1>a, <1>b
<1>3. CASE /\ hr # "S_OK"
           /\ ~Is(v, "STOPPED") /\ v \notin Playlists
           /\ item' = [item EXCEPT
                 ![v].flags   = @ \cup {"ERR_NETWORK"},
                 ![v].error   = TRUE,
                 ![v].missing = IF hr = "E_HTTP_NOTFOUND" THEN @ \cup {k} ELSE @]
           /\ retry' = IF hr = "E_HTTP_NET_ERROR" THEN [retry EXCEPT ![v] = @ + 1] ELSE retry
           /\ Then(<<>>)
  <2> DEFINE m == IF hr = "E_HTTP_NOTFOUND" THEN item[v].missing \cup {k} ELSE item[v].missing
             r == [item[v] EXCEPT !.flags = @ \cup {"ERR_NETWORK"}, !.error = TRUE, !.missing = m]
  <2>1. /\ r.cur = item[v].cur /\ r.clips = item[v].clips /\ r.type = item[v].type
        /\ r.handle = item[v].handle /\ r.flags = item[v].flags \cup {"ERR_NETWORK"}
        /\ r.timed = item[v].timed /\ r.completed = item[v].completed
        /\ r.missing = m
    BY <1>0 DEF ItemsOf
  <2>2. item' = [item EXCEPT ![v] = r]
    BY <1>3
  <2>3. m = IF hr = "E_HTTP_NOTFOUND" THEN item[v].missing \cup {k} ELSE item[v].missing
    OBVIOUS
  <2> HIDE DEF r, m
  <2>4. item'[v] = r
    BY <1>0, <2>2
  <2>5. retry'[v] = IF hr = "E_HTTP_NET_ERROR" THEN retry[v] + 1 ELSE retry[v]
    BY <1>0, <1>3
  <2> QED BY <1>0, <1>3, <1>a, <1>b, <2>1, <2>3, <2>4, <2>5
<1> QED BY <1>1, <1>2, <1>3, <1>a, <1>b DEF OnItemComplete

(* What is known before each of the outcomes of OnItemComplete.              *)
LEMMA AtItemComplete ==
    ASSUME TInv, Traces, QInv, CInv, NEW v \in Videos, OnItemComplete(v)
    PROVE  /\ v \in listed /\ ~Erasing(v) /\ COf(v)
           /\ Head(calls).k \in Clips(v) /\ Head(calls).k <= item[v].cur /\ item[v].cur > 0
           /\ ~Is(v, "QUEUED") /\ ~Asked(v) /\ ~Is(v, "FORCE")
           /\ ~IsStream(v) /\ ~Started(v) => ~Is(v, "PAUSED")
           /\ Handled(v, Head(calls).k)
           /\ IsStream(v) => Head(calls).hr = "S_OK"
           /\ Head(calls).hr \notin {"S_OK", "E_FAIL"} => Traced(v) /\ Started(v)
           /\ \A j \in Clips(v) : j <= item[v].cur /\ j \in item[v].timed =>
                 j \in item[v].completed \/ (j = Head(calls).k /\ Head(calls).hr = "S_OK")
           /\ Head(calls).hr = "S_OK" /\ Head(calls).k \notin item[v].completed =>
                 ~Is(v, "STOPPED")
           /\ Moving(v) => Head(calls).hr = "S_OK" /\ Head(calls).k \notin item[v].completed
<1>1. /\ Doing("OnItemComplete", v) /\ "OnItemComplete" \in AtWork /\ "OnItemComplete" \in OfClip
      /\ "OnItemComplete" # "EraseDownload"
  BY DEF OnItemComplete, AtWork, OfClip
<1>2. v \in listed /\ ~Erasing(v)
  BY <1>1, LeftToDo
<1>3. COf(v)
  BY <1>2, ListedIs
<1>4. /\ Head(calls).k \in Clips(v) /\ Head(calls).k <= item[v].cur /\ item[v].cur > 0
      /\ Head(calls) \in Range(calls)
      /\ ~Is(v, "QUEUED") /\ ~Asked(v) /\ ~Is(v, "FORCE")
      /\ ~IsStream(v) /\ ~Started(v) => ~Is(v, "PAUSED")
  BY <1>1, <1>2, AtClip
<1>5. Head(calls).v = v /\ Head(calls).do = "OnItemComplete" /\ calls # <<>>
  BY <1>1, DoingIs
<1>6. Handled(v, Head(calls).k)
  BY <1>5 DEF Handled, OfClip
<1>7. IsStream(v) => Head(calls).hr = "S_OK"
  BY <1>1, <1>2, NotWaiting
<1>8. Head(calls).hr \notin {"S_OK", "E_FAIL"} => Traced(v) /\ Started(v)
  BY <1>3, <1>4, <1>5 DEF COf, Idles, Traces
<1>9. \A j \in Clips(v) : j <= item[v].cur /\ j \in item[v].timed =>
         j \in item[v].completed \/ (j = Head(calls).k /\ Head(calls).hr = "S_OK")
  BY <1>3 DEF COf, First
<1>10. Head(calls).hr = "S_OK" /\ Head(calls).k \notin item[v].completed => ~Is(v, "STOPPED")
  BY <1>2, <1>3, <1>4, <1>5 DEF COf, Stops
<1>11. Moving(v) => Head(calls).hr = "S_OK" /\ Head(calls).k \notin item[v].completed
  BY <1>5 DEF Moving, Doing
<1> QED BY <1>2, <1>3, <1>4, <1>6, <1>7, <1>8, <1>9, <1>10, <1>11


(* A clip completed before, or the answer for a deleted download.            *)
LEMMA ItemIgnored ==
    ASSUME TInv, TInv', Traces, QInv, CInv, NEW v \in Videos, OnItemComplete(v),
           Then(<<>>), retry' = retry, Head(calls).hr = "S_OK" \/ Is(v, "STOPPED"),
           item'[v].flags = item[v].flags, item'[v].missing = item[v].missing,
           item'[v].timed = item[v].timed, item'[v].completed = item[v].completed,
           Head(calls).hr = "S_OK" => Head(calls).k \in item[v].completed
    PROVE  COf(v)'
<1>1. /\ v \in listed /\ ~Erasing(v) /\ COf(v)
      /\ ~Is(v, "QUEUED") /\ ~Asked(v) /\ ~Is(v, "FORCE") /\ item[v].cur > 0
      /\ ~IsStream(v) /\ ~Started(v) => ~Is(v, "PAUSED")
      /\ \A j \in Clips(v) : j <= item[v].cur /\ j \in item[v].timed =>
            j \in item[v].completed \/ (j = Head(calls).k /\ Head(calls).hr = "S_OK")
      /\ ~Moving(v)
      /\ Is(v, "STOPPED") => ~IsStream(v)
  BY AtItemComplete DEF COf, Stops
<1>2. /\ item'[v].cur = item[v].cur /\ item'[v].clips = item[v].clips
      /\ item'[v].type = item[v].type /\ item'[v].handle = item[v].handle
      /\ UNCHANGED <<listed, active, queue, alerts, pairs, world>>
      /\ Doing("OnItemComplete", v)
  BY ItemCompleteHow
<1>3. /\ \A d \in Range(calls') : d.v = v => d \in Range(calls) /\ Rests(d)
      /\ calls' # <<>> /\ Head(calls').v = v => Rests(Head(calls'))
  BY <1>2, LeftToDo
<1>4. \A flag : Is(v, flag)' <=> Is(v, flag)
  BY DEF Is
<1>5. Waits(v)'
  BY <1>1, <1>2, <1>3, <1>4 DEF Waits, Asked, Rests
<1>6. IsStream(v) => Is(v, "FINISHED")
  BY <1>1 DEF COf, Idles
<1>7. SamePairs /\ \A h \in DOMAIN pairs' : pairs'[h].at = pairs[h].at
  BY <1>2, PairsAsTheyAre
<1>8. \A i \in DOMAIN alerts' : i \in DOMAIN alerts /\ alerts'[i] = alerts[i]
  BY <1>2
<1> QED BY <1>1, <1>2, <1>3, <1>4, <1>5, <1>6, <1>7, <1>8, NoMore

(* A clip is completed: on to the next one, or to the end.                   *)
LEMMA ItemDone ==
    ASSUME TInv, TInv', Traces, QInv, CInv, NEW v \in Videos, OnItemComplete(v),
           NEW k, k = Head(calls).k, Head(calls).hr = "S_OK", k \notin item[v].completed,
           retry' = retry,
           item'[v].flags = item[v].flags, item'[v].missing = item[v].missing,
           item'[v].timed = item[v].timed \cup {k},
           item'[v].completed = item[v].completed \cup {k},
           NEW c \in CallSet, Then(<<c>>), c.v = v, c.hr = "S_OK",
           \/ c.do = "QueueNextDownloadItem" /\ item[v].cur < ClipCount[v]
           \/ c.do = "OnDownloadComplete" /\ ~(item[v].cur < ClipCount[v])
    PROVE  COf(v)'
<1>1. /\ v \in listed /\ ~Erasing(v) /\ COf(v)
      /\ k \in Clips(v) /\ k <= item[v].cur /\ item[v].cur > 0
      /\ ~Is(v, "QUEUED") /\ ~Asked(v) /\ ~Is(v, "FORCE")
      /\ ~IsStream(v) /\ ~Started(v) => ~Is(v, "PAUSED")
      /\ Handled(v, k)
      /\ \A j \in Clips(v) : j <= item[v].cur /\ j \in item[v].timed =>
            j \in item[v].completed \/ j = k
      /\ ~Is(v, "STOPPED")
  BY AtItemComplete
<1>2. /\ item'[v].cur = item[v].cur /\ item'[v].clips = item[v].clips
      /\ item'[v].type = item[v].type /\ item'[v].handle = item[v].handle
      /\ UNCHANGED <<listed, active, queue, alerts, pairs, world>>
      /\ Doing("OnItemComplete", v)
  BY ItemCompleteHow
<1>3. /\ calls' # <<>> /\ Head(calls') = c
      /\ \A d \in Range(calls') : d.v = v => d = c \/ (d \in Range(calls) /\ Rests(d))
  BY <1>2, LeftToDo
<1>4. /\ \A flag : Is(v, flag)' <=> Is(v, flag)
      /\ IsStream(v)' <=> IsStream(v)
      /\ Traced(v)' <=> Traced(v)
      /\ Started(v)' <=> Started(v)
      /\ Steady(v)' <=> Steady(v)
  BY <1>2 DEF Is, IsStream, Traced, Started, Steady, Without
<1>5. /\ Clips(v) \subseteq Nat \ {0} /\ retry[v] \in Nat /\ item[v].cur \in Nat
      /\ item[v].completed \subseteq Clips(v) /\ item[v].cur <= ClipCount[v]
      /\ ClipCount[v] \in Nat /\ \A i \in Clips(v) : i <= ClipCount[v]
      /\ item[v].cur > 0 => item[v].cur \in Clips(v)
  BY <1>1, ListedIs
<1>6. Counts(v)'
  BY <1>1, <1>2, <1>4 DEF COf, Counts
<1>7. Engaged(v)'
  BY <1>1, <1>2, <1>3, <1>4 DEF COf, Engaged, OfClip
<1>8. Waits(v)'
  BY <1>1, <1>2, <1>3, <1>4 DEF Waits, Asked
<1>9. Stops(v)'
  BY <1>1, <1>4 DEF COf, Stops
<1>10. Idles(v)'
  <2>1. Moving(v)'
    BY <1>2, <1>3 DEF Moving, Doing
  <2>2. \A d \in Range(calls') : d.v = v /\ d.hr \notin {"S_OK", "E_FAIL"} => Started(v)
    BY <1>1, <1>3 DEF COf, Idles
  <2> QED BY <1>1, <1>2, <1>4, <2>1, <2>2 DEF COf, Idles
<1>11. \A j \in Clips(v) : /\ \A h : Fetched(v, j, h)' <=> Fetched(v, j, h)
                           /\ \A i : Told(v, j, i)' <=> Told(v, j, i)
                           /\ Retried(v, j)' = Retried(v, j) /\ Retried(v, j) \in Nat
                           /\ ~Handled(v, j)'
  BY <1>2, <1>3, <1>5 DEF Fetched, Told, Retried, Handled, OfClip
<1>12. Once(v)'
  <2>1. Steady(v) => k = item[v].cur
    BY <1>1 DEF COf, Once, Handed
  <2>2. ASSUME NEW j \in Clips(v), j \notin item'[v].completed
        PROVE  /\ Lone(v, j)' /\ (Handed(v, j)' => Handed(v, j))
               /\ j # k /\ j \notin item[v].completed
               /\ Handed(v, j)' => ~Steady(v) /\ j <= item[v].cur
               /\ v \notin Playlists /\ j \in item[v].missing => ~Handed(v, j)'
    <3>1. j # k /\ j \notin item[v].completed
      BY <2>2
    <3>2. /\ Lone(v, j) /\ (Handed(v, j) => j <= item[v].cur)
          /\ Handed(v, j) /\ Steady(v) => j = item[v].cur
          /\ v \notin Playlists /\ j \in item[v].missing => ~Handed(v, j)
      BY <1>1, <3>1 DEF COf, Once
    <3>3. Lone(v, j)' /\ (Handed(v, j)' => Handed(v, j))
      BY <1>11, <3>2 DEF Lone, Handed
    <3> QED BY <2>1, <3>1, <3>2, <3>3
  <2>3. v \notin Playlists =>
          /\ \A j \in Clips(v) : j < item[v].cur => j \in item[v].completed
          /\ item[v].cur \in item'[v].completed
    BY <1>1, <2>1 DEF COf, Once, Steady
  <2> QED BY <1>2, <1>4, <2>2, <2>3 DEF Once
<1>13. First(v)'
  BY <1>1, <1>2 DEF First
<1>14. Sure(v)'
  <2>1. (\A h : ~Fetched(v, k, h)) /\ (\A i : ~Told(v, k, i))
    BY <1>1 DEF COf, Once, Lone
  <2>2. /\ \A h \in DOMAIN pairs : pairs[h].v = v /\ pairs[h].at = "http" => pairs[h].k # k
        /\ \A i \in DOMAIN alerts :
              alerts[i].v = v /\ alerts[i].code = "FINISHED" => alerts[i].k # k
    BY <2>1 DEF Fetched, Told
  <2>3. ~Doing("OnItemComplete", v)'
    BY <1>3 DEF Doing
  <2> QED BY <1>1, <1>2, <2>2, <2>3 DEF COf, Sure, Without
<1>15. Ends(v)'
  <2>1. ASSUME c.do = "OnDownloadComplete", v \notin Playlists
        PROVE  Clips(v) \subseteq item'[v].timed
    <3>1. k = item[v].cur /\ item[v].cur = ClipCount[v]
      BY <1>1, <1>5, <2>1 DEF COf, Once, Handed, Steady
    <3>2. \A j \in Clips(v) : j < item[v].cur => j \in item[v].timed
      BY <1>1, <2>1 DEF COf, Once, Counts
    <3> QED BY <1>5, <3>1, <3>2
  <2>2. Doing("OnDownloadComplete", v)' => c.do = "OnDownloadComplete"
    BY <1>3 DEF Doing
  <2>3. c.do = "OnDownloadComplete" => item[v].cur = ClipCount[v]
    BY <1>5
  <2>4. \A d \in Range(calls') :
           d.v = v /\ d.do \in {"QueueDownloadItem", "AddClip"} => d \in Range(calls)
    BY <1>3
  <2> QED BY <1>1, <1>2, <1>4, <2>1, <2>2, <2>3, <2>4 DEF COf, Ends
<1> QED BY <1>6, <1>7, <1>8, <1>9, <1>10, <1>12, <1>13, <1>14, <1>15 DEF COf


(* A clip of a playlist failed: on to the next one.                          *)
LEMMA ItemSkipped ==
    ASSUME TInv, TInv', Traces, QInv, CInv, NEW v \in Videos, OnItemComplete(v),
           Head(calls).hr # "S_OK", ~Is(v, "STOPPED"), v \in Playlists,
           item' = item, retry' = retry,
           NEW c \in CallSet, Then(<<c>>), c.v = v, c.do = "QueueNextDownloadItem", c.hr = "S_OK"
    PROVE  COf(v)'
<1> DEFINE k == Head(calls).k
<1>1. /\ v \in listed /\ ~Erasing(v) /\ COf(v)
      /\ k \in Clips(v) /\ k <= item[v].cur /\ item[v].cur > 0
      /\ ~Is(v, "QUEUED") /\ ~Asked(v) /\ ~Is(v, "FORCE")
      /\ ~IsStream(v) /\ ~Started(v) => ~Is(v, "PAUSED")
      /\ Handled(v, k) /\ ~IsStream(v) /\ ~Moving(v)
      /\ \A j \in Clips(v) : j <= item[v].cur /\ j \in item[v].timed => j \in item[v].completed
  BY AtItemComplete
<1>2. UNCHANGED <<listed, alerts, pairs, world>> /\ Doing("OnItemComplete", v)
  BY ItemCompleteHow
<1>3. /\ calls' # <<>> /\ Head(calls') = c
      /\ \A d \in Range(calls') : d.v = v => d = c \/ (d \in Range(calls) /\ Rests(d))
  BY <1>2, LeftToDo
<1>4. /\ \A flag : Is(v, flag)' <=> Is(v, flag)
      /\ IsStream(v)' <=> IsStream(v)
      /\ Traced(v)' <=> Traced(v)
      /\ Started(v)' <=> Started(v)
      /\ Steady(v)' <=> Steady(v)
      /\ May("refuse")' <=> May("refuse")
  BY <1>2 DEF Is, IsStream, Traced, Started, Steady, Without, May
<1>5. Clips(v) \subseteq Nat \ {0} /\ retry[v] \in Nat /\ item[v].cur \in Nat
  BY <1>1, ListedIs
<1>6. Counts(v)'
  BY <1>1, <1>2, <1>4 DEF COf, Counts
<1>7. Engaged(v)'
  BY <1>1, <1>2, <1>3, <1>4 DEF COf, Engaged, OfClip
<1>8. Waits(v)' /\ Stops(v)'
  BY <1>1, <1>3, <1>4 DEF COf, Waits, Asked, Stops
<1>9. Idles(v)'
  <2>1. \A d \in Range(calls') : d.v = v /\ d.hr \notin {"S_OK", "E_FAIL"} => Started(v)
    BY <1>1, <1>3 DEF COf, Idles
  <2> QED BY <1>1, <1>2, <1>4, <2>1 DEF COf, Idles
<1>10. \A j \in Clips(v) : /\ \A h : Fetched(v, j, h)' <=> Fetched(v, j, h)
                           /\ \A i : Told(v, j, i)' <=> Told(v, j, i)
                           /\ Retried(v, j)' = Retried(v, j) /\ Retried(v, j) \in Nat
                           /\ ~Handled(v, j)'
  BY <1>2, <1>3, <1>5 DEF Fetched, Told, Retried, Handled, OfClip
<1>11. Once(v)'
  <2>1. Steady(v) => k \notin item[v].completed /\ k = item[v].cur
    <3>1. Steady(v) => k \notin item[v].completed
      BY <1>1, <1>2 DEF COf, Sure, Steady
    <3> QED BY <1>1, <3>1 DEF COf, Once, Handed
  <2>2. ASSUME NEW j \in Clips(v), j \notin item[v].completed
        PROVE  /\ Lone(v, j)' /\ (Handed(v, j)' => Handed(v, j))
               /\ Handed(v, j)' => ~Steady(v)
    <3>1. Lone(v, j) /\ (Handed(v, j) /\ Steady(v) => j = item[v].cur)
      BY <1>1, <2>2 DEF COf, Once
    <3>2. Lone(v, j)' /\ (Handed(v, j)' => Handed(v, j))
      BY <1>10, <3>1 DEF Lone, Handed
    <3>3. j = k => ~Handed(v, j)'
      BY <1>1, <1>10, <3>1 DEF Lone, Handed
    <3> QED BY <2>1, <3>1, <3>2, <3>3
  <2> QED BY <1>1, <1>4, <2>2 DEF COf, Once
<1>12. First(v)'
  BY <1>1 DEF First
<1>13. Sure(v)'
  BY <1>1, <1>2, <1>3 DEF COf, Sure, Without, Doing
<1>14. Ends(v)'
  BY <1>1, <1>3, <1>4 DEF COf, Ends, Doing
<1> QED BY <1>6, <1>7, <1>8, <1>9, <1>11, <1>12, <1>13, <1>14 DEF COf

(* Any other clip failed: it is retried, missing, or given up.               *)
LEMMA ItemFailed ==
    ASSUME TInv, TInv', Traces, QInv, CInv, NEW v \in Videos, OnItemComplete(v),
           Head(calls).hr # "S_OK", ~Is(v, "STOPPED"), v \notin Playlists, Then(<<>>),
           item'[v].flags = item[v].flags \cup {"ERR_NETWORK"},
           item'[v].timed = item[v].timed, item'[v].completed = item[v].completed,
           item'[v].missing = IF Head(calls).hr = "E_HTTP_NOTFOUND"
                              THEN item[v].missing \cup {Head(calls).k} ELSE item[v].missing,
           retry'[v] = IF Head(calls).hr = "E_HTTP_NET_ERROR" THEN retry[v] + 1 ELSE retry[v]
    PROVE  COf(v)'
<1> DEFINE k == Head(calls).k
<1>1. /\ v \in listed /\ ~Erasing(v) /\ COf(v)
      /\ k \in Clips(v) /\ k <= item[v].cur /\ item[v].cur > 0
      /\ ~Is(v, "QUEUED") /\ ~Asked(v) /\ ~Is(v, "FORCE")
      /\ ~IsStream(v) /\ ~Started(v) => ~Is(v, "PAUSED")
      /\ Handled(v, k) /\ ~IsStream(v) /\ ~Moving(v)
      /\ \A j \in Clips(v) : j <= item[v].cur /\ j \in item[v].timed => j \in item[v].completed
      /\ Head(calls).hr \notin {"S_OK", "E_FAIL"} => Traced(v) /\ Started(v)
  BY AtItemComplete
<1>2. /\ item'[v].cur = item[v].cur /\ item'[v].clips = item[v].clips
      /\ item'[v].type = item[v].type /\ item'[v].handle = item[v].handle
      /\ UNCHANGED <<listed, active, queue, alerts, pairs, world>>
      /\ Doing("OnItemComplete", v)
  BY ItemCompleteHow
<1>3. /\ \A d \in Range(calls') : d.v = v => d \in Range(calls) /\ Rests(d)
      /\ calls' # <<>> /\ Head(calls').v = v => Rests(Head(calls'))
  BY <1>2, LeftToDo
<1>4. /\ \A flag \in Flags \ {"ERR_NETWORK"} : Is(v, flag)' <=> Is(v, flag)
      /\ IsStream(v)' <=> IsStream(v)
      /\ Traced(v)' <=> Traced(v)
      /\ Steady(v)' <=> Steady(v)
      /\ May("refuse")' <=> May("refuse")
  BY <1>2 DEF Is, IsStream, Traced, Steady, Without, May
<1>5. /\ Is(v, "ACTIVE")' <=> Is(v, "ACTIVE")
      /\ Is(v, "FINISHED")' <=> Is(v, "FINISHED")
      /\ Is(v, "STOPPED")' <=> Is(v, "STOPPED")
      /\ Is(v, "DELETED")' <=> Is(v, "DELETED")
      /\ Is(v, "QUEUED")' <=> Is(v, "QUEUED")
      /\ Is(v, "FORCE")' <=> Is(v, "FORCE")
      /\ Is(v, "PAUSED")' <=> Is(v, "PAUSED")
      /\ Started(v)' <=> Started(v)
  BY <1>4 DEF Flags, Started
<1>6. Clips(v) \subseteq Nat \ {0} /\ retry[v] \in Nat /\ item[v].cur \in Nat
      /\ 1 \in Clips(v)
  BY <1>1, ListedIs
<1>7. \A f \in {"QueueNextDownloadItem", "QueueDownloadItem", "OnItemComplete",
                "OnDownloadComplete", "QueueDownload"} : ~Doing(f, v)'
  BY <1>3 DEF Doing, Rests
<1>8. Counts(v)'
  BY <1>1, <1>2, <1>4 DEF COf, Counts
<1>9. Engaged(v)'
  BY <1>1, <1>2, <1>3, <1>4, <1>5 DEF COf, Engaged, Rests
<1>10. Waits(v)' /\ Stops(v)'
  BY <1>1, <1>2, <1>5, <1>7 DEF COf, Waits, Stops, Asked, Doing
<1>11. Idles(v)'
  BY <1>1, <1>2, <1>3, <1>4, <1>5 DEF COf, Idles
<1>12. \A j \in Clips(v) : /\ \A h : Fetched(v, j, h)' <=> Fetched(v, j, h)
                           /\ \A i : Told(v, j, i)' <=> Told(v, j, i)
                           /\ ~Handled(v, j)'
  BY <1>2, <1>3 DEF Fetched, Told, Handled, Rests, OfClip
<1>13. Once(v)'
  <2>0. Steady(v)
    BY DEF Steady
  <2>1. ASSUME NEW j \in Clips(v), j \notin item[v].completed
        PROVE  /\ Lone(v, j)' /\ (Handed(v, j)' => Handed(v, j))
               /\ j \in item'[v].missing => ~Handed(v, j)'
    <3>1. /\ Lone(v, j) /\ (Handed(v, j) => j = item[v].cur)
          /\ j \in item[v].missing => ~Handed(v, j)
      BY <1>1, <2>0, <2>1 DEF COf, Once
    <3>2. CASE Retried(v, j)' = Retried(v, j)
      <4>1. Lone(v, j)' /\ (Handed(v, j)' => Handed(v, j))
        BY <1>12, <3>1, <3>2 DEF Lone, Handed
      <4>2. j = k => ~Handed(v, j)'
        BY <1>1, <1>12, <3>1, <3>2 DEF Lone, Handed
      <4>3. j \in item'[v].missing => j \in item[v].missing \/ j = k
        OBVIOUS
      <4> QED BY <3>1, <4>1, <4>2, <4>3
    <3>3. CASE Retried(v, j)' # Retried(v, j)
      <4>1. j = 1 /\ retry'[v] = retry[v] + 1 /\ item'[v].missing = item[v].missing
        BY <3>3 DEF Retried
      <4>2. k = 1
        <5>1. ~(1 < item[v].cur)
          BY <1>1, <1>6, <2>1, <4>1 DEF COf, Once
        <5> QED BY <1>1, <1>6, <5>1
      <4>3. /\ \A h : ~Fetched(v, j, h)
            /\ \A i : ~Told(v, j, i)
            /\ ~(Retried(v, j) > 0)
            /\ Handed(v, j)
        BY <1>1, <3>1, <4>1, <4>2 DEF Lone, Handed
      <4>4. Retried(v, j)' = 1
        BY <1>6, <4>1, <4>3 DEF Retried
      <4> QED BY <1>12, <3>1, <4>1, <4>3, <4>4 DEF Lone
    <3> QED BY <3>2, <3>3
  <2>2. ASSUME NEW j \in Clips(v), j \notin item[v].completed
        PROVE  /\ Handed(v, j) => j <= item[v].cur
               /\ Handed(v, j) => j = item[v].cur
    BY <1>1, <2>0, <2>2 DEF COf, Once
  <2>3. \A j \in Clips(v) : j < item[v].cur => j \in item[v].completed
    BY <1>1 DEF COf, Once
  <2> QED BY <1>2, <1>7, <2>1, <2>2, <2>3 DEF Once
<1>14. First(v)'
  BY <1>1, <1>2 DEF First
<1>15. Sure(v)'
  BY <1>1, <1>2, <1>7 DEF COf, Sure, Without
<1>16. Ends(v)'
  BY <1>1, <1>2, <1>3, <1>4, <1>5, <1>7 DEF COf, Ends
<1> QED BY <1>8, <1>9, <1>10, <1>11, <1>13, <1>14, <1>15, <1>16 DEF COf

LEMMA ItemCompleteC ==
    ASSUME TInv, TInv', Traces, QInv, CInv, NEW v \in Videos, OnItemComplete(v)
    PROVE  CInv'
<1> DEFINE k    == Head(calls).k
           next == Call("QueueNextDownloadItem", v)
           end  == Call("OnDownloadComplete", v)
<1>1. /\ next \in CallSet /\ next.v = v /\ next.do = "QueueNextDownloadItem" /\ next.hr = "S_OK"
      /\ end \in CallSet /\ end.v = v /\ end.do = "OnDownloadComplete" /\ end.hr = "S_OK"
      /\ next \in NextCalls(v) /\ end \in NextCalls(v)
  <2>1. next \in CallSet /\ end \in CallSet
    BY CallsTyped DEF OfVideo
  <2> QED BY <2>1 DEF Call, NextCalls, AtWork
<1>2. /\ UNCHANGED <<listed, alerts, pairs, world>>
      /\ \A w \in Videos : w # v => item'[w] = item[w] /\ retry'[w] = retry[w]
      /\ Doing("OnItemComplete", v) /\ "OnItemComplete" # "EraseDownload"
  BY ItemCompleteHow, ItemCompleteDoes
<1> HIDE DEF next, end
<1>3. COf(v)' /\ (Then(<<>>) \/ Then(<<next>>) \/ Then(<<end>>))
      /\ item[v].timed \subseteq item'[v].timed
      /\ (retry'[v] > 0 => retry[v] > 0 \/ v \notin Playlists)
  <2>1. CASE /\ Head(calls).hr = "S_OK"
             /\ item'[v].flags = item[v].flags /\ item'[v].missing = item[v].missing
             /\ item'[v].timed = item[v].timed \cup {k}
             /\ item'[v].completed = item[v].completed \cup {k}
             /\ Then(IF k \in item[v].completed THEN <<>> ELSE Onward(v))
             /\ retry' = retry
    <3>1. COf(v) /\ v \in listed
      BY AtItemComplete
    <3>2. CASE k \in item[v].completed
      <4>1. k \in item[v].timed
        BY <3>1, <3>2 DEF COf, Counts
      <4>2. Then(<<>>) /\ item'[v].timed = item[v].timed /\ item'[v].completed = item[v].completed
        BY <2>1, <3>2, <4>1
      <4> QED BY <2>1, <3>2, <4>2, ItemIgnored
    <3>3. CASE k \notin item[v].completed /\ item[v].cur < ClipCount[v]
      <4>1. Then(<<next>>)
        BY <2>1, <3>3 DEF Onward, next
      <4>2. COf(v)'
        BY <1>1, <2>1, <3>3, <4>1, ItemDone
      <4> QED BY <2>1, <4>1, <4>2
    <3>4. CASE k \notin item[v].completed /\ ~(item[v].cur < ClipCount[v])
      <4>1. Then(<<end>>)
        BY <2>1, <3>4 DEF Onward, end
      <4>2. COf(v)'
        BY <1>1, <2>1, <3>4, <4>1, ItemDone
      <4> QED BY <2>1, <4>1, <4>2
    <3> QED BY <3>2, <3>3, <3>4
  <2>2. CASE /\ Head(calls).hr # "S_OK" /\ Is(v, "STOPPED")
             /\ item' = item /\ retry' = retry /\ Then(<<>>)
    BY <2>2, ItemIgnored
  <2>3. CASE /\ Head(calls).hr # "S_OK" /\ ~Is(v, "STOPPED") /\ v \in Playlists
             /\ item' = item /\ retry' = retry /\ Then(<<Call("QueueNextDownloadItem", v)>>)
    <3>1. Then(<<next>>)
      BY <2>3 DEF next
    <3>2. COf(v)'
      BY <1>1, <2>3, <3>1, ItemSkipped
    <3> QED BY <2>3, <3>1, <3>2
  <2>4. CASE /\ Head(calls).hr # "S_OK" /\ ~Is(v, "STOPPED") /\ v \notin Playlists
             /\ item'[v].flags = item[v].flags \cup {"ERR_NETWORK"}
             /\ item'[v].timed = item[v].timed /\ item'[v].completed = item[v].completed
             /\ item'[v].missing = IF Head(calls).hr = "E_HTTP_NOTFOUND"
                                   THEN item[v].missing \cup {k} ELSE item[v].missing
             /\ Then(<<>>)
             /\ retry'[v] = IF Head(calls).hr = "E_HTTP_NET_ERROR" THEN retry[v] + 1
                            ELSE retry[v]
    <3>1. COf(v)'
      BY <2>4, ItemFailed
    <3> QED BY <2>4, <3>1
  <2> QED BY <2>1, <2>2, <2>3, <2>4, ItemCompleteHow
<1>4. Owned' /\ \A w \in Videos : w # v => Passed(w)
  <2>1. /\ listed' = IF "OnItemComplete" = "EraseDownload" THEN listed \ {v} ELSE listed
        /\ \A w \in Videos : w # v => item'[w] = item[w]
        /\ item[v].timed \subseteq item'[v].timed
    BY <1>2, <1>3
  <2>2. Then(<<>>) \/ \E c \in NextCalls(v) : Then(<<c>>)
    BY <1>1, <1>3
  <2> QED BY <1>2, <2>1, <2>2, WorkOn
<1> QED BY <1>2, <1>3, <1>4, BodyC


(* A download is finished, and its slot goes to the head of the queue.       *)
LEMMA CompleteC ==
    ASSUME TInv, TInv', QInv, CInv, NEW v \in Videos, OnDownloadComplete(v)
    PROVE  CInv'
<1>1. Doing("OnDownloadComplete", v) /\ "OnDownloadComplete" \in AtWork
      /\ "OnDownloadComplete" # "EraseDownload"
  BY DEF OnDownloadComplete, AtWork
<1>2. /\ UNCHANGED <<listed, alerts, retry, pairs, world>>
      /\ Reflagged(v, (item[v].flags \ {"ACTIVE"}) \cup {"FINISHED"})
      /\ Then(<<>>) \/ (queue # <<>> /\ Then(<<Call("QueueDownload", Head(queue))>>))
  BY CompleteDoes
<1>3. ASSUME queue # <<>>
      PROVE  /\ Call("QueueDownload", Head(queue)) \in NextCalls(v)
             /\ Head(queue) # v
  <2>1. Head(queue) \in Range(queue) /\ Head(queue) \in Videos
    BY <1>3, HeadAndTail DEF TInv
  <2>2. Call("QueueDownload", Head(queue)) \in CallSet
    BY <2>1, CallsTyped DEF OfVideo
  <2>3. /\ Head(queue) \in listed /\ Is(Head(queue), "QUEUED") /\ ~Erasing(Head(queue))
    BY <2>1 DEF QInv, QOf
  <2>4. Head(queue) # v
    BY <1>1, <2>1, NotWaiting
  <2> QED BY <2>2, <2>3, <2>4, CallFields DEF NextCalls
<1>4. Owned' /\ \A w \in Videos : w # v => Passed(w)
  <2>1. /\ listed' = IF "OnDownloadComplete" = "EraseDownload" THEN listed \ {v} ELSE listed
        /\ \A w \in Videos : w # v => item'[w] = item[w]
        /\ item[v].timed \subseteq item'[v].timed
    BY <1>1, <1>2 DEF Reflagged
  <2>2. Then(<<>>) \/ \E c \in NextCalls(v) : Then(<<c>>)
    BY <1>2, <1>3
  <2> QED BY <1>1, <2>1, <2>2, WorkOn
<1>5. /\ v \in listed /\ ~Erasing(v)
      /\ \A d \in Range(calls') : d.v = v => d \in Range(calls) /\ Rests(d)
      /\ calls' # <<>> /\ Head(calls').v = v => Rests(Head(calls'))
  <2>1. v \in listed /\ ~Erasing(v)
    BY <1>1, LeftToDo
  <2>2. CASE Then(<<>>)
    BY <1>1, <2>1, <2>2, LeftToDo
  <2>3. CASE queue # <<>> /\ Then(<<Call("QueueDownload", Head(queue))>>)
    <3> DEFINE c == Call("QueueDownload", Head(queue))
    <3>1. c \in CallSet /\ c.v # v /\ Then(<<c>>)
      BY <1>3, <2>3, CallFields DEF NextCalls
    <3> HIDE DEF c
    <3> QED BY <1>1, <2>1, <3>1, LeftToDo
  <2> QED BY <1>2, <2>2, <2>3
<1>6. /\ COf(v) /\ retry[v] \in Nat
      /\ \A i \in Clips(v) : i <= ClipCount[v]
      /\ Clips(v) \subseteq Nat \ {0} /\ ClipCount[v] \in Nat
  BY <1>5, ListedIs
<1>7. /\ Head(calls) \in Range(calls) /\ Head(calls).v = v
      /\ Head(calls).do = "OnDownloadComplete" /\ calls # <<>>
  BY <1>1, DoingIs
<1>8. /\ item[v].cur > 0 /\ item[v].cur = ClipCount[v]
      /\ v \notin Playlists => Clips(v) \subseteq item[v].timed
      /\ ~Is(v, "STOPPED") /\ ~Is(v, "QUEUED") /\ ~Is(v, "FORCE")
      /\ \A j \in Clips(v) : j <= item[v].cur /\ j \in item[v].timed => j \in item[v].completed
  <2>1. item[v].cur > 0 /\ ~Is(v, "STOPPED")
    BY <1>5, <1>6, <1>7 DEF COf, Engaged, Stops, OfClip
  <2>2. ~Is(v, "QUEUED") /\ ~Asked(v)
    BY <1>1, <1>5, NotWaiting DEF Asked, Doing
  <2> QED BY <1>1, <1>6, <1>7, <2>1, <2>2 DEF COf, Waits, Ends, First, Doing
<1>9. /\ item'[v].cur = item[v].cur /\ item'[v].clips = item[v].clips
      /\ item'[v].completed = item[v].completed /\ item'[v].timed = item[v].timed
      /\ item'[v].missing = item[v].missing /\ item'[v].type = item[v].type
      /\ item'[v].handle = item[v].handle
      /\ Is(v, "FINISHED")' /\ ~Is(v, "ACTIVE")' /\ Started(v)'
      /\ \A flag : flag \notin {"ACTIVE", "FINISHED"} => (Is(v, flag)' <=> Is(v, flag))
      /\ IsStream(v)' <=> IsStream(v)
      /\ Traced(v)' <=> Traced(v)
  BY <1>2 DEF Reflagged, Is, IsStream, Started, Traced
<1>10. /\ \A f \in {"QueueNextDownloadItem", "QueueDownloadItem", "OnItemComplete",
                    "OnDownloadComplete", "QueueDownload"} : ~Doing(f, v)'
       /\ \A k : ~Handled(v, k)'
  BY <1>5, <1>9 DEF Doing, Rests, Handled, OfClip
<1>11. Counts(v)' /\ Engaged(v)'
  BY <1>5, <1>6, <1>8, <1>9 DEF COf, Counts, Engaged, Rests
<1>12. Waits(v)' /\ Stops(v)'
  BY <1>6, <1>8, <1>9, <1>10 DEF COf, Waits, Stops, Asked, Doing
<1>13. Idles(v)'
  BY <1>9 DEF Idles
<1>14. Once(v)'
  <2> SUFFICES ASSUME NEW k \in Clips(v), k \notin item[v].completed
               PROVE  Lone(v, k)' /\ (Handed(v, k)' => Handed(v, k))
    BY <1>2, <1>6, <1>9, <1>10, OnceKept DEF COf
  <2>1. /\ \A h : Fetched(v, k, h)' => Fetched(v, k, h)
        /\ \A i : Told(v, k, i)' => Told(v, k, i)
        /\ Retried(v, k)' = Retried(v, k) /\ Retried(v, k) \in Nat
        /\ Lone(v, k)
    BY <1>2, <1>6 DEF Fetched, Told, Retried, COf, Once
  <2> QED BY <1>10, <2>1, FewerHands
<1>15. First(v)'
  BY <1>8, <1>9 DEF First
<1>16. Sure(v)'
  BY <1>2, <1>6, <1>9, <1>10 DEF COf, Sure, Without
<1>17. Ends(v)'
  BY <1>5, <1>6, <1>8, <1>9, <1>10 DEF Ends, Rests
<1>18. COf(v)'
  BY <1>11, <1>12, <1>13, <1>14, <1>15, <1>16, <1>17 DEF COf
<1>19. \A w \in Videos : w # v => item'[w] = item[w]
  BY <1>2 DEF Reflagged
<1> QED BY <1>2, <1>4, <1>18, <1>19, BodyC

LEMMA EraseC ==
    ASSUME TInv, TInv', QInv, CInv, NEW v \in Videos, EraseDownload(v)
    PROVE  CInv'
<1>1. Doing("EraseDownload", v)
  BY DEF EraseDownload
<1>2. /\ UNCHANGED <<alerts, retry, pairs, world>> /\ listed' = listed \ {v}
      /\ \A w \in Videos : w # v => item'[w] = item[w]
      /\ Then(<<>>)
  BY EraseDoes
<1>3. Owned' /\ \A w \in Videos : w # v => Passed(w)
  <2>1. /\ listed' = IF "EraseDownload" = "EraseDownload" THEN listed \ {v} ELSE listed
        /\ ~("EraseDownload" # "EraseDownload")
    BY <1>2
  <2> QED BY <1>1, <1>2, <2>1, WorkOn
<1> QED BY <1>2, <1>3, BodyC

LEMMA CountC ==
    ASSUME TInv, CInv, NEW v \in Videos, CountTorrentFound(v)
    PROVE  FALSE
<1>1. Head(calls) \in Range(calls) /\ Head(calls).do = "CountTorrentFound"
  BY DoingIs DEF CountTorrentFound
<1> QED BY <1>1 DEF CInv, Owned


(* A pause and its end only change what the pairs of the download are told.  *)
LEMMA PairsStay ==
    ASSUME TInv, NEW b \in BOOLEAN, NEW H,
           pairs' = [h \in DOMAIN pairs |->
                        IF h \in H THEN [pairs[h] EXCEPT !.paused = b] ELSE pairs[h]]
    PROVE  /\ SamePairs
           /\ DOMAIN pairs' = DOMAIN pairs
           /\ \A h \in DOMAIN pairs : /\ pairs'[h].at = pairs[h].at
                                      /\ h \notin H => pairs'[h] = pairs[h]
                                      /\ pairs'[h].paused = IF h \in H THEN b ELSE pairs[h].paused
<1>1. SamePairs
  BY PausedPairs DEF TInv
<1>2. DOMAIN pairs = 1..Len(pairs) /\ \A h \in DOMAIN pairs : pairs[h] \in PairSet
  BY SeqEntries, ElementOfSeq DEF TInv
<1>3. \A h \in DOMAIN pairs : /\ pairs'[h].at = pairs[h].at
                              /\ h \notin H => pairs'[h] = pairs[h]
                              /\ pairs'[h].paused = IF h \in H THEN b ELSE pairs[h].paused
  BY <1>2 DEF PairSet
<1> QED BY <1>1, <1>3

LEMMA HandlesOwn ==
    ASSUME TInv, NEW v \in Videos, NEW h \in HandlesOf(v)
    PROVE  h \in DOMAIN pairs /\ pairs[h].v = v
BY SeqEntries DEF HandlesOf, TInv, HandlesTyped

LEMMA ResumeHow ==
    ASSUME TInv, NEW v \in Videos, ResumeStep(v)
    PROVE  /\ Doing("Resume", v) /\ UNCHANGED <<listed, queue, alerts, retry, world>>
           /\ \A w \in Videos : w # v => item'[w] = item[w]
           /\ item'[v].cur = item[v].cur /\ item'[v].clips = item[v].clips
           /\ item'[v].completed = item[v].completed /\ item'[v].timed = item[v].timed
           /\ item'[v].missing = item[v].missing /\ item'[v].type = item[v].type
           /\ item'[v].handle = item[v].handle
           /\ \/ /\ Is(v, "QUEUED") /\ item' = item /\ pairs' = pairs /\ active' = active
                 /\ Then(<<>>)
              \/ /\ ~Is(v, "QUEUED") /\ Restarted(v) /\ pairs' = pairs /\ active' = active + 1
                 /\ item'[v].flags = item[v].flags \ {"PAUSED"}
                 /\ Then(<<Call("QueueNextDownloadItem", v)>>)
              \/ /\ ~Is(v, "QUEUED") /\ ~Restarted(v) /\ pairs' = Switched(v, FALSE)
                 /\ active' = active
                 /\ item'[v].flags = item[v].flags \ {"PAUSED"}
                 /\ Then(<<>>)
<1> DEFINE F == item[v].flags \ {"PAUSED"}
<1>1. /\ Doing("Resume", v) /\ UNCHANGED <<listed, queue, alerts, retry, world>>
      /\ ItemsTyped /\ F \in SUBSET Flags
  BY DEF ResumeStep, TInv, ItemsTyped, ItemsOf
<1>2. CASE Is(v, "QUEUED") /\ item' = item /\ pairs' = pairs /\ active' = active /\ Then(<<>>)
  BY <1>1, <1>2
<1>3. CASE /\ ~Is(v, "QUEUED") /\ Restarted(v) /\ pairs' = pairs /\ active' = active + 1
           /\ item' = [item EXCEPT ![v].flags = F]
           /\ Then(<<Call("QueueNextDownloadItem", v)>>)
  <2>1. Reflagged(v, F)
    BY <1>1, <1>3, FlagsChange
  <2> QED BY <1>1, <1>3, <2>1 DEF Reflagged
<1>4. CASE /\ ~Is(v, "QUEUED") /\ ~Restarted(v) /\ pairs' = Switched(v, FALSE)
           /\ active' = active
           /\ item' = [item EXCEPT ![v].flags = F, ![v].error = FALSE]
           /\ Then(<<>>)
  <2>1. Reflagged(v, F)
    BY <1>1, <1>4, FlagsChange
  <2> QED BY <1>1, <1>4, <2>1 DEF Reflagged
<1> QED BY <1>2, <1>3, <1>4 DEF ResumeStep, Resume

(* The end of a pause: a download without a clip gets its slot.              *)
LEMMA ResumeC ==
    ASSUME TInv, TInv', Traces', QInv, CInv, NEW v \in Videos, ResumeStep(v)
    PROVE  CInv'
<1> DEFINE goon == Call("QueueNextDownloadItem", v)
<1>1. Doing("Resume", v) /\ "Resume" # "EraseDownload"
  BY ResumeHow
<1>2. goon \in CallSet /\ goon.v = v /\ goon.do = "QueueNextDownloadItem"
      /\ goon \in NextCalls(v)
  BY CallsTyped, CallFields DEF OfVideo, NextCalls, AtWork
<1>3. /\ UNCHANGED <<listed, alerts, retry, world>>
      /\ \A w \in Videos : w # v => item'[w] = item[w]
      /\ item'[v].cur = item[v].cur /\ item'[v].clips = item[v].clips
      /\ item'[v].completed = item[v].completed /\ item'[v].timed = item[v].timed
      /\ item'[v].missing = item[v].missing /\ item'[v].type = item[v].type
      /\ item'[v].handle = item[v].handle
      /\ Then(<<>>) \/ Then(<<goon>>)
  BY ResumeHow
<1> HIDE DEF goon
<1>4. Owned' /\ (\A w \in Videos : w # v => Passed(w)) /\ ~Erasing(v)'
  <2>1. /\ listed' = IF "Resume" = "EraseDownload" THEN listed \ {v} ELSE listed
        /\ item[v].timed \subseteq item'[v].timed
    BY <1>3
  <2>2. Then(<<>>) \/ \E c \in NextCalls(v) : Then(<<c>>)
    BY <1>2, <1>3
  <2> QED BY <1>1, <1>3, <2>1, <2>2, WorkOn
<1>5. /\ v \in listed /\ ~Erasing(v)
      /\ Then(<<>>) =>
            /\ \A d \in Range(calls') : d.v = v => d \in Range(calls) /\ Rests(d)
            /\ calls' # <<>> /\ Head(calls').v = v => Rests(Head(calls'))
      /\ Then(<<goon>>) =>
            /\ calls' # <<>> /\ Head(calls') = goon
            /\ \A d \in Range(calls') : d.v = v => d = goon \/ (d \in Range(calls) /\ Rests(d))
  BY <1>1, <1>2, LeftToDo
<1>6. COf(v) /\ item[v].cur \in Nat
  BY <1>5, ListedIs
<1>7. ~Asked(v) /\ (\A f : f # "Resume" => ~Doing(f, v)) /\ ~Moving(v)
  BY <1>1 DEF Asked, Doing, Moving
<1>8. /\ IsStream(v) => Is(v, "FINISHED")
      /\ \A j \in Clips(v) : j <= item[v].cur /\ j \in item[v].timed => j \in item[v].completed
      /\ ~Started(v) /\ ~IsStream(v) /\ Is(v, "PAUSED") => item[v].cur = 0
      /\ Is(v, "ACTIVE") => item[v].cur > 0
  BY <1>6, <1>7 DEF COf, Idles, First, Engaged
<1>9. ASSUME Then(<<>>), pairs' = pairs \/ pairs' = Switched(v, FALSE),
             item'[v].flags \in {item[v].flags, item[v].flags \ {"PAUSED"}},
             ~Is(v, "QUEUED") /\ item'[v].flags # item[v].flags => ~Restarted(v),
             Is(v, "QUEUED") => item'[v].flags = item[v].flags
      PROVE  CInv'
  <2>1. \A flag \in Flags \ {"PAUSED"} : Is(v, flag)' <=> Is(v, flag)
    BY <1>9 DEF Is
  <2>2. Is(v, "PAUSED")' => Is(v, "PAUSED")
    BY <1>9 DEF Is
  <2>3. SamePairs /\ \A h \in DOMAIN pairs' : pairs'[h].at = pairs[h].at
    BY <1>9, PairsAsTheyAre, PairsStay DEF Switched
  <2>4. Waits(v)'
    <3>1. IsStream(v)' <=> IsStream(v)
      BY <1>3 DEF IsStream
    <3>2. ~Asked(v)' /\ ~Doing("QueueNextDownloadItem", v)'
      BY <1>5, <1>9 DEF Asked, Doing, Rests
    <3>3. item[v].cur = 0 => item'[v].flags \cap {"QUEUED", "PAUSED", "FINISHED"} # {}
      <4>1. CASE item'[v].flags = item[v].flags
        BY <1>6, <1>7, <4>1 DEF COf, Waits
      <4>2. CASE item'[v].flags # item[v].flags
        <5>1. item'[v].flags = item[v].flags \ {"PAUSED"} /\ "PAUSED" \in item[v].flags
          BY <1>9, <4>2
        <5>2. "FINISHED" \in item[v].flags \/ item[v].cur > 0
          BY <1>8, <1>9, <4>2, <5>1 DEF Restarted, Is
        <5>3. item[v].cur = 0 => "FINISHED" \in item'[v].flags
          BY <1>6, <5>1, <5>2
        <5> QED BY <5>3
      <4> QED BY <4>1, <4>2
    <3>4. /\ Is(v, "QUEUED")' <=> Is(v, "QUEUED")
          /\ Is(v, "STOPPED")' <=> Is(v, "STOPPED")
          /\ Is(v, "FORCE")' <=> Is(v, "FORCE")
          /\ Is(v, "FINISHED")' <=> Is(v, "FINISHED")
      BY <2>1 DEF Flags
    <3>5. Waits(v)
      BY <1>6 DEF COf
    <3> QED BY <1>3, <1>5, <1>7, <3>1, <3>2, <3>3, <3>4, <3>5 DEF Waits
  <2>5. COf(v)'
    BY <1>3, <1>5, <1>7, <1>8, <1>9, <2>1, <2>2, <2>3, <2>4, NoMore
  <2>6. \A w \in listed : w # v => Apart(w)
    <3> SUFFICES ASSUME NEW w \in listed, w # v PROVE Apart(w)
      OBVIOUS
    <3>1. w \in Videos
      BY DEF TInv
    <3>2. SamePairsOf(w)
      <4>1. \A h \in HandlesOf(v) : pairs[h].v # w
        BY <3>1, HandlesOwn
      <4>2. CASE pairs' = pairs
        BY <4>2 DEF SamePairsOf
      <4>3. CASE pairs' = Switched(v, FALSE)
        <5>1. /\ DOMAIN pairs' = DOMAIN pairs
              /\ \A h \in DOMAIN pairs : h \notin HandlesOf(v) => pairs'[h] = pairs[h]
              /\ SamePairs
          BY <4>3, PairsStay DEF Switched
        <5>2. \A h \in DOMAIN pairs : pairs'[h].v = pairs[h].v
          BY <5>1, SeqEntries DEF SamePairs, TInv
        <5> QED BY <4>1, <5>1, <5>2 DEF SamePairsOf
      <4> QED BY <1>9, <4>2, <4>3
    <3> QED BY <1>3, <1>4, <3>1, <3>2 DEF Apart, SameAlertsOf
  <2>7. Messages'
    <3>1. \A h \in DOMAIN pairs' : h \in DOMAIN pairs
      BY <1>9, PairsStay DEF Switched
    <3> QED BY <1>3, <2>3, <3>1 DEF CInv, Messages
  <2> QED BY <1>3, <1>4, <2>5, <2>6, <2>7, Together
<1>10. CASE Is(v, "QUEUED") /\ item' = item /\ pairs' = pairs /\ Then(<<>>)
  BY <1>9, <1>10
<1>11. CASE /\ ~Is(v, "QUEUED") /\ ~Restarted(v) /\ pairs' = Switched(v, FALSE)
            /\ item'[v].flags = item[v].flags \ {"PAUSED"} /\ Then(<<>>)
  BY <1>9, <1>11
<1>12. CASE /\ ~Is(v, "QUEUED") /\ Restarted(v) /\ pairs' = pairs
            /\ item'[v].flags = item[v].flags \ {"PAUSED"} /\ Then(<<goon>>)
  <2>1. Is(v, "PAUSED") /\ ~Is(v, "FINISHED") /\ ~Is(v, "ACTIVE") /\ ~IsStream(v)
    BY <1>8, <1>12 DEF Restarted
  <2>2. item[v].cur = 0
    BY <1>8, <2>1 DEF Started
  <2>3. /\ item[v].clips = 0 /\ item[v].completed = {} /\ item[v].missing = {}
        /\ ~Traced(v)
        /\ \A c \in Range(calls) : c.v = v =>
              c.do \notin OfClip /\ c.do # "OnDownloadComplete"
    BY <1>5, <2>2, Unheard
  <2>4. /\ \A flag : Is(v, flag)' <=> Is(v, flag) /\ flag # "PAUSED"
        /\ IsStream(v)' <=> IsStream(v)
        /\ Traced(v)' <=> Traced(v)
    BY <1>3, <1>12 DEF Is, IsStream, Traced
  <2>5. /\ calls' # <<>> /\ Head(calls') = goon
        /\ Doing("QueueNextDownloadItem", v)' /\ ~Asked(v)'
        /\ Head(calls') \in Range(calls')
        /\ \A c \in Range(calls') : c.v = v => c.do \notin OfClip /\ c.do # "OnDownloadComplete"
    <3>1. calls \in Seq(CallSet) /\ calls # <<>>
      BY <1>1, DoingIs
    <3>2. Head(calls') \in Range(calls')
      BY <1>2, <1>12, <3>1, ThenCall
    <3> QED BY <1>2, <1>5, <1>12, <2>3, <3>2 DEF Doing, Asked, OfClip
  <2>6. ~Is(v, "STOPPED") /\ ~Is(v, "DELETED")
    BY <1>5, <1>6, <2>2 DEF COf, Stops
  <2>7. Waits(v)' /\ Stops(v)'
    BY <1>3, <1>6, <1>7, <1>12, <2>2, <2>4, <2>5, <2>6 DEF COf, Waits, Stops
  <2>8. /\ \A k \in Clips(v) : item'[v].type[k] = "stream" <=> IsStream(v)'
        /\ IsStream(v)' => ClipType[v] = "stream"
    BY <1>3, <1>6, <2>4 DEF COf, Counts
  <2>9. COf(v)'
    BY <1>3, <2>1, <2>2, <2>3, <2>4, <2>5, <2>7, <2>8, Unstarted
  <2> QED BY <1>3, <1>4, <1>12, <2>9, BodyC
<1>13. \/ Is(v, "QUEUED") /\ item' = item /\ pairs' = pairs /\ Then(<<>>)
       \/ /\ ~Is(v, "QUEUED") /\ ~Restarted(v) /\ pairs' = Switched(v, FALSE)
          /\ item'[v].flags = item[v].flags \ {"PAUSED"} /\ Then(<<>>)
       \/ /\ ~Is(v, "QUEUED") /\ Restarted(v) /\ pairs' = pairs
          /\ item'[v].flags = item[v].flags \ {"PAUSED"} /\ Then(<<goon>>)
  BY ResumeHow DEF goon
<1> QED BY <1>10, <1>11, <1>12, <1>13


LEMMA AddHow ==
    ASSUME TInv, NEW v \in Videos, AddDownload(v)
    PROVE  /\ item'[v].completed = {} /\ item'[v].missing = {}
           /\ Is(v, "FINISHED")' => item'[v].timed = Clips(v)
<1>1. PICK stored \in world.stored, k \in 0..ClipCount[v] :
          /\ "FINISHED" \in stored <=> k = ClipCount[v]
          /\ item' = [item EXCEPT ![v] = [Fresh(v) EXCEPT !.flags = stored, !.timed = 1..k]]
  BY DEF AddDownload
<1>2. item'[v] = [Fresh(v) EXCEPT !.flags = stored, !.timed = 1..k]
  BY <1>1 DEF TInv, ItemsTyped
<1>3. /\ item'[v].completed = {} /\ item'[v].missing = {}
      /\ item'[v].flags = stored /\ item'[v].timed = 1..k
  BY <1>2 DEF Fresh
<1> QED BY <1>1, <1>3 DEF Is, Clips

(* The only call there is, made from outside m_Sync.                         *)
LEMMA CalledOnly ==
    ASSUME TInv, CInv, NEW v \in Videos, NEW c \in CallSet, calls = <<>>, calls' = <<c>>, 
           c.v = v, c.do \notin {"CountTorrentFound", "EraseDownload", "AddClip"},
           v \in listed'
    PROVE  /\ Owned'
           /\ \A w \in Videos : w # v => Passed(w)
           /\ Range(calls) = {} /\ Range(calls') = {c}
           /\ calls' # <<>> /\ Head(calls') = c
           /\ ~Erasing(v) /\ ~Erasing(v)'
<1>1. calls' # <<>> /\ Head(calls') = c /\ Range(calls') = {c} /\ Behind(calls') = {}
      /\ Range(calls) = {}
  BY OneEntry, NoEntries
<1>2. Owned'
  BY <1>1 DEF Owned
<1> QED BY <1>1, <1>2 DEF Passed, Erasing

LEMMA AddC ==
    ASSUME TInv, TInv', Traces', CInv, Plain, NEW v \in Videos, AddDownload(v)
    PROVE  CInv'
<1> DEFINE c == Call("QueueDownload", v)
<1>1. /\ UNCHANGED <<alerts, retry, pairs, world>> /\ listed' = listed \cup {v}
      /\ calls = <<>> /\ calls' = <<c>> /\ ~Traced(v)
      /\ \A w \in Videos : w # v => item'[w] = item[w]
      /\ item'[v].flags \subseteq {"FINISHED", "PAUSED"}
      /\ item'[v].cur = 0 /\ item'[v].clips = 0
      /\ item'[v].type = [k \in Clips(v) |-> ClipType[v]]
  BY AddDoes DEF Plain, Without, May, Traced
<1>2. c \in CallSet /\ c.v = v /\ c.do = "QueueDownload" /\ c.hr = "S_OK"
  BY CallsTyped, CallFields DEF OfVideo
<1> HIDE DEF c
<1>3. /\ Owned'
      /\ \A w \in Videos : w # v => Passed(w)
      /\ Range(calls) = {} /\ Range(calls') = {c}
      /\ calls' # <<>> /\ Head(calls') = c
  BY <1>1, <1>2, CalledOnly
<1>4. /\ item'[v].completed = {} /\ item'[v].missing = {}
      /\ Is(v, "FINISHED")' => item'[v].timed = Clips(v)
  BY AddHow
<1>5. /\ Asked(v)' /\ ~Doing("QueueNextDownloadItem", v)' /\ ~Traced(v)'
  BY <1>1, <1>2, <1>3 DEF Asked, Doing, Traced
<1>6. \A flag : Is(v, flag)' => flag \in {"FINISHED", "PAUSED"}
  BY <1>1 DEF Is
<1>7. Waits(v)' /\ Stops(v)'
  BY <1>1, <1>5, <1>6 DEF Waits, Stops
<1>8. /\ \A k \in Clips(v) : item'[v].type[k] = "stream" <=> IsStream(v)'
      /\ IsStream(v)' => ClipType[v] = "stream"
  BY <1>1, Settings DEF IsStream
<1>9. COf(v)'
  BY <1>1, <1>2, <1>3, <1>4, <1>5, <1>6, <1>7, <1>8, Unstarted DEF OfClip
<1>10. \A w \in listed : w # v => Apart(w)
  BY <1>1, <1>3 DEF Apart, SamePairsOf, SameAlertsOf, TInv
<1>11. Messages'
  BY <1>1 DEF CInv, Messages
<1> QED BY <1>1, <1>3, <1>9, <1>10, <1>11, Together


LEMMA StartHow ==
    ASSUME TInv, NEW v \in Videos, StartQueuedDownload(v)
    PROVE  /\ item'[v].missing = item[v].missing
           /\ Is(v, "QUEUED") => /\ item'[v].completed = item[v].completed
                                 /\ item'[v].timed = item[v].timed
           /\ ~Is(v, "QUEUED") /\ IsStream(v) => item'[v].completed = item[v].completed \ {1}
<1> DEFINE d == IF ~Is(v, "QUEUED") /\ IsStream(v) THEN Redownload(item[v]) ELSE item[v]
<1>1. item' = [item EXCEPT ![v] = [d EXCEPT !.flags = @ \cup {"FORCE"}]]
  BY DEF StartQueuedDownload, IsDownloadableStream
<1>2. item'[v] = [d EXCEPT !.flags = @ \cup {"FORCE"}]
  BY <1>1 DEF TInv, ItemsTyped
<1>3. item[v] \in ItemsOf(v)
  BY DEF TInv, ItemsTyped
<1>4. CASE ~Is(v, "QUEUED") /\ IsStream(v)
  <2>1. item'[v] = [Redownload(item[v]) EXCEPT !.flags = @ \cup {"FORCE"}]
    BY <1>2, <1>4
  <2> QED BY <1>3, <1>4, <2>1 DEF Redownload, ItemsOf
<1>5. CASE ~(~Is(v, "QUEUED") /\ IsStream(v))
  <2>1. item'[v] = [item[v] EXCEPT !.flags = @ \cup {"FORCE"}]
    BY <1>2, <1>5
  <2> QED BY <1>3, <1>5, <2>1 DEF ItemsOf
<1> QED BY <1>4, <1>5

(* "Start" asks for a download that has no clip, or is made to have none.    *)
LEMMA StartC ==
    ASSUME TInv, TInv', Traces', QInv, CInv, Plain, NEW v \in Videos, StartQueuedDownload(v)
    PROVE  CInv'
<1> DEFINE c == Call("QueueDownload", v)
<1>1. /\ UNCHANGED <<listed, alerts, retry, pairs, world>>
      /\ calls = <<>> /\ calls' = <<c>> /\ v \in listed
      /\ Is(v, "QUEUED") \/ (Is(v, "FINISHED") /\ IsStream(v))
      /\ \A w \in Videos : w # v => item'[w] = item[w]
      /\ item'[v].missing = item[v].missing
  BY StartDoes, StartHow DEF Plain, Without, May
<1>2. c \in CallSet /\ c.v = v /\ c.do = "QueueDownload" /\ c.hr = "S_OK"
  BY CallsTyped, CallFields DEF OfVideo
<1> HIDE DEF c
<1>3. /\ Owned'
      /\ \A w \in Videos : w # v => Passed(w)
      /\ Range(calls) = {} /\ Range(calls') = {c}
      /\ calls' # <<>> /\ Head(calls') = c /\ ~Erasing(v)
  BY <1>1, <1>2, CalledOnly
<1>4. COf(v) /\ QOf(v) /\ ~Asked(v)
  BY <1>1, ListedIs DEF QInv, Asked
<1>5. /\ Asked(v)' /\ ~Doing("QueueNextDownloadItem", v)' /\ (Traced(v)' <=> Traced(v))
  BY <1>1, <1>2, <1>3 DEF Asked, Doing, Traced
<1>6. ~Is(v, "STOPPED") /\ ~Is(v, "DELETED")
  BY <1>1, <1>3, <1>4 DEF COf, Stops, Waits
<1>7. \A w \in listed : w # v => Apart(w)
  BY <1>1, <1>3 DEF Apart, SamePairsOf, SameAlertsOf, TInv
<1>8. Messages'
  BY <1>1 DEF CInv, Messages
<1>9. CASE Is(v, "QUEUED")
  <2>1. /\ item'[v].flags = item[v].flags \cup {"FORCE"}
        /\ item'[v].cur = item[v].cur /\ item'[v].clips = item[v].clips
        /\ item'[v].type = item[v].type /\ item'[v].completed = item[v].completed
        /\ item'[v].timed = item[v].timed
    BY <1>9, StartDoes, StartHow
  <2>2. ~Is(v, "FINISHED") /\ ~Is(v, "PAUSED") /\ ~IsStream(v)
    BY <1>1, <1>4, <1>9 DEF QOf
  <2>3. item[v].cur = 0
    BY <1>4, <1>9 DEF COf, Waits
  <2>4. /\ item[v].clips = 0 /\ item[v].completed = {} /\ item[v].missing = {}
        /\ ~Traced(v) /\ ~Is(v, "ACTIVE")
    BY <1>1, <2>3, Unheard
  <2>5. /\ \A flag : Is(v, flag)' <=> Is(v, flag) \/ flag = "FORCE"
        /\ IsStream(v)' <=> IsStream(v)
    BY <2>1 DEF Is, IsStream
  <2>6. Waits(v)' /\ Stops(v)'
    BY <1>5, <1>6, <2>1, <2>2, <2>3, <2>5 DEF Waits, Stops
  <2>7. /\ \A k \in Clips(v) : item'[v].type[k] = "stream" <=> IsStream(v)'
        /\ IsStream(v)' => ClipType[v] = "stream"
    BY <1>4, <2>1, <2>5 DEF COf, Counts
  <2>8. COf(v)'
    BY <1>1, <1>2, <1>3, <1>5, <2>1, <2>2, <2>3, <2>4, <2>5, <2>6, <2>7, Unstarted DEF OfClip
  <2> QED BY <1>1, <1>3, <1>7, <1>8, <2>8, Together
<1>10. CASE ~Is(v, "QUEUED") /\ Is(v, "FINISHED") /\ IsStream(v)
  <2>1. /\ item'[v].flags = (item[v].flags \ {"FINISHED"}) \cup {"FORCE"}
        /\ item'[v].cur = 0 /\ item'[v].clips = 0 /\ item'[v].type[1] = "http"
        /\ item'[v].completed = item[v].completed \ {1}
    BY <1>10, StartDoes, StartHow
  <2>2. Clips(v) = {1}
    <3>1. ClipType[v] = "stream"
      BY <1>4, <1>10 DEF COf, Counts
    <3> QED BY <3>1 DEF Plain, StreamsAreSingle, Clips
  <2>3. item'[v].completed = {}
    BY <1>1, <2>1, <2>2, ListedIs
  <2>4. item[v].missing = {} /\ ~Traced(v) /\ ~Is(v, "ACTIVE")
    BY <1>1, <1>4, <1>10 DEF QOf, COf, Engaged
  <2>5. /\ \A flag : Is(v, flag)' <=> (Is(v, flag) /\ flag # "FINISHED") \/ flag = "FORCE"
        /\ ~IsStream(v)'
    BY <2>1 DEF Is, IsStream
  <2>6. Waits(v)' /\ Stops(v)'
    BY <1>5, <1>6, <2>1, <2>5 DEF Waits, Stops
  <2>7. \A k \in Clips(v) : item'[v].type[k] = "stream" <=> IsStream(v)'
    BY <2>1, <2>2, <2>5
  <2>8. COf(v)'
    BY <1>1, <1>2, <1>3, <1>5, <2>1, <2>3, <2>4, <2>5, <2>6, <2>7, Unstarted DEF OfClip
  <2> QED BY <1>1, <1>3, <1>7, <1>8, <2>8, Together
<1> QED BY <1>1, <1>9, <1>10


LEMMA LargerOf ==
    ASSUME NEW n \in Nat, n > 0 PROVE Max({1, n}) = n
<1>1. n \in {1, n} /\ \A y \in {1, n} : n >= y
  OBVIOUS
<1>2. \A x \in {1, n} : (\A y \in {1, n} : x >= y) => x = n
  OBVIOUS
<1> QED BY <1>1, <1>2 DEF Max

(* Nobody pauses a download whose clip was refused.                          *)
LEMMA PausedC ==
    ASSUME TInv, TInv', CInv, Plain, NEW v \in listed, calls = <<>>, calls' = <<>>,
           UNCHANGED <<alerts, retry, world>>,
           \/ item'[v].flags = item[v].flags
           \/ /\ item'[v].flags = item[v].flags \cup {"PAUSED"}
              /\ ~Is(v, "QUEUED") /\ MayPause(v),
           item'[v].cur = item[v].cur, item'[v].clips = item[v].clips,
           item'[v].completed = item[v].completed, item'[v].timed = item[v].timed,
           item'[v].missing = item[v].missing, item'[v].type = item[v].type,
           item'[v].handle = item[v].handle,
           SamePairs, \A h \in DOMAIN pairs' : pairs'[h].at = pairs[h].at
    PROVE  COf(v)'
<1>1. COf(v) /\ item[v].cur \in Nat /\ item[v].clips \in Int
  BY ListedIs
<1>2. Range(calls) = {} /\ Range(calls') = {}
  BY NoEntries
<1>3. /\ ~Asked(v) /\ ~Asked(v)' /\ ~Moving(v) /\ ~Erasing(v) /\ ~Erasing(v)'
      /\ \A f : ~Doing(f, v) /\ ~Doing(f, v)'
  BY <1>2 DEF Asked, Moving, Erasing, Doing
<1>4. \A flag \in Flags \ {"PAUSED"} : Is(v, flag)' <=> Is(v, flag)
  BY DEF Is
<1>5. Waits(v)'
  <2>1. /\ Is(v, "QUEUED")' <=> Is(v, "QUEUED")
        /\ Is(v, "STOPPED")' <=> Is(v, "STOPPED")
        /\ Is(v, "FORCE")' <=> Is(v, "FORCE")
        /\ Is(v, "FINISHED")' <=> Is(v, "FINISHED")
        /\ IsStream(v)' <=> IsStream(v)
    BY <1>4 DEF Flags, IsStream
  <2>2. item[v].cur = 0 => item'[v].flags \cap {"QUEUED", "PAUSED", "FINISHED"} # {}
    <3>1. item[v].cur = 0 => item[v].flags \cap {"QUEUED", "PAUSED", "FINISHED"} # {}
      BY <1>1, <1>3 DEF COf, Waits
    <3> QED BY <3>1
  <2>3. Waits(v)
    BY <1>1 DEF COf
  <2> QED BY <1>3, <2>1, <2>2, <2>3 DEF Waits
<1>6. ~Started(v) /\ ~IsStream(v) /\ Is(v, "PAUSED")' => item[v].cur = 0
  <2>1. CASE item'[v].flags = item[v].flags
    BY <1>1, <2>1 DEF COf, Idles, Is
  <2>2. ASSUME MayPause(v), ~Started(v), ~IsStream(v), item[v].cur > 0 PROVE FALSE
    <3>1. May("refuse") /\ item[v].handle[item[v].cur] = 0
      BY <1>1, <1>3, <2>2 DEF COf, Idles
    <3>2. item[v].clips > 0
      BY <1>1, <2>2 DEF COf, Counts
    <3>3. GivenUp(v)
      BY <1>1, <2>2, <3>1, <3>2, LargerOf DEF GivenUp
    <3> QED BY <2>2, <3>1, <3>3 DEF MayPause, Failed, Plain
  <2> QED BY <1>1, <2>1, <2>2
<1>7. /\ IsStream(v) => Is(v, "FINISHED")
      /\ \A k \in Clips(v) : k <= item[v].cur /\ k \in item[v].timed => k \in item[v].completed
  BY <1>1, <1>3 DEF COf, Idles, First
<1> QED BY <1>2, <1>3, <1>4, <1>5, <1>6, <1>7, NoMore

LEMMA PauseHow ==
    ASSUME TInv, NEW v \in Videos, PauseDownload(v)
    PROVE  /\ calls = <<>> /\ UNCHANGED <<listed, calls, alerts, retry, world>> /\ SamePairs
           /\ \A h \in DOMAIN pairs' : h \in DOMAIN pairs /\ pairs'[h].at = pairs[h].at
           /\ \A w \in Videos : w # v => item'[w] = item[w]
           /\ \/ Reflagged(v, item[v].flags)
              \/ /\ Reflagged(v, item[v].flags \cup {"PAUSED"})
                 /\ ~Is(v, "QUEUED") /\ MayPause(v)
<1>1. calls = <<>> /\ UNCHANGED <<listed, calls, alerts, retry, world>> /\ SamePairs
      /\ MayPause(v) /\ Pause(v)
  BY PauseDoes DEF PauseDownload
<1>2. \A h \in DOMAIN pairs' : h \in DOMAIN pairs /\ pairs'[h].at = pairs[h].at
  BY <1>1, PairsStay DEF Pause, Switched
<1>3. CASE Is(v, "QUEUED") /\ item' = item
  BY <1>1, <1>2, <1>3 DEF Reflagged
<1>4. CASE ~Is(v, "QUEUED") /\ item' = [item EXCEPT ![v].flags = @ \cup {"PAUSED"},
                                                     ![v].error = FALSE]
  <2>1. item[v].flags \cup {"PAUSED"} \in SUBSET Flags /\ ItemsTyped
    BY DEF TInv, ItemsTyped, ItemsOf, Flags
  <2>2. Reflagged(v, item[v].flags \cup {"PAUSED"})
    BY <1>4, <2>1, FlagsChange
  <2> QED BY <1>1, <1>2, <1>4, <2>2 DEF Reflagged
<1> QED BY <1>1, <1>3, <1>4 DEF Pause

LEMMA PauseC ==
    ASSUME TInv, TInv', CInv, Plain, NEW v \in Videos, PauseDownload(v) PROVE CInv'
<1>1. /\ calls = <<>> /\ UNCHANGED <<listed, calls, alerts, retry, world>> /\ SamePairs
      /\ \A h \in DOMAIN pairs' : h \in DOMAIN pairs /\ pairs'[h].at = pairs[h].at
  BY PauseHow
<1>2. ASSUME NEW w \in listed PROVE COf(w)'
  <2>1. /\ w \in Videos
        /\ \/ Reflagged(w, item[w].flags) 
           \/ /\ Reflagged(w, item[w].flags \cup {"PAUSED"}) /\ ~Is(w, "QUEUED") /\ MayPause(w)
           \/ item'[w] = item[w]
    BY PauseHow DEF TInv
  <2> QED BY <1>1, <2>1, PausedC DEF Reflagged
<1>3. Messages'
  BY <1>1 DEF CInv, Messages
<1>4. Owned'
  BY <1>1, NoEntries DEF Owned
<1> QED BY <1>1, <1>2, <1>3, <1>4 DEF CInv

LEMMA PauseAllC ==
    ASSUME TInv, TInv', CInv, Plain, PauseAll PROVE CInv'
<1> DEFINE these == {v \in listed : ~Is(v, "QUEUED")}
           H == UNION {HandlesOf(v) : v \in these}
<1>1. /\ calls = <<>> /\ UNCHANGED <<listed, calls, alerts, retry, world>> /\ SamePairs
  BY PauseAllDoes
<1>2. \A h \in DOMAIN pairs' : h \in DOMAIN pairs /\ pairs'[h].at = pairs[h].at
  <2>1. pairs' = [h \in DOMAIN pairs |->
                IF h \in H THEN [pairs[h] EXCEPT !.paused = TRUE] ELSE pairs[h]]
    BY DEF PauseAll
  <2> HIDE DEF H
  <2> QED BY <2>1, PairsStay
<1>3. item' = [v \in Videos |->
                IF v \in these
                THEN [item[v] EXCEPT !.flags = @ \cup {"PAUSED"}, !.error = FALSE] ELSE item[v]]
  BY DEF PauseAll
<1>4. ASSUME NEW w \in listed PROVE COf(w)'
  <2>1. w \in Videos /\ item[w] \in ItemsOf(w) /\ MayPause(w)
    BY DEF TInv, ItemsTyped, PauseAll
  <2>2. CASE w \notin these
    <3>1. item'[w] = item[w]
      BY <1>3, <2>1, <2>2
    <3> QED BY <1>1, <1>2, <3>1, PausedC
  <2>3. CASE w \in these
    <3>1. item'[w] = [item[w] EXCEPT !.flags = @ \cup {"PAUSED"}, !.error = FALSE]
      BY <1>3, <2>1, <2>3
    <3>2. /\ item'[w].flags = item[w].flags \cup {"PAUSED"} /\ ~Is(w, "QUEUED")
          /\ item'[w].cur = item[w].cur /\ item'[w].clips = item[w].clips
          /\ item'[w].completed = item[w].completed /\ item'[w].timed = item[w].timed
          /\ item'[w].missing = item[w].missing /\ item'[w].type = item[w].type
          /\ item'[w].handle = item[w].handle
      BY <2>1, <2>3, <3>1 DEF ItemsOf
    <3> QED BY <1>1, <1>2, <2>1, <3>2, PausedC
  <2> QED BY <2>2, <2>3
<1>5. Messages'
  BY <1>1, <1>2 DEF CInv, Messages
<1>6. Owned'
  BY <1>1, NoEntries DEF Owned
<1> QED BY <1>1, <1>4, <1>5, <1>6 DEF CInv


(* The end of a pause is still to be done.                                   *)
LEMMA ResumeCallsC ==
    ASSUME TInv, TInv', CInv, ResumeAll \/ \E v \in Videos : ResumeDownload(v) PROVE CInv'
<1>1. /\ UNCHANGED <<listed, item, alerts, retry, pairs, world>> /\ calls = <<>>
      /\ \A c \in Range(calls') : c.do = "Resume" /\ c.hr = "S_OK" /\ c.v \in listed
      /\ calls' # <<>> => Head(calls') \in Range(calls')
      /\ Behind(calls') \subseteq Range(calls')
  BY ResumeCallsDo
<1>2. Owned'
  BY <1>1 DEF Owned
<1>3. Messages'
  BY <1>1 DEF CInv, Messages
<1>4. ASSUME NEW w \in listed PROVE COf(w)'
  <2>1. COf(w) /\ Range(calls) = {}
    BY <1>1, ListedIs, NoEntries
  <2>2. /\ ~Asked(w) /\ ~Asked(w)' /\ ~Moving(w) /\ ~Erasing(w) /\ ~Erasing(w)'
        /\ \A f : ~Doing(f, w)
        /\ ~Doing("QueueNextDownloadItem", w)'
    BY <1>1, <2>1 DEF Asked, Moving, Erasing, Doing
  <2>3. /\ IsStream(w) => Is(w, "FINISHED")
        /\ \A k \in Clips(w) : k <= item[w].cur /\ k \in item[w].timed => k \in item[w].completed
        /\ ~Started(w) /\ ~IsStream(w) /\ Is(w, "PAUSED") => item[w].cur = 0
    BY <2>1, <2>2 DEF COf, Idles, First
  <2>4. Waits(w)'
    BY <1>1, <2>1, <2>2 DEF COf, Waits, Is, IsStream
  <2>5. SamePairs /\ \A h \in DOMAIN pairs' : pairs'[h].at = pairs[h].at
    BY <1>1, PairsAsTheyAre
  <2>6. \A flag : Is(w, flag)' <=> Is(w, flag)
    BY <1>1 DEF Is
  <2>7. /\ \A c \in Range(calls') : c.v = w => c.do = "Resume" /\ c.hr = "S_OK"
        /\ calls' # <<>> /\ Head(calls').v = w => Rests(Head(calls'))
    BY <1>1 DEF Rests
  <2> QED BY <1>1, <2>2, <2>3, <2>4, <2>5, <2>6, <2>7, NoMore
<1> QED BY <1>1, <1>2, <1>3, <1>4 DEF CInv


LEMMA JoinedEntries ==
    ASSUME NEW S, NEW s \in Seq(S), NEW t \in Seq(S)
    PROVE  /\ s \o t \in Seq(S) /\ Len(s \o t) = Len(s) + Len(t)
           /\ \A i \in 1..Len(s) : (s \o t)[i] = s[i]
           /\ \A j \in 1..Len(t) : (s \o t)[Len(s) + j] = t[j]
           /\ \A i \in 1..Len(s) + Len(t) :
                 i \in 1..Len(s) \/ \E j \in 1..Len(t) : i = Len(s) + j
<1> DEFINE m == Len(s)
           n == Len(t)
           u == s \o t
<1>1. m \in Nat /\ n \in Nat
  BY SeqEntries
<1>2. /\ u \in Seq(S) /\ Len(u) = m + n
      /\ \A i \in 1..m + n : u[i] = IF i <= m THEN s[i] ELSE t[i - m]
  BY ConcatProperties
<1> HIDE DEF m, n, u
<1>3. \A i \in 1..m : u[i] = s[i]
  BY <1>1, <1>2
<1>4. ASSUME NEW j \in 1..n PROVE u[m + j] = t[j]
  <2>1. PICK i \in 1..m + n : i = m + j /\ ~(i <= m) /\ i - m = j
    BY <1>1
  <2>2. u[i] = t[i - m]
    BY <1>2, <2>1
  <2> QED BY <2>1, <2>2
<1>5. ASSUME NEW i \in 1..m + n PROVE i \in 1..m \/ \E j \in 1..n : i = m + j
  <2>1. i \in 1..m \/ (i - m \in 1..n /\ i = m + (i - m))
    BY <1>1
  <2> QED BY <2>1
<1> QED BY <1>2, <1>3, <1>4, <1>5 DEF m, n, u

(* Push leaves the alerts that are there in their places.                    *)
LEMMA PushedEntries ==
    ASSUME NEW as \in Seq(AlertSet), NEW new \in Seq(AlertSet), Len(as) <= MaxAlerts
    PROVE  /\ \A i \in DOMAIN as : i \in DOMAIN Push(as, new) /\ Push(as, new)[i] = as[i]
           /\ \A i \in DOMAIN Push(as, new) :
                 i \in DOMAIN as \/ (i > Len(as) /\ Push(as, new)[i] \in Range(new))
           /\ Len(as) + Len(new) <= MaxAlerts =>
                 \A j \in 1..Len(new) : /\ Len(as) + j \in DOMAIN Push(as, new)
                                        /\ Push(as, new)[Len(as) + j] = new[j]
           /\ Len(Push(as, new)) >= Len(as) /\ Len(Push(as, new)) <= Len(as) + Len(new)
<1> DEFINE s == as \o new
           n == Len(s)
           m == IF n <= MaxAlerts THEN n ELSE MaxAlerts
           u == SubSeq(s, 1, m)
           a == Len(as)
           b == Len(new)
<1>1. /\ a \in Nat /\ b \in Nat /\ DOMAIN as = 1..a /\ DOMAIN new = 1..b
      /\ Range(new) = {new[i] : i \in 1..b}
  BY SeqEntries
<1>2. /\ s \in Seq(AlertSet) /\ n = a + b
      /\ \A i \in 1..a : s[i] = as[i]
      /\ \A j \in 1..b : s[a + j] = new[j]
      /\ \A i \in 1..a + b : i \in 1..a \/ \E j \in 1..b : i = a + j
  BY JoinedEntries
<1>3. Push(as, new) = u /\ MaxAlerts \in Nat /\ a <= MaxAlerts
  BY Settings DEF Push
<1>4. n \in Nat /\ \A i \in 1..n : s[i] \in AlertSet
  BY <1>1, <1>2, SeqEntries, ElementOfSeq
<1> HIDE DEF s, n, a, b, u
<1>5. m \in Nat /\ m <= n /\ a <= m /\ (n <= MaxAlerts => m = n)
  BY <1>1, <1>2, <1>3
<1> HIDE DEF m
<1>6. \A i \in 1..m : s[i] \in AlertSet /\ i \in 1..n
  BY <1>4, <1>5
<1>7. /\ u \in Seq(AlertSet) /\ Len(u) = IF 1 <= m THEN m - 1 + 1 ELSE 0
      /\ \A i \in 1..m - 1 + 1 : u[i] = s[1 + i - 1]
  BY <1>5, <1>6, SubSeqProperties DEF u
<1>8. DOMAIN u = 1..m /\ Len(u) = m /\ \A i \in 1..m : u[i] = s[i]
  BY <1>5, <1>7, SeqEntries
<1>9. ASSUME NEW i \in 1..a PROVE i \in 1..m /\ u[i] = as[i]
  <2>1. i \in 1..m
    BY <1>1, <1>5
  <2> QED BY <1>2, <1>8, <2>1
<1>10. ASSUME NEW i \in 1..m PROVE i \in 1..a \/ (i > a /\ u[i] \in Range(new))
  <2>1. i \in 1..a \/ \E j \in 1..b : i = a + j
    BY <1>2, <1>5, <1>6
  <2>2. ASSUME NEW j \in 1..b, i = a + j PROVE i > a /\ u[i] = new[j]
    BY <1>1, <1>2, <1>8, <2>2
  <2> QED BY <1>1, <2>1, <2>2
<1>11. ASSUME a + b <= MaxAlerts, NEW j \in 1..b PROVE a + j \in 1..m /\ u[a + j] = new[j]
  <2>1. m = n /\ a + j \in 1..a + b
    BY <1>1, <1>2, <1>5, <1>11
  <2> QED BY <1>2, <1>8, <2>1
<1> QED BY <1>1, <1>2, <1>3, <1>5, <1>8, <1>9, <1>10, <1>11 DEF a, b

(* The user deletes a download: what is on its way for it is taken out, or   *)
(* it is erased at once.                                                     *)
LEMMA RemoveHow ==
    ASSUME TInv, QInv, CInv, NEW v \in Videos, RemoveDownload(v)
    PROVE  /\ SamePairs /\ UNCHANGED <<listed, retry, world>>
           /\ calls = <<>> /\ v \in listed
           /\ Reflagged(v, item[v].flags \cup {"DELETED", "STOPPED"})
           /\ \A h \in DOMAIN pairs : pairs'[h] = pairs[h]
                                      \/ (pairs[h].v = v /\ pairs'[h].at = "gone")
           /\ \A i \in DOMAIN alerts : i \in DOMAIN alerts' /\ alerts'[i] = alerts[i]
           /\ \A i \in DOMAIN alerts' :
                 \/ i \in DOMAIN alerts
                 \/ alerts'[i].v = v /\ alerts'[i].code = "REMOVED"
           /\ \A c \in Range(calls') : c.hr = "S_OK" /\
                 \/ c.do = "EraseDownload" /\ c.v = v
                 \/ /\ c.do = "QueueDownload" /\ c.v # v /\ c.v \in listed
                    /\ Is(c.v, "QUEUED")
           /\ \A c \in Behind(calls') : c.do = "EraseDownload"
           /\ calls' # <<>> => Head(calls') \in Range(calls')
           /\ ErasedAtOnce(v) <=> Erasing(v)'
<1> DEFINE W == Unqueued(v)
           erase == Call("EraseDownload", v)
<1>1. /\ SamePairs /\ UNCHANGED <<listed, retry, world>> /\ calls = <<>> /\ v \in listed
      /\ Reflagged(v, item[v].flags \cup {"DELETED", "STOPPED"})
  BY RemoveDoes
<1>2. /\ W \in Seq(Videos) /\ Range(W) = Range(queue) \ {v}
  BY RemovedFirst DEF TInv, QInv, Unqueued
<1>3. erase \in CallSet /\ erase.v = v /\ erase.do = "EraseDownload" /\ erase.hr = "S_OK"
  BY CallsTyped, CallFields DEF OfVideo
<1>4. \/ \E h \in Videos : LET ask == Call("QueueDownload", h) IN
             /\ W # <<>> /\ Head(W) = h
             /\ calls' = IF ErasedAtOnce(v) THEN <<ask, erase>> ELSE <<ask>>
      \/ calls' = IF ErasedAtOnce(v) THEN <<erase>> ELSE <<>>
  BY RemoveDoes
<1> HIDE DEF W, erase
<1>5. /\ pairs' = Removed(LivePairs(v)) /\ alerts' = Push(alerts, RemovalAlerts(v))
  BY DEF RemoveDownload
<1>6. \A h \in DOMAIN pairs : pairs'[h] = pairs[h] \/ (pairs[h].v = v /\ pairs'[h].at = "gone")
  <2>1. \A h \in DOMAIN pairs : pairs[h] \in PairSet
    BY SeqEntries, ElementOfSeq DEF TInv
  <2>2. \A h \in LivePairs(v) : pairs[h].v = v
    BY HandlesOwn DEF LivePairs
  <2> QED BY <1>5, <2>1, <2>2 DEF Removed, PairSet
<1>7. /\ \A i \in DOMAIN alerts : i \in DOMAIN alerts' /\ alerts'[i] = alerts[i]
      /\ \A i \in DOMAIN alerts' :
                 \/ i \in DOMAIN alerts
                 \/ alerts'[i].v = v /\ alerts'[i].code = "REMOVED"
  <2> DEFINE R == RemovalAlerts(v)
  <2>1. R \in Seq(AlertSet) /\ alerts \in Seq(AlertSet) /\ Len(alerts) <= MaxAlerts
    BY RemovalsTyped DEF TInv
  <2>2. \A a \in Range(R) : a.v = v /\ a.code = "REMOVED"
    <3>1. DOMAIN R = DOMAIN SetToSeq({k \in Clips(v) : item[v].handle[k] \in LivePairs(v)})
          /\ \A i \in DOMAIN R : R[i].code = "REMOVED" /\ R[i].v = v
      BY DEF RemovalAlerts
    <3> HIDE DEF R
    <3> QED BY <2>1, <3>1, SeqEntries
  <2>3. alerts' = Push(alerts, R)
    BY <1>5
  <2> HIDE DEF R
  <2> QED BY <2>1, <2>2, <2>3, PushedEntries
<1>8. CASE calls' = IF ErasedAtOnce(v) THEN <<erase>> ELSE <<>>
  <2>1. /\ Range(calls') = IF ErasedAtOnce(v) THEN {erase} ELSE {}
        /\ Behind(calls') = {} /\ (calls' # <<>> => Head(calls') \in Range(calls'))
    BY <1>3, <1>8, OneEntry, NoEntries
  <2>2. ErasedAtOnce(v) <=> Erasing(v)'
    BY <1>3, <2>1 DEF Erasing
  <2> QED BY <1>1, <1>3, <1>6, <1>7, <2>1, <2>2
<1>9. ASSUME NEW h \in Videos, W # <<>>, Head(W) = h,
              calls' = IF ErasedAtOnce(v) THEN <<Call("QueueDownload", h), erase>>
                       ELSE <<Call("QueueDownload", h)>>
       PROVE  /\ \A c \in Range(calls') : c.hr = "S_OK" /\
                    \/ c.do = "EraseDownload" /\ c.v = v
                    \/ c.do = "QueueDownload" /\ c.v # v /\ c.v \in listed /\ Is(c.v, "QUEUED")
              /\ \A c \in Behind(calls') : c.do = "EraseDownload"
              /\ calls' # <<>> => Head(calls') \in Range(calls')
              /\ ErasedAtOnce(v) <=> Erasing(v)'
  <2> DEFINE ask == Call("QueueDownload", h)
  <2>1. ask \in CallSet /\ ask.v = h /\ ask.do = "QueueDownload" /\ ask.hr = "S_OK"
    BY CallsTyped, CallFields DEF OfVideo
  <2>2. calls' = IF ErasedAtOnce(v) THEN <<ask, erase>> ELSE <<ask>>
    BY <1>9
  <2> HIDE DEF ask
  <2>3. /\ Range(calls') = IF ErasedAtOnce(v) THEN {ask, erase} ELSE {ask}
        /\ Behind(calls') \subseteq {erase} /\ calls' # <<>> /\ Head(calls') = ask
    BY <1>3, <2>1, <2>2, OneEntry, TwoEntries
  <2>4. h \in Range(queue) /\ h # v
    <3>1. h \in Range(W)
      BY <1>2, <1>9, HeadAndTail
    <3> QED BY <1>2, <3>1
  <2>5. h \in listed /\ Is(h, "QUEUED")
    BY <2>4 DEF QInv, QOf
  <2>6. ErasedAtOnce(v) <=> Erasing(v)'
    BY <1>3, <2>1, <2>3 DEF Erasing
  <2> QED BY <1>3, <2>1, <2>3, <2>4, <2>5, <2>6
<1> QED BY <1>1, <1>4, <1>6, <1>7, <1>8, <1>9

LEMMA RemoveC ==
    ASSUME TInv, TInv', QInv, CInv, NEW v \in Videos, RemoveDownload(v)
    PROVE  CInv'
<1>1. /\ SamePairs /\ UNCHANGED <<listed, retry, world>> /\ calls = <<>> /\ v \in listed
      /\ Reflagged(v, item[v].flags \cup {"DELETED", "STOPPED"})
      /\ \A h \in DOMAIN pairs : pairs'[h] = pairs[h]
                                      \/ (pairs[h].v = v /\ pairs'[h].at = "gone")
      /\ \A i \in DOMAIN alerts : i \in DOMAIN alerts' /\ alerts'[i] = alerts[i]
      /\ \A i \in DOMAIN alerts' :
                 \/ i \in DOMAIN alerts
                 \/ alerts'[i].v = v /\ alerts'[i].code = "REMOVED"
  BY RemoveHow
<1>2. /\ \A c \in Range(calls') : c.hr = "S_OK" /\
            \/ c.do = "EraseDownload" /\ c.v = v
            \/ c.do = "QueueDownload" /\ c.v # v /\ c.v \in listed /\ Is(c.v, "QUEUED")
      /\ \A c \in Behind(calls') : c.do = "EraseDownload"
      /\ calls' # <<>> => Head(calls') \in Range(calls')
      /\ ErasedAtOnce(v) <=> Erasing(v)'
  BY RemoveHow
<1>3. Range(calls) = {} /\ COf(v) /\ item[v].cur \in Nat /\ retry[v] \in Nat
  BY <1>1, ListedIs, NoEntries
<1>4. DOMAIN pairs = 1..Len(pairs) /\ DOMAIN pairs' = DOMAIN pairs
  BY <1>1, SeqEntries DEF TInv, SamePairs
<1>5. Owned'
  BY <1>1, <1>2 DEF Owned
<1>6. Messages'
  BY <1>1, <1>4 DEF CInv, Messages
<1>7. \A w \in listed : w # v => Apart(w)
  <2> SUFFICES ASSUME NEW w \in listed, w # v PROVE Apart(w)
    OBVIOUS
  <2>1. w \in Videos /\ item'[w] = item[w]
    BY <1>1 DEF TInv, Reflagged
  <2>2. SamePairsOf(w)
    BY <1>1, <1>4, <2>1 DEF SamePairsOf, SamePairs
  <2>3. SameAlertsOf(w)
    BY <1>1 DEF SameAlertsOf
  <2>4. Passed(w)
    BY <1>1, <1>2, <1>3 DEF Passed, Erasing
  <2> QED BY <1>1, <2>1, <2>2, <2>3, <2>4 DEF Apart
<1>8. /\ ~Asked(v) /\ ~Asked(v)' /\ ~Moving(v) /\ ~Erasing(v)
      /\ \A f : ~Doing(f, v) /\ (f # "EraseDownload" => ~Doing(f, v)')
      /\ \A k \in Clips(v) : ~Handled(v, k)'
  BY <1>1, <1>2, <1>3 DEF Asked, Moving, Erasing, Doing, Handled, OfClip
<1>9. /\ \A flag \in Flags \ {"DELETED", "STOPPED"} : Is(v, flag)' <=> Is(v, flag)
      /\ Is(v, "STOPPED")' /\ Is(v, "DELETED")'
      /\ item'[v].cur = item[v].cur /\ item'[v].clips = item[v].clips
      /\ item'[v].completed = item[v].completed /\ item'[v].timed = item[v].timed
      /\ item'[v].missing = item[v].missing /\ item'[v].type = item[v].type
      /\ item'[v].handle = item[v].handle
  BY <1>1 DEF Reflagged, Is
<1>10. /\ Is(v, "ACTIVE")' <=> Is(v, "ACTIVE")
       /\ Is(v, "FINISHED")' <=> Is(v, "FINISHED")
       /\ Is(v, "PAUSED")' <=> Is(v, "PAUSED")
       /\ Is(v, "QUEUED")' <=> Is(v, "QUEUED")
       /\ Is(v, "FORCE")' <=> Is(v, "FORCE")
       /\ Started(v)' <=> Started(v)
       /\ IsStream(v)' <=> IsStream(v)
       /\ Traced(v)' <=> Traced(v)
       /\ May("refuse")' <=> May("refuse")
  BY <1>1, <1>9, TracedSame DEF Flags, Started, IsStream, May
<1>11. /\ \A h \in DOMAIN pairs : pairs'[h].v = pairs[h].v /\ pairs'[h].k = pairs[h].k
       /\ \A h \in DOMAIN pairs' : pairs'[h].at \in {"http", "torrent"} => pairs[h] = pairs'[h]
       /\ \A i \in DOMAIN alerts' : alerts'[i].code # "REMOVED" =>
             i \in DOMAIN alerts /\ alerts'[i] = alerts[i]
  BY <1>1, <1>4 DEF SamePairs
<1>12. Counts(v)'
  BY <1>3, <1>9, <1>10 DEF COf, Counts
<1>13. Engaged(v)'
  BY <1>2, <1>3, <1>9, <1>10 DEF COf, Engaged, OfClip
<1>14. item[v].cur = 0 => item[v].flags \cap {"QUEUED", "PAUSED", "FINISHED"} # {}
  BY <1>3, <1>8 DEF COf, Waits
<1>15. Waits(v)'
  <2>1. Is(v, "QUEUED") => ErasedAtOnce(v)
    BY DEF Is, ErasedAtOnce
  <2>2. item[v].cur = 0 => item'[v].flags \cap {"QUEUED", "PAUSED", "FINISHED"} # {}
    BY <1>1, <1>14 DEF Reflagged
  <2>3. Waits(v)
    BY <1>3 DEF COf
  <2> QED BY <1>2, <1>8, <1>9, <1>10, <2>1, <2>2, <2>3 DEF Waits
<1>16. Stops(v)'
  <2>1. ~ErasedAtOnce(v) => item[v].cur > 0 /\ ~Is(v, "FINISHED") /\ ~IsStream(v)
    BY <1>3, <1>8, <1>14 DEF COf, Idles, ErasedAtOnce, Is
  <2> QED BY <1>2, <1>9, <1>10, <2>1 DEF Stops
<1>17. Idles(v)'
  <2>1. Idles(v)
    BY <1>3 DEF COf
  <2>2. /\ ~Started(v) /\ ~IsStream(v) /\ item[v].cur > 0 =>
              May("refuse") /\ item[v].handle[item[v].cur] = 0 /\ item[v].cur \notin item[v].timed
        /\ ~Started(v) /\ ~IsStream(v) /\ Is(v, "PAUSED") => item[v].cur = 0
        /\ IsStream(v) => Is(v, "FINISHED")
    BY <1>8, <2>1 DEF Idles
  <2>3. \A h \in DOMAIN pairs' : pairs'[h].v = v /\ pairs'[h].at = "http" => Started(v)
    BY <1>4, <1>11, <2>1 DEF Idles
  <2>4. \A i \in DOMAIN alerts' :
          alerts'[i].v = v /\ alerts'[i].code = "FINISHED" /\ alerts'[i].hr \in Failures
             => Started(v)
    BY <1>11, <2>1 DEF Idles
  <2>5. \A c \in Range(calls') : c.v = v /\ c.hr \notin {"S_OK", "E_FAIL"} => Started(v)
    BY <1>2
  <2> QED BY <1>8, <1>9, <1>10, <2>2, <2>3, <2>4, <2>5 DEF Idles
<1>18. Once(v)'
  <2> SUFFICES ASSUME NEW k \in Clips(v), k \notin item[v].completed
               PROVE  Lone(v, k)' /\ (Handed(v, k)' => Handed(v, k))
    BY <1>1, <1>3, <1>8, <1>9, OnceKept DEF COf
  <2>1. \A h : Fetched(v, k, h)' => Fetched(v, k, h)
    BY <1>4, <1>11 DEF Fetched
  <2>2. \A i : Told(v, k, i)' => Told(v, k, i)
    BY <1>11 DEF Told
  <2>3. Retried(v, k)' = Retried(v, k) /\ Retried(v, k) \in Nat
    BY <1>1, <1>3 DEF Retried
  <2>4. Lone(v, k)
    BY <1>3 DEF COf, Once
  <2> QED BY <1>8, <2>1, <2>2, <2>3, <2>4, FewerHands
<1>19. First(v)'
  BY <1>3, <1>8, <1>9 DEF COf, First
<1>20. Sure(v)'
  <2>1. Sure(v)
    BY <1>3 DEF COf
  <2> QED BY <1>1, <1>4, <1>8, <1>9, <1>11, <2>1 DEF Sure, Without
<1>21. Ends(v)'
  BY <1>2, <1>3, <1>8, <1>9, <1>10 DEF COf, Ends
<1>22. COf(v)'
  BY <1>12, <1>13, <1>15, <1>16, <1>17, <1>18, <1>19, <1>20, <1>21 DEF COf
<1> QED BY <1>1, <1>5, <1>6, <1>7, <1>22, Together


(* The alert on top is taken.                                                *)
LEMMA TakenEntries ==
    ASSUME TInv, NEW code, Taken(code)
    PROVE  /\ Len(alerts) \in DOMAIN alerts /\ TopAlert = alerts[Len(alerts)]
           /\ \A i \in DOMAIN alerts' :
                 i \in DOMAIN alerts /\ i # Len(alerts) /\ alerts'[i] = alerts[i]
           /\ \A i \in DOMAIN alerts : i # Len(alerts) => i \in DOMAIN alerts'
<1> DEFINE n == Len(alerts)
<1>1. alerts # <<>> /\ alerts' = Front(alerts) /\ alerts \in Seq(AlertSet)
  BY DEF Taken, TInv
<1>2. n \in Nat /\ n > 0 /\ DOMAIN alerts = 1..n /\ \A i \in 1..n : alerts[i] \in AlertSet
  BY <1>1, SeqEntries, ElementOfSeq
<1>3. Front(alerts) \in Seq(AlertSet) /\ Len(Front(alerts)) = n - 1
  BY <1>1, FrontAndLast
<1>4. \A i \in 1..n - 1 : Front(alerts)[i] = alerts[i]
  BY <1>1, FrontAndLast
<1>5. DOMAIN Front(alerts) = 1..n - 1
  BY <1>3, SeqEntries
<1>6. TopAlert = alerts[n]
  BY <1>1, FrontAndLast DEF TopAlert
<1> HIDE DEF n
<1>7. \A i \in DOMAIN alerts' :
                 i \in DOMAIN alerts /\ i # n /\ alerts'[i] = alerts[i]
  BY <1>1, <1>2, <1>4, <1>5
<1>8. \A i \in DOMAIN alerts : i # n => i \in DOMAIN alerts'
  BY <1>1, <1>2, <1>5
<1>9. n \in DOMAIN alerts
  BY <1>2
<1> QED BY <1>6, <1>7, <1>8, <1>9 DEF n

(* It is left without effect, or counts a clip that was removed.             *)
LEMMA TakenC ==
    ASSUME TInv, TInv', CInv, NEW v \in Videos, NEW code, Taken(code), TopAlert.v = v,
           listed' \subseteq listed, \A w \in Videos : w # v => item'[w] = item[w],
           UNCHANGED <<calls, retry, pairs, world>>,
           v \in listed' => COf(v)'
    PROVE  CInv'
<1>1. /\ \A i \in DOMAIN alerts' : i \in DOMAIN alerts /\ alerts'[i] = alerts[i]
      /\ \A i \in DOMAIN alerts : alerts[i].v # v => i \in DOMAIN alerts'
  BY TakenEntries
<1>2. calls = <<>>
  BY TakenIs
<1>3. Owned'
  BY <1>2, NoEntries DEF Owned
<1>4. Messages'
  BY <1>1 DEF CInv, Messages
<1>5. \A w \in listed : w # v => Apart(w)
  BY <1>1 DEF Apart, SamePairsOf, SameAlertsOf, TInv
<1> QED BY <1>3, <1>4, <1>5, Together

LEMMA ItemRemovedC ==
    ASSUME TInv, TInv', Traces, CInv, OnItemRemoved
    PROVE  CInv'
<1>1. PICK code : Taken(code)
  BY DEF OnItemRemoved
<1>6. PICK v \in Videos : TopAlert.v = v
  BY <1>1, TakenIs
<1>2. /\ calls = <<>> /\ Traced(v)
      /\ UNCHANGED <<calls, retry, pairs, world>> /\ ItemRemoved(v)
  BY <1>1, <1>6, TakenIs DEF OnItemRemoved, Traces
<1>3. CASE v \notin listed /\ listed' = listed /\ item' = item
  BY <1>1, <1>2, <1>3, <1>6, TakenC
<1>4. CASE v \in listed /\ Deleted(v)
  <2>1. /\ v \notin listed' /\ listed' \subseteq listed
        /\ \A w \in Videos : w # v => item'[w] = item[w]
    BY <1>4 DEF Deleted, TInv, ItemsTyped
  <2> QED BY <1>1, <1>2, <2>1, <1>6, TakenC
<1>5. CASE /\ v \in listed /\ item[v].clips - 1 # 0 /\ listed' = listed
           /\ item' = [item EXCEPT ![v].clips = @ - 1]
  <2>1. COf(v) /\ item[v].cur \in Nat /\ item[v].clips \in Int /\ item[v] \in ItemsOf(v)
    BY <1>5, ListedIs
  <2>2. item[v].cur > 0 /\ item[v].clips > 0
    BY <1>2, <2>1 DEF COf, Engaged, Counts
  <2>3. /\ \A w \in Videos : w # v => item'[w] = item[w]
        /\ item'[v] = [item[v] EXCEPT !.clips = @ - 1]
    BY <1>2, <1>5 DEF TInv, ItemsTyped
  <2>4. /\ item'[v].clips = item[v].clips - 1
        /\ item'[v].flags = item[v].flags /\ item'[v].cur = item[v].cur
        /\ item'[v].completed = item[v].completed /\ item'[v].timed = item[v].timed
        /\ item'[v].missing = item[v].missing /\ item'[v].type = item[v].type
        /\ item'[v].handle = item[v].handle
    BY <2>1, <2>3 DEF ItemsOf
  <2>5. item'[v].clips > 0
    BY <1>5, <2>1, <2>2, <2>4
  <2>6. Range(calls) = {} /\ calls' = <<>> /\ Range(calls') = {}
    BY <1>2, NoEntries
  <2>7. /\ ~Asked(v) /\ ~Asked(v)' /\ ~Moving(v) /\ ~Erasing(v) /\ ~Erasing(v)'
        /\ \A f : ~Doing(f, v) /\ ~Doing(f, v)'
    BY <1>2, <2>6 DEF Asked, Moving, Erasing, Doing
  <2>8. /\ IsStream(v) => Is(v, "FINISHED")
        /\ \A k \in Clips(v) : k <= item[v].cur /\ k \in item[v].timed => k \in item[v].completed
        /\ ~Started(v) /\ ~IsStream(v) /\ Is(v, "PAUSED") => item[v].cur = 0
    BY <2>1, <2>7 DEF COf, Idles, First
  <2>9. Waits(v)'
    BY <2>1, <2>2, <2>4, <2>7 DEF COf, Waits, Is, IsStream
  <2>10. SamePairs /\ \A h \in DOMAIN pairs' : pairs'[h].at = pairs[h].at
    BY <1>2, PairsAsTheyAre
  <2>11. \A flag : Is(v, flag)' <=> Is(v, flag)
    BY <2>4 DEF Is
  <2>12. \A i \in DOMAIN alerts' : i \in DOMAIN alerts /\ alerts'[i] = alerts[i]
    BY <1>1, TakenEntries
  <2>13. COf(v)'
    BY <1>2, <1>5, <2>2, <2>4, <2>5, <2>6, <2>7, <2>8, <2>9, <2>10, <2>11, <2>12, NoMore
  <2> QED BY <1>1, <1>2, <1>5, <2>3, <2>13, <1>6, TakenC
<1> QED BY <1>2, <1>3, <1>4, <1>5 DEF ItemRemoved


(* An alert that is taken up: the thread goes on with its clip.              *)
LEMMA TakenUp ==
    ASSUME TInv, TInv', Traces, CInv, NEW v \in listed, NEW c \in CallSet, NEW k \in Clips(v),
           Taken("FINISHED") \/ Taken("SCHEDULED"), TopAlert.v = v, TopAlert.k = k,
           c.v = v, c.k = k, c.do \in {"OnItemComplete", "QueueDownloadItem"},
           calls' = <<c>>, UNCHANGED <<listed, item, retry, pairs, world>>,
           Is(v, "STOPPED") => k = 1 /\ v \notin Playlists /\ c.do = "QueueDownloadItem",
           c.hr \notin {"S_OK", "E_FAIL"} => Started(v),
           c.do = "OnItemComplete" /\ c.hr # "S_OK" /\ Without({"refuse", "moved"}) =>
              k \notin item[v].completed,
           c.do = "QueueDownloadItem" /\ Is(v, "FINISHED") /\ ~IsStream(v) =>
              k \in item[v].timed
    PROVE  CInv'
<1> DEFINE n == Len(alerts)
<1>1. /\ calls = <<>> /\ v \in Videos /\ Traced(v) /\ COf(v)
      /\ TopAlert.code \in {"FINISHED", "SCHEDULED"}
  BY TakenIs, ListedIs DEF Traces
<1>2. /\ n \in DOMAIN alerts /\ TopAlert = alerts[n]
      /\ \A i \in DOMAIN alerts' :
                 i \in DOMAIN alerts /\ i # n /\ alerts'[i] = alerts[i]
      /\ \A i \in DOMAIN alerts : i # n => i \in DOMAIN alerts'
  BY TakenEntries
<1> HIDE DEF n
<1>3. /\ Owned'
      /\ \A w \in Videos : w # v => Passed(w)
      /\ Range(calls) = {} /\ Range(calls') = {c}
      /\ calls' # <<>> /\ Head(calls') = c
      /\ ~Erasing(v) /\ ~Erasing(v)'
  BY <1>1, CalledOnly
<1>4. /\ ~Asked(v) /\ ~Asked(v)' /\ ~Moving(v) /\ \A f : ~Doing(f, v)
      /\ \A f : Doing(f, v)' => f = c.do
  BY <1>1, <1>3 DEF Asked, Moving, Doing
<1>5. /\ \A w : Traced(w)' <=> Traced(w)
      /\ \A f : Is(v, f)' <=> Is(v, f)
      /\ IsStream(v)' <=> IsStream(v)
      /\ Started(v)' <=> Started(v)
  BY DEF Traced, Is, IsStream, Started
<1>6. Told(v, k, n)
  BY <1>1, <1>2 DEF Told
<1>7. item[v].cur > 0 /\ k <= item[v].cur
  <2>1. k \in item[v].completed => k <= item[v].cur
    BY <1>1 DEF COf, Counts
  <2>2. k \notin item[v].completed => k <= item[v].cur
    BY <1>1, <1>6 DEF COf, Once, Handed
  <2>3. item[v].cur > 0
    BY <1>1 DEF COf, Engaged
  <2> QED BY <2>1, <2>2, <2>3
<1>8. Counts(v)'
  BY <1>1 DEF COf, Counts, IsStream
<1>9. Engaged(v)'
  BY <1>1, <1>3, <1>5, <1>7 DEF COf, Engaged
<1>10. Waits(v)'
  <2>1. Waits(v)
    BY <1>1 DEF COf
  <2>2. ~Is(v, "QUEUED") /\ ~Is(v, "FORCE")
    BY <1>4, <1>7, <2>1 DEF Waits
  <2> QED BY <1>4, <1>5, <1>7, <2>2 DEF Waits
<1>11. Stops(v)'
  <2>1. Stops(v)
    BY <1>1 DEF COf
  <2> QED BY <1>3, <1>5, <2>1 DEF Stops, OfClip
<1>12. Idles(v)'
  <2>1. Idles(v)
    BY <1>1 DEF COf
  <2>2. \A e \in Range(calls') : e.v = v /\ e.hr \notin {"S_OK", "E_FAIL"} => Started(v)
    BY <1>3
  <2>3. \A i \in DOMAIN alerts' :
           alerts'[i].v = v /\ alerts'[i].code = "FINISHED" /\ alerts'[i].hr \in Failures
             => Started(v)
    BY <1>2, <2>1 DEF Idles
  <2> QED BY <1>4, <1>5, <2>1, <2>2, <2>3 DEF Idles, May
<1>13. Once(v)'
  <2> SUFFICES ASSUME NEW j \in Clips(v), j \notin item[v].completed
               PROVE  Lone(v, j)' /\ (Handed(v, j)' => Handed(v, j))
    BY <1>1, <1>4, OnceKept DEF COf
  <2>1. Lone(v, j)
    BY <1>1 DEF COf, Once
  <2>2. \A h : Fetched(v, j, h)' <=> Fetched(v, j, h)
    BY DEF Fetched
  <2>3. \A i : Told(v, j, i)' => Told(v, j, i) /\ i # n
    BY <1>2 DEF Told
  <2>4. Retried(v, j)' = Retried(v, j) /\ Retried(v, j) \in Nat
    BY <1>1, ListedIs DEF Retried
  <2>5. CASE j # k
    <3>1. ~Handled(v, j)'
      BY <1>3, <2>5 DEF Handled
    <3> QED BY <2>1, <2>2, <2>3, <2>4, <3>1, FewerHands
  <2>6. CASE j = k
    <3>1. Handed(v, j)
      BY <1>6, <2>6 DEF Handed
    <3>2. (\A h : ~Fetched(v, j, h)) /\ Retried(v, j) = 0
      BY <1>6, <2>1, <2>6 DEF Lone
    <3>3. \A i : ~Told(v, j, i)'
      BY <1>6, <2>1, <2>3, <2>6 DEF Lone
    <3>4. Lone(v, j)'
      BY <2>2, <2>4, <3>2, <3>3 DEF Lone
    <3> QED BY <3>1, <3>4
  <2> QED BY <2>5, <2>6
<1>14. First(v)'
  BY <1>1, <1>4 DEF COf, First
<1>15. Sure(v)'
  <2>1. Sure(v)
    BY <1>1 DEF COf
  <2> QED BY <1>2, <1>3, <1>4, <2>1 DEF Sure, Without
<1>16. Ends(v)'
  <2>1. Ends(v)
    BY <1>1 DEF COf
  <2> QED BY <1>3, <1>4, <1>5, <2>1 DEF Ends
<1>17. COf(v)'
  BY <1>8, <1>9, <1>10, <1>11, <1>12, <1>13, <1>14, <1>15, <1>16 DEF COf
<1>18. \A w \in listed : w # v => Apart(w)
  BY <1>1, <1>2, <1>3 DEF Apart, SamePairsOf, SameAlertsOf, TInv
<1>19. Messages'
  BY <1>2 DEF CInv, Messages
<1> QED BY <1>1, <1>3, <1>17, <1>18, <1>19, Together


(* An alert that is taken and has no effect.                                 *)
LEMMA Dropped ==
    ASSUME TInv, TInv', CInv, NEW v \in Videos, NEW code, Taken(code), TopAlert.v = v,
           UNCHANGED <<listed, item, calls, retry, pairs, world>>
    PROVE  CInv'
<1>1. calls = <<>> /\ \A i \in DOMAIN alerts' : i \in DOMAIN alerts /\ alerts'[i] = alerts[i]
  BY TakenIs, TakenEntries
<1>2. ASSUME v \in listed PROVE COf(v)'
  <2>1. COf(v)
    BY <1>2, ListedIs
  <2>2. Range(calls) = {} /\ calls' = <<>> /\ Range(calls') = {}
    BY <1>1, NoEntries
  <2>3. /\ ~Asked(v) /\ ~Asked(v)' /\ ~Moving(v) /\ ~Erasing(v) /\ ~Erasing(v)'
        /\ \A f : ~Doing(f, v) /\ ~Doing(f, v)'
    BY <1>1, <2>2 DEF Asked, Moving, Erasing, Doing
  <2>4. /\ IsStream(v) => Is(v, "FINISHED")
        /\ \A k \in Clips(v) : k <= item[v].cur /\ k \in item[v].timed => k \in item[v].completed
        /\ ~Started(v) /\ ~IsStream(v) /\ Is(v, "PAUSED") => item[v].cur = 0
    BY <2>1, <2>3 DEF COf, Idles, First
  <2>5. Waits(v)'
    BY <2>1, <2>3 DEF COf, Waits, Is, IsStream
  <2>6. SamePairs /\ \A h \in DOMAIN pairs' : pairs'[h].at = pairs[h].at
    BY PairsAsTheyAre
  <2>7. \A flag : Is(v, flag)' <=> Is(v, flag)
    BY DEF Is
  <2> QED BY <1>1, <1>2, <2>2, <2>3, <2>4, <2>5, <2>6, <2>7, NoMore
<1> QED BY <1>2, TakenC

LEMMA FinishedC ==
    ASSUME TInv, TInv', Traces, CInv, OnItemFinished
    PROVE  CInv'
<1>1. /\ Taken("FINISHED") /\ TopAlert.hr # "E_ABORT"
      /\ calls' = IF Known(TopAlert.v) THEN <<Complete(TopAlert.v, TopAlert.k, TopAlert.hr)>>
                  ELSE <<>>
      /\ UNCHANGED <<listed, item, active, queue, allPaused, retry, pairs, fails, ops, world>>
  BY DEF OnItemFinished
<1>2. /\ calls = <<>> /\ TopAlert \in AlertSet /\ TopAlert.v \in Videos
      /\ TopAlert.k \in Clips(TopAlert.v) /\ TopAlert.hr \in Answers
      /\ TopAlert.code = "FINISHED"
  BY <1>1, TakenIs
<1>3. PICK v \in Videos : TopAlert.v = v
  BY <1>2
<1>4. PICK k \in Clips(v) : TopAlert.k = k
  BY <1>2, <1>3
<1>5. CASE ~Known(v)
  BY <1>1, <1>2, <1>3, <1>5, Dropped
<1>6. CASE Known(v)
  <2> DEFINE c == Complete(v, k, TopAlert.hr)
  <2>1. c \in CallSet /\ c.v = v /\ c.k = k /\ c.do = "OnItemComplete" /\ c.hr = TopAlert.hr
    BY <1>2, CallsTyped DEF OfClip, Complete
  <2>2. calls' = <<c>> /\ v \in listed
    BY <1>1, <1>3, <1>4, <1>6 DEF Known
  <2>3. COf(v) /\ ~Is(v, "STOPPED")
    BY <1>6, <2>2, ListedIs DEF Known, COf, Stops
  <2>4. Len(alerts) \in DOMAIN alerts /\ TopAlert = alerts[Len(alerts)]
    BY <1>1, TakenEntries
  <2>5. c.hr # "S_OK" => c.hr \in Failures
    BY <1>1, <1>2, <2>1 DEF Answers
  <2>6. c.hr # "S_OK" => Started(v)
    BY <1>2, <1>3, <2>1, <2>3, <2>4, <2>5 DEF COf, Idles
  <2>7. c.hr # "S_OK" /\ Without({"refuse", "moved"}) => k \notin item[v].completed
    BY <1>2, <1>3, <1>4, <2>1, <2>3, <2>4, <2>5 DEF COf, Sure
  <2> HIDE DEF c
  <2> QED BY <1>1, <1>3, <1>4, <2>1, <2>2, <2>3, <2>6, <2>7, TakenUp
<1> QED BY <1>5, <1>6

LEMMA ScheduledC ==
    ASSUME TInv, TInv', Traces, CInv, OnScheduledEvent
    PROVE  CInv'
<1>1. PICK v \in Videos : TopAlert.v = v
  BY TakenIs DEF OnScheduledEvent
<1>2. /\ Taken("SCHEDULED")
      /\ calls' = IF v \in listed /\ ~Is(v, "PAUSED")
                  THEN <<CallClip("QueueDownloadItem", v, 1)>> ELSE <<>>
      /\ UNCHANGED <<listed, item, active, queue, allPaused, retry, pairs, fails, ops, world>>
  BY <1>1 DEF OnScheduledEvent
<1>3. calls = <<>> /\ TopAlert.code = "SCHEDULED"
  BY <1>2, TakenIs
<1>4. Len(alerts) \in DOMAIN alerts /\ TopAlert = alerts[Len(alerts)]
  BY <1>2, TakenEntries
<1>5. v \notin Playlists /\ TopAlert.k = 1 /\ 1 \in Clips(v)
  BY <1>1, <1>3, <1>4, Settings DEF CInv, Messages
<1>6. CASE ~(v \in listed /\ ~Is(v, "PAUSED"))
  BY <1>1, <1>2, <1>3, <1>6, Dropped
<1>7. CASE v \in listed /\ ~Is(v, "PAUSED")
  <2> DEFINE c == CallClip("QueueDownloadItem", v, 1)
  <2>1. c \in CallSet /\ c.v = v /\ c.k = 1 /\ c.do = "QueueDownloadItem" /\ c.hr = "S_OK"
    BY <1>5, CallsTyped DEF OfClip, CallClip
  <2>2. calls' = <<c>> /\ COf(v)
    BY <1>2, <1>7, ListedIs
  <2>3. Is(v, "FINISHED") /\ ~IsStream(v) => 1 \in item[v].timed
    BY <1>5, <2>2 DEF COf, Ends
  <2> HIDE DEF c
  <2> QED BY <1>1, <1>2, <1>5, <1>7, <2>1, <2>2, <2>3, TakenUp
<1> QED BY <1>6, <1>7

LEMMA FoundC ==
    ASSUME TInv, CInv, OnTorrentFound
    PROVE  FALSE
<1>1. Taken("TORRENT") /\ TopAlert.code = "TORRENT"
  BY TakenIs DEF OnTorrentFound
<1>2. Len(alerts) \in DOMAIN alerts /\ TopAlert = alerts[Len(alerts)]
  BY <1>1, TakenEntries
<1> QED BY <1>1, <1>2 DEF CInv, Messages


(* One alert is pushed, if there is room for it.                             *)
LEMMA OnePushed ==
    ASSUME TInv, NEW a \in AlertSet, alerts' = Push(alerts, <<a>>)
    PROVE  /\ \A i \in DOMAIN alerts : i \in DOMAIN alerts' /\ alerts'[i] = alerts[i]
           /\ \A i \in DOMAIN alerts' :
                 i \in DOMAIN alerts \/ (i = Len(alerts) + 1 /\ alerts'[i] = a)
           /\ Len(alerts) + 1 \notin DOMAIN alerts
           /\ Len(alerts) < MaxAlerts =>
                 Len(alerts) + 1 \in DOMAIN alerts' /\ alerts'[Len(alerts) + 1] = a
<1> DEFINE s == <<a>>
<1>1. /\ alerts \in Seq(AlertSet) /\ Len(alerts) <= MaxAlerts /\ MaxAlerts \in Nat
      /\ s \in Seq(AlertSet) /\ Len(s) = 1 /\ s[1] = a /\ Range(s) = {a}
  BY OneEntry, Settings DEF TInv
<1>6. alerts' = Push(alerts, s)
  OBVIOUS
<1> HIDE DEF s
<1>2. /\ Len(alerts) \in Nat /\ DOMAIN alerts = 1..Len(alerts)
      /\ alerts' \in Seq(AlertSet) /\ Len(alerts') \in Nat /\ DOMAIN alerts' = 1..Len(alerts')
  <2>1. alerts' \in Seq(AlertSet)
    BY <1>1, <1>6, Pushed
  <2> QED BY <1>1, <2>1, SeqEntries
<1>3. /\ \A i \in DOMAIN alerts : i \in DOMAIN alerts' /\ alerts'[i] = alerts[i]
      /\ \A i \in DOMAIN alerts' :
            i \in DOMAIN alerts \/ (i > Len(alerts) /\ alerts'[i] \in Range(s))
      /\ Len(alerts) + Len(s) <= MaxAlerts =>
            \A j \in 1..Len(s) : /\ Len(alerts) + j \in DOMAIN alerts'
                                     /\ alerts'[Len(alerts) + j] = s[j]
      /\ Len(alerts') <= Len(alerts) + Len(s)
  <2> DEFINE u == Push(alerts, s)
  <2>1. /\ \A i \in DOMAIN alerts : i \in DOMAIN u /\ u[i] = alerts[i]
        /\ \A i \in DOMAIN u :
              i \in DOMAIN alerts \/ (i > Len(alerts) /\ u[i] \in Range(s))
        /\ Len(alerts) + Len(s) <= MaxAlerts =>
              \A j \in 1..Len(s) : /\ Len(alerts) + j \in DOMAIN u
                                   /\ u[Len(alerts) + j] = s[j]
        /\ Len(u) <= Len(alerts) + Len(s)
    BY <1>1, PushedEntries
  <2>2. alerts' = u
    BY <1>6
  <2> HIDE DEF u
  <2> QED BY <2>1, <2>2
<1>4. \A i \in DOMAIN alerts' :
            i \in DOMAIN alerts \/ (i = Len(alerts) + 1 /\ alerts'[i] = a)
  BY <1>1, <1>2, <1>3
<1>5. Len(alerts) < MaxAlerts =>
         Len(alerts) + 1 \in DOMAIN alerts' /\ alerts'[Len(alerts) + 1] = a
  <2>1. 1 \in 1..Len(s)
    BY <1>1
  <2> QED BY <1>1, <1>2, <1>3, <2>1
<1> QED BY <1>2, <1>3, <1>4, <1>5

(* The conjuncts that a step outside of m_Sync does not touch.               *)
LEMMA Outside ==
    ASSUME TInv, SamePairs, UNCHANGED <<item, calls, world>>, NEW v, COf(v)
    PROVE  Counts(v)' /\ Engaged(v)' /\ Waits(v)' /\ Stops(v)' /\ First(v)' /\ Ends(v)'
<1>1. /\ Traced(v)' <=> Traced(v)
      /\ \A f : Is(v, f)' <=> Is(v, f)
      /\ IsStream(v)' <=> IsStream(v)
      /\ Started(v)' <=> Started(v)
      /\ Asked(v)' <=> Asked(v)
      /\ Erasing(v)' <=> Erasing(v)
      /\ \A f : Doing(f, v)' <=> Doing(f, v)
  BY TracedSame DEF Is, IsStream, Started, Asked, Erasing, Doing
<1>2. Counts(v)'
  BY <1>1 DEF COf, Counts
<1>3. Engaged(v)'
  BY <1>1 DEF COf, Engaged
<1>4. Waits(v)'
  BY <1>1 DEF COf, Waits
<1>5. Stops(v)'
  BY <1>1 DEF COf, Stops
<1>6. First(v)'
  BY <1>1 DEF COf, First
<1>7. Ends(v)'
  BY <1>1 DEF COf, Ends
<1> QED BY <1>2, <1>3, <1>4, <1>5, <1>6, <1>7

(* The retry of a clip becomes an alert.                                     *)
LEMMA ScheduleC ==
    ASSUME TInv, TInv', CInv, NEW v \in Videos, ProcessSchedule(v)
    PROVE  CInv'
<1> DEFINE a == [code |-> "SCHEDULED", v |-> v, k |-> 1, hr |-> "S_OK"]
           n == Len(alerts) + 1
<1>1. /\ UNCHANGED <<listed, item, active, queue, allPaused, calls, pairs, world>>
      /\ retry[v] > 0 /\ retry' = [retry EXCEPT ![v] = @ - 1]
      /\ alerts' = Push(alerts, <<a>>)
  BY DEF ProcessSchedule
<1>2. a \in AlertSet /\ a.code = "SCHEDULED" /\ a.v = v /\ a.k = 1 /\ a.hr = "S_OK"
  BY Settings DEF AlertSet, Codes, Answers
<1> HIDE DEF a
<1>3. /\ \A i \in DOMAIN alerts : i \in DOMAIN alerts' /\ alerts'[i] = alerts[i]
      /\ \A i \in DOMAIN alerts' :
            i \in DOMAIN alerts \/ (i = n /\ alerts'[i] = a)
      /\ n \notin DOMAIN alerts
  BY <1>1, <1>2, OnePushed
<1> HIDE DEF n
<1>4. /\ retry[v] \in Nat /\ retry'[v] = retry[v] - 1
      /\ \A w \in Videos : w # v => retry'[w] = retry[w]
  BY <1>1 DEF TInv
<1>5. SamePairs
  BY <1>1, PairsUntouched
<1>6. ASSUME v \in listed PROVE COf(v)'
  <2>1. COf(v)
    BY <1>6, ListedIs
  <2>2. Counts(v)' /\ Engaged(v)' /\ Waits(v)' /\ Stops(v)' /\ First(v)' /\ Ends(v)'
    BY <1>1, <1>5, <2>1, Outside
  <2>3. \A i \in DOMAIN alerts' : alerts'[i].code = "FINISHED" =>
           i \in DOMAIN alerts /\ alerts'[i] = alerts[i]
    BY <1>2, <1>3
  <2>4. /\ \A f : Is(v, f)' <=> Is(v, f)
        /\ IsStream(v)' <=> IsStream(v)
        /\ Started(v)' <=> Started(v)
        /\ Asked(v)' <=> Asked(v)
        /\ Moving(v)' <=> Moving(v)
        /\ \A f : Doing(f, v)' <=> Doing(f, v)
    BY <1>1 DEF Is, IsStream, Started, Asked, Moving, Doing
  <2>5. Idles(v)'
    <3>1. Idles(v)
      BY <2>1 DEF COf
    <3> QED BY <1>1, <2>3, <2>4, <3>1 DEF Idles, May
  <2>6. Sure(v)'
    <3>1. Sure(v)
      BY <2>1 DEF COf
    <3> QED BY <1>1, <2>3, <2>4, <3>1 DEF Sure, Without
  <2>7. Once(v)'
    <3> SUFFICES ASSUME NEW j \in Clips(v), j \notin item[v].completed
                 PROVE  Lone(v, j)' /\ (Handed(v, j)' => Handed(v, j))
      BY <1>1, <2>1, <2>4, OnceKept DEF COf
    <3>1. Lone(v, j)
      BY <2>1 DEF COf, Once
    <3>2. /\ \A h : Fetched(v, j, h)' <=> Fetched(v, j, h)
          /\ Handled(v, j)' <=> Handled(v, j)
      BY <1>1 DEF Fetched, Handled
    <3>3. CASE j # 1
      <4>1. \A i : Told(v, j, i)' => Told(v, j, i)
        BY <1>2, <1>3, <3>3 DEF Told
      <4>2. Retried(v, j)' = 0 /\ Retried(v, j) = 0
        BY <3>3 DEF Retried
      <4> QED BY <3>1, <3>2, <4>1, <4>2, FewerHands
    <3>4. CASE j = 1
      <4>1. Retried(v, j)' = retry[v] - 1 /\ Retried(v, j) = retry[v]
        BY <1>4, <3>4 DEF Retried
      <4>2. /\ retry[v] = 1 /\ (\A h : ~Fetched(v, j, h)) /\ (\A i : ~Told(v, j, i))
            /\ ~Handled(v, j)
        BY <1>1, <1>4, <3>1, <4>1 DEF Lone
      <4>3. \A i : Told(v, j, i)' => i = n
        BY <1>3, <4>2 DEF Told
      <4>4. Handed(v, j)
        BY <1>1, <4>1 DEF Handed
      <4> QED BY <3>2, <4>1, <4>2, <4>3, <4>4 DEF Lone
    <3> QED BY <3>3, <3>4
  <2> QED BY <2>2, <2>5, <2>6, <2>7 DEF COf
<1>7. \A w \in listed : w # v => Apart(w)
  BY <1>1, <1>2, <1>3, <1>4 DEF Apart, SamePairsOf, SameAlertsOf, TInv
<1>8. Messages'
  <2>1. v \notin Playlists
    BY <1>1 DEF CInv, Messages
  <2>2. \A i \in DOMAIN alerts' :
          /\ alerts'[i].code # "TORRENT"
          /\ alerts'[i].code = "SCHEDULED" => alerts'[i].v \notin Playlists /\ alerts'[i].k = 1
    BY <1>2, <1>3, <2>1 DEF CInv, Messages
  <2>3. \A w \in Videos : retry'[w] > 0 => w \notin Playlists
    BY <1>4, <2>1 DEF CInv, Messages
  <2> QED BY <1>1, <2>2, <2>3 DEF CInv, Messages
<1>9. Owned'
  BY <1>1 DEF CInv, Owned
<1> QED BY <1>1, <1>6, <1>7, <1>8, <1>9, Together


(* What a step of the clip downloader does to its pair, and the alert it     *)
(* pushes, where nobody finds a torrent.                                     *)
LEMMA TransferHow ==
    ASSUME TInv, CInv, world.bittorrent = {}, NEW h \in DOMAIN pairs, TransferStep(h)
    PROVE  /\ UNCHANGED <<listed, item, active, queue, calls, retry, world>>
           /\ DOMAIN pairs' = DOMAIN pairs /\ \A g \in DOMAIN pairs : g # h => pairs'[g] = pairs[g]
           /\ pairs'[h].v = pairs[h].v /\ pairs'[h].k = pairs[h].k
           /\ pairs'[h].paused = pairs[h].paused
           /\ \/ pairs[h].at = "http" /\ pairs'[h].at = "torrent" /\ alerts' = alerts
              \/ \E a \in AlertSet :
                    /\ a.v = pairs[h].v /\ a.k = pairs[h].k /\ alerts' = Push(alerts, <<a>>)
                    /\ \/ /\ pairs[h].at \in {"http", "torrent"}
                          /\ pairs'[h].at \in {"idle", "seeding"}
                          /\ a.code = "FINISHED"
                          /\ a.hr = "E_ABORT" => May("abort")
                          /\ a.hr \in Failures =>
                                /\ pairs[h].at = "http" /\ ~pairs[h].paused /\ a.hr # "E_FAIL"
                                /\ a.v \in Playlists /\ a.k = ClipCount[a.v] => May("last-fails")
                       \/ /\ pairs[h].at = "seeding" /\ pairs'[h].at = "idle"
                          /\ a.code = "REMOVED" /\ a.hr = "S_OK" /\ May("rotate")
<1> DEFINE v == pairs[h].v
           k == pairs[h].k
           A(code, hr) == [code |-> code, v |-> v, k |-> k, hr |-> hr]
<1>1. /\ pairs[h] \in PairSet /\ pairs \in Seq(PairSet) /\ h \in 1..Len(pairs)
      /\ DOMAIN pairs = 1..Len(pairs) /\ \A i \in DOMAIN pairs : pairs[i] \in PairSet
  BY SeqEntries, ElementOfSeq DEF TInv
<1>2. /\ v \in Videos /\ k \in Clips(v) /\ k \in Nat
      /\ \A code \in Codes, hr \in Answers : A(code, hr) \in AlertSet
  BY <1>1 DEF PairSet, AlertSet
<1>3. ASSUME NEW code, NEW hr
      PROVE  /\ A(code, hr).v = v /\ A(code, hr).k = k
             /\ A(code, hr).code = code /\ A(code, hr).hr = hr
             /\ Alert(code, h, hr) => alerts' = Push(alerts, <<A(code, hr)>>)
  BY DEF Alert
<1> HIDE DEF A
<1>4. ASSUME NEW from, NEW to, Moves(h, from, to)
      PROVE  /\ pairs[h].at = from /\ pairs'[h].at = to
             /\ DOMAIN pairs' = DOMAIN pairs
             /\ \A g \in DOMAIN pairs : g # h => pairs'[g] = pairs[g]
             /\ pairs'[h].v = v /\ pairs'[h].k = k /\ pairs'[h].paused = pairs[h].paused
  <2>1. pairs[h].at = from /\ pairs' = [pairs EXCEPT ![h] = [pairs[h] EXCEPT !.at = to]]
    BY <1>4 DEF Moves
  <2>2. pairs'[h] = [pairs[h] EXCEPT !.at = to]
    BY <1>1, <2>1
  <2>3. DOMAIN pairs' = DOMAIN pairs /\ \A g \in DOMAIN pairs : g # h => pairs'[g] = pairs[g]
    BY <2>1
  <2> QED BY <1>1, <2>1, <2>2, <2>3 DEF PairSet
<1> HIDE DEF v, k
<1>5. /\ UNCHANGED <<listed, item, active, queue, calls, retry, world>>
      /\ \/ Moves(h, "http", "torrent") /\ alerts' = alerts
         \/ \E from \in {"http", "torrent"}, to \in {"idle", "seeding"}, hr \in Answers :
               /\ Moves(h, from, to) /\ Alert("FINISHED", h, hr)
               /\ hr = "E_ABORT" => May("abort")
               /\ hr \in Failures =>
                     /\ from = "http" /\ ~pairs[h].paused /\ hr # "E_FAIL"
                     /\ v \in Playlists /\ k = ClipCount[v] => May("last-fails")
         \/ Moves(h, "seeding", "idle") /\ Alert("REMOVED", h, "S_OK") /\ May("rotate")
  <2>1. CASE HttpDone(h)
    <3>1. "S_OK" \in Answers /\ "S_OK" \notin Failures
      BY DEF Answers, Failures
    <3> QED BY <2>1, <3>1 DEF HttpDone
  <2>2. CASE ContentType(h)
    BY <2>2 DEF ContentType, Moves, CInv, Messages
  <2>3. CASE TorrentFinished(h)
    <3>1. "S_OK" \in Answers /\ "S_OK" \notin Failures
      BY DEF Answers, Failures
    <3> QED BY <2>3, <3>1 DEF TorrentFinished
  <2>4. CASE HttpFailed(h)
    <3>1. PICK hr \in {"E_HTTP_NET_ERROR"} \cup
                        (IF May("gone") THEN {"E_HTTP_NOTFOUND"} ELSE {}) :
             Alert("FINISHED", h, hr)
      BY <2>4 DEF HttpFailed
    <3>2. hr \in Answers /\ hr # "E_ABORT" /\ hr # "E_FAIL"
      BY <3>1 DEF Answers, Failures
    <3> QED BY <2>4, <3>1, <3>2 DEF HttpFailed, v, k
  <2>5. CASE HttpAborted(h)
    <3>1. "E_ABORT" \in Answers /\ "E_ABORT" \notin Failures
      BY DEF Answers, Failures
    <3> QED BY <2>5, <3>1 DEF HttpAborted
  <2>6. CASE TorrentRotated(h)
    BY <2>6 DEF TorrentRotated
  <2> QED BY <2>1, <2>2, <2>3, <2>4, <2>5, <2>6 DEF TransferStep, Transfer
<1>6. CASE Moves(h, "http", "torrent") /\ alerts' = alerts
  BY <1>4, <1>5, <1>6 DEF v, k
<1>7. ASSUME NEW from \in {"http", "torrent"}, NEW to \in {"idle", "seeding"}, NEW hr \in Answers,
             Moves(h, from, to), Alert("FINISHED", h, hr), hr = "E_ABORT" => May("abort"),
             hr \in Failures =>
                     /\ from = "http" /\ ~pairs[h].paused /\ hr # "E_FAIL"
                     /\ v \in Playlists /\ k = ClipCount[v] => May("last-fails")
      PROVE  \E a \in AlertSet :
                    /\ a.v = v /\ a.k = k /\ alerts' = Push(alerts, <<a>>)
                    /\ a.code = "FINISHED" /\ a.hr = hr
  <2>1. A("FINISHED", hr) \in AlertSet
    BY <1>2 DEF Codes
  <2> QED BY <1>3, <1>7, <2>1
<1>8. ASSUME Alert("REMOVED", h, "S_OK")
      PROVE  \E a \in AlertSet :
                    /\ a.v = v /\ a.k = k /\ alerts' = Push(alerts, <<a>>)
                    /\ a.code = "REMOVED" /\ a.hr = "S_OK"
  <2>1. A("REMOVED", "S_OK") \in AlertSet
    BY <1>2 DEF Codes, Answers
  <2> QED BY <1>3, <1>8, <2>1
<1>9. CASE \E from \in {"http", "torrent"}, to \in {"idle", "seeding"}, hr \in Answers :
               /\ Moves(h, from, to) /\ Alert("FINISHED", h, hr)
               /\ hr = "E_ABORT" => May("abort")
               /\ hr \in Failures =>
                     /\ from = "http" /\ ~pairs[h].paused /\ hr # "E_FAIL"
                     /\ v \in Playlists /\ k = ClipCount[v] => May("last-fails")
  <2>1. PICK from \in {"http", "torrent"}, to \in {"idle", "seeding"}, hr \in Answers :
               /\ Moves(h, from, to) /\ Alert("FINISHED", h, hr)
               /\ hr = "E_ABORT" => May("abort")
               /\ hr \in Failures =>
                     /\ from = "http" /\ ~pairs[h].paused /\ hr # "E_FAIL"
                     /\ v \in Playlists /\ k = ClipCount[v] => May("last-fails")
    BY <1>9
  <2>2. PICK a \in AlertSet : /\ a.v = v /\ a.k = k /\ alerts' = Push(alerts, <<a>>)
                              /\ a.code = "FINISHED" /\ a.hr = hr
    BY <1>7, <2>1
  <2> QED BY <1>4, <1>5, <2>1, <2>2 DEF v, k
<1>10. CASE Moves(h, "seeding", "idle") /\ Alert("REMOVED", h, "S_OK") /\ May("rotate")
  <2>1. PICK a \in AlertSet : /\ a.v = v /\ a.k = k /\ alerts' = Push(alerts, <<a>>)
                              /\ a.code = "REMOVED" /\ a.hr = "S_OK"
    BY <1>8, <1>10
  <2> QED BY <1>4, <1>5, <1>10, <2>1 DEF v, k
<1> QED BY <1>5, <1>6, <1>9, <1>10

LEMMA TransferC ==
    ASSUME TInv, TInv', CInv, Plain, NEW h \in DOMAIN pairs, TransferStep(h)
    PROVE  CInv'
<1>1. SamePairs
  BY TransferDoes
<1>2. /\ UNCHANGED <<listed, item, active, queue, calls, retry, world>>
      /\ DOMAIN pairs' = DOMAIN pairs /\ \A g \in DOMAIN pairs : g # h => pairs'[g] = pairs[g]
      /\ pairs'[h].v = pairs[h].v /\ pairs'[h].k = pairs[h].k
      /\ pairs'[h].at \in {"torrent", "idle", "seeding"}
  BY TransferHow DEF Plain
<1>0. pairs[h] \in PairSet
  BY ElementOfSeq, SeqEntries DEF TInv
<1>3. PICK v \in Videos : v = pairs[h].v
  BY <1>0 DEF PairSet
<1>4. PICK k \in Clips(v) : k = pairs[h].k
  BY <1>0, <1>3 DEF PairSet
<1>5. /\ \A i \in DOMAIN alerts : i \in DOMAIN alerts' /\ alerts'[i] = alerts[i]
      /\ \A i \in DOMAIN alerts' : i \notin DOMAIN alerts =>
            /\ i = Len(alerts) + 1 /\ alerts'[i].v = v /\ alerts'[i].k = k
            /\ \/ alerts'[i].code = "REMOVED"
               \/ /\ alerts'[i].code = "FINISHED" /\ pairs[h].at \in {"http", "torrent"}
                  /\ pairs'[h].at \notin {"http", "torrent"}
                  /\ alerts'[i].hr \in Failures => pairs[h].at = "http"
      /\ \/ pairs[h].at \in {"http", "torrent"}
         \/ pairs'[h].at \notin {"http", "torrent"}
  <2>1. CASE pairs[h].at = "http" /\ pairs'[h].at = "torrent" /\ alerts' = alerts
    BY <2>1
  <2>2. ASSUME NEW a \in AlertSet, alerts' = Push(alerts, <<a>>),
               a.v = pairs[h].v, a.k = pairs[h].k,
               \/ /\ pairs[h].at \in {"http", "torrent"}
                  /\ pairs'[h].at \in {"idle", "seeding"}
                  /\ a.code = "FINISHED"
                  /\ a.hr \in Failures => pairs[h].at = "http"
               \/ /\ pairs[h].at = "seeding" /\ pairs'[h].at = "idle"
                  /\ a.code = "REMOVED"
        PROVE  /\ \A i \in DOMAIN alerts : i \in DOMAIN alerts' /\ alerts'[i] = alerts[i]
               /\ \A i \in DOMAIN alerts' : i \notin DOMAIN alerts =>
                     /\ i = Len(alerts) + 1 /\ alerts'[i].v = v /\ alerts'[i].k = k
                     /\ \/ alerts'[i].code = "REMOVED"
                        \/ /\ alerts'[i].code = "FINISHED" /\ pairs[h].at \in {"http", "torrent"}
                           /\ pairs'[h].at \notin {"http", "torrent"}
                           /\ alerts'[i].hr \in Failures => pairs[h].at = "http"
               /\ \/ pairs[h].at \in {"http", "torrent"}
                  \/ pairs'[h].at \notin {"http", "torrent"}
    <3>1. /\ \A i \in DOMAIN alerts : i \in DOMAIN alerts' /\ alerts'[i] = alerts[i]
          /\ \A i \in DOMAIN alerts' :
                i \in DOMAIN alerts \/ (i = Len(alerts) + 1 /\ alerts'[i] = a)
      BY <2>2, OnePushed
    <3> QED BY <1>3, <1>4, <2>2, <3>1
  <2> QED BY <2>1, <2>2, TransferHow DEF Plain
<1>6. ASSUME v \in listed PROVE COf(v)'
  <2>1. COf(v)
    BY <1>6, ListedIs
  <2>2. Counts(v)' /\ Engaged(v)' /\ Waits(v)' /\ Stops(v)' /\ First(v)' /\ Ends(v)'
    BY <1>1, <1>2, <2>1, Outside
  <2>3. /\ \A f : Is(v, f)' <=> Is(v, f)
        /\ IsStream(v)' <=> IsStream(v)
        /\ Started(v)' <=> Started(v)
        /\ Asked(v)' <=> Asked(v)
        /\ Moving(v)' <=> Moving(v)
        /\ \A f : Doing(f, v)' <=> Doing(f, v)
    BY <1>2 DEF Is, IsStream, Started, Asked, Moving, Doing
  <2>4. \A g \in DOMAIN pairs' : pairs'[g].at = "http" =>
           g \in DOMAIN pairs /\ pairs'[g] = pairs[g]
    BY <1>2
  <2>5. Idles(v)'
    <3>1. Idles(v)
      BY <2>1 DEF COf
    <3>2. \A g \in DOMAIN pairs' : pairs'[g].v = v /\ pairs'[g].at = "http" => Started(v)
      BY <2>4, <3>1 DEF Idles
    <3>3. \A i \in DOMAIN alerts' :
             alerts'[i].v = v /\ alerts'[i].code = "FINISHED" /\ alerts'[i].hr \in Failures
               => Started(v)
      BY <1>3, <1>5, <3>1 DEF Idles
    <3> QED BY <1>2, <2>3, <3>1, <3>2, <3>3 DEF Idles, May
  <2>6. Sure(v)'
    <3> SUFFICES ASSUME Without({"refuse", "moved"}) PROVE Sure(v)'
      BY <1>2 DEF Sure, Without
    <3>1. Sure(v)
      BY <2>1 DEF COf
    <3>2. \A g \in DOMAIN pairs' : pairs'[g].v = v /\ pairs'[g].at = "http" =>
             pairs'[g].k \notin item[v].completed
      BY <2>4, <3>1 DEF Sure
    <3>3. \A i \in DOMAIN alerts' :
             alerts'[i].v = v /\ alerts'[i].code = "FINISHED" /\ alerts'[i].hr \in Failures
               => alerts'[i].k \notin item[v].completed
      BY <1>3, <1>4, <1>5, <3>1 DEF Sure
    <3> QED BY <1>2, <2>3, <3>1, <3>2, <3>3 DEF Sure
  <2>7. Once(v)'
    <3> SUFFICES ASSUME NEW j \in Clips(v), j \notin item[v].completed
                 PROVE  Lone(v, j)' /\ (Handed(v, j)' => Handed(v, j))
      BY <1>2, <2>1, <2>3, OnceKept DEF COf
    <3>1. Lone(v, j)
      BY <2>1 DEF COf, Once
    <3>2. /\ Retried(v, j)' = Retried(v, j) /\ Retried(v, j) \in Nat
          /\ Handled(v, j)' <=> Handled(v, j)
      BY <1>2, <1>6, ListedIs DEF Retried, Handled
    <3>3. \A g : Fetched(v, j, g)' => Fetched(v, j, g)
      BY <1>2, <1>5 DEF Fetched
    <3>4. CASE \A i : Told(v, j, i)' => Told(v, j, i)
      BY <3>1, <3>2, <3>3, <3>4, FewerHands
    <3>5. CASE ~(\A i : Told(v, j, i)' => Told(v, j, i))
      <4>1. PICK n : Told(v, j, n)' /\ ~Told(v, j, n)
        BY <3>5
      <4>2. n \in DOMAIN alerts' /\ n \notin DOMAIN alerts /\ alerts'[n].k = j
            /\ alerts'[n].code # "REMOVED"
        BY <1>5, <4>1 DEF Told
      <4>3. /\ n = Len(alerts) + 1 /\ j = k /\ pairs[h].at \in {"http", "torrent"}
            /\ pairs'[h].at \notin {"http", "torrent"}
        BY <1>5, <4>2
      <4>4. Fetched(v, j, h) /\ ~Fetched(v, j, h)'
        BY <1>3, <1>4, <4>3 DEF Fetched
      <4>5. (\A g : ~Fetched(v, j, g)') /\ (\A i : ~Told(v, j, i))
            /\ Retried(v, j) = 0 /\ ~Handled(v, j)
        BY <3>1, <3>3, <4>4 DEF Lone
      <4>6. \A i : Told(v, j, i)' => i = n
        BY <1>5, <4>3, <4>5 DEF Told
      <4>7. Handed(v, j)
        BY <4>4 DEF Handed
      <4> QED BY <3>2, <4>5, <4>6, <4>7 DEF Lone
    <3> QED BY <3>4, <3>5
  <2> QED BY <2>2, <2>5, <2>6, <2>7 DEF COf
<1>7. \A w \in listed : w # v => Apart(w)
  BY <1>2, <1>3, <1>5 DEF Apart, SamePairsOf, SameAlertsOf, TInv
<1>8. Messages'
  <2>1. \A g \in DOMAIN pairs' : pairs'[g].at # "typing"
    BY <1>2 DEF CInv, Messages
  <2>2. \A i \in DOMAIN alerts' :
          /\ alerts'[i].code # "TORRENT"
          /\ alerts'[i].code = "SCHEDULED" => alerts'[i].v \notin Playlists /\ alerts'[i].k = 1
    BY <1>5 DEF CInv, Messages
  <2> QED BY <1>2, <2>1, <2>2 DEF CInv, Messages
<1>9. Owned'
  BY <1>2 DEF CInv, Owned
<1> QED BY <1>2, <1>6, <1>7, <1>8, <1>9, Together


LEMMA CInit == Init => CInv
<1> SUFFICES ASSUME Init PROVE CInv
  OBVIOUS
<1>1. /\ calls = <<>> /\ listed = {} /\ alerts = <<>> /\ pairs = <<>>
      /\ \A v \in Videos : retry[v] = 0
  BY DEF Init
<1>2. Range(calls) = {} /\ Behind(calls) = {} /\ DOMAIN alerts = {} /\ DOMAIN pairs = {}
  BY <1>1, NoEntries
<1>3. Messages /\ Owned
  BY <1>1, <1>2 DEF Messages, Owned
<1> QED BY <1>1, <1>3 DEF CInv

LEMMA CStep ==
    TInv /\ TInv' /\ Traces /\ Traces' /\ QInv /\ CInv /\ Plain /\ [Next]_vars => CInv' /\ Plain'
<1> SUFFICES ASSUME TInv, TInv', Traces, Traces', QInv, CInv, Plain, [Next]_vars
             PROVE  CInv' /\ Plain'
  OBVIOUS
<1>1. ASSUME NEW v \in Videos, Body(v) PROVE CInv' /\ Plain'
  <2>1. CInv'
    BY <1>1, QueueDownloadC, QueueNextC, QueueItemC, AddClipC, ItemCompleteC, CompleteC, EraseC,
       CountC, ResumeC DEF Body
  <2> QED BY <1>1, <2>1, BodyIsSeen DEF BodySeen, Plain, Without, May
<1>2. CASE /\ SamePairs /\ world' = world
           /\ \/ \E v \in Videos : User(v) \/ ProcessSchedule(v)
              \/ PauseAll \/ ResumeAll \/ Notify
              \/ \E h \in DOMAIN pairs : TransferStep(h)
              \/ UNCHANGED vars
  <2>1. ASSUME NEW v \in Videos, User(v) PROVE CInv'
    BY <2>1, AddC, StartC, RemoveC, PauseC, ResumeCallsC DEF User
  <2>2. ASSUME NEW v \in Videos, ProcessSchedule(v) PROVE CInv'
    BY <2>2, ScheduleC
  <2>3. ASSUME Notify PROVE CInv'
    BY <2>3, ItemRemovedC, FinishedC, ScheduledC, FoundC DEF Notify
  <2>4. ASSUME NEW h \in DOMAIN pairs, TransferStep(h) PROVE CInv'
    BY <2>4, TransferC
  <2>5. ASSUME UNCHANGED vars PROVE CInv'
    <3>1. UNCHANGED <<listed, item, calls, alerts, retry, pairs, world>>
      BY <2>5 DEF vars
    <3>2. \A w \in listed : Apart(w)
      BY <3>1 DEF Apart, SamePairsOf, SameAlertsOf
    <3>3. Messages' /\ Owned'
      BY <3>1 DEF CInv, Messages, Owned
    <3>4. \A w \in listed : COf(w)'
      BY <3>2, ApartKeeps
    <3> QED BY <3>1, <3>3, <3>4 DEF CInv
  <2>6. Plain'
    BY <1>2 DEF Plain, Without, May
  <2> QED BY <1>2, <2>1, <2>2, <2>3, <2>4, <2>5, <2>6, PauseAllC, ResumeCallsC
<1> QED BY <1>1, <1>2, OtherSteps


-----------------------------------------------------------------------------
(* The slots.  While the thread inside m_Sync is about to queue its first    *)
(* clip, a download has its slot already.                                    *)
Clear(v) == ~Is(v, "FINISHED") /\ ~Is(v, "QUEUED") /\ ~Is(v, "STOPPED") /\ ~IsStream(v)

Holds(v) ==
    /\ v \in listed
    /\ item[v].cur > 0 \/ Doing("QueueNextDownloadItem", v)
    /\ Clear(v)

Held == {v \in Videos : Holds(v)}

HInv == active = Cardinality(Held)

(* The worlds in which nobody deletes a paused download or one that is being *)
(* deleted, and no completed clip is fetched again.                          *)
Even == Plain /\ Calm /\ Without({"remove-paused", "remove-again", "moved"})

LEMMA CountedHolds ==
    ASSUME TInv, CInv, AtRest, NEW v \in Videos
    PROVE  Counted(v) <=> Holds(v)
<1>1. ~Doing("QueueNextDownloadItem", v)
  BY DEF AtRest, Doing
<1>2. ASSUME v \in listed
      PROVE  item[v].cur > 0 <=> item[v].clips > 0 \/ Is(v, "ACTIVE")
  <2>1. COf(v) /\ item[v].cur \in Nat /\ item[v].clips \in Int
    BY <1>2, ListedIs
  <2>2. Counts(v) /\ Engaged(v)
    BY <2>1 DEF COf
  <2> QED BY <2>1, <2>2 DEF Counts, Engaged
<1>3. item[v].flags \cap {"FINISHED", "QUEUED", "STOPPED"} = {} <=>
        ~Is(v, "FINISHED") /\ ~Is(v, "QUEUED") /\ ~Is(v, "STOPPED")
  BY DEF Is
<1> QED BY <1>1, <1>2, <1>3 DEF Counted, Holds, Clear

(* m_ActiveDownloads follows when one download gets or gives back its slot.  *)
LEMMA Recount ==
    ASSUME HInv, NEW v \in Videos,
           \A w \in Videos : w # v => (Holds(w)' <=> Holds(w)),
           \/ (Holds(v)' <=> Holds(v)) /\ active' = active
           \/ ~Holds(v) /\ Holds(v)' /\ active' = active + 1
           \/ Holds(v) /\ ~Holds(v)' /\ active' = active - 1
    PROVE  HInv'
<1>1. IsFiniteSet(Held) /\ Cardinality(Held) \in Nat
  <2>1. Held \in SUBSET Videos
    BY DEF Held
  <2> QED BY <2>1, Settings, FS_Subset, FS_CardinalityType
<1>2. CASE (Holds(v)' <=> Holds(v)) /\ active' = active
  <2>1. Held' = Held
    BY <1>2 DEF Held
  <2> QED BY <1>2, <2>1 DEF HInv
<1>3. CASE ~Holds(v) /\ Holds(v)' /\ active' = active + 1
  <2>1. Held' = Held \cup {v} /\ v \notin Held
    BY <1>3 DEF Held
  <2> QED BY <1>1, <1>3, <2>1, FS_AddElement DEF HInv
<1>4. CASE Holds(v) /\ ~Holds(v)' /\ active' = active - 1
  <2>1. Held' = Held \ {v} /\ v \in Held
    BY <1>4 DEF Held
  <2> QED BY <1>1, <1>4, <2>1, FS_RemoveElement DEF HInv
<1> QED BY <1>2, <1>3, <1>4

LEMMA HoldsOn ==
    ASSUME NEW w, item'[w] = item[w], w \in listed' <=> w \in listed,
           Doing("QueueNextDownloadItem", w)' <=> Doing("QueueNextDownloadItem", w)
    PROVE  Holds(w)' <=> Holds(w)
BY DEF Holds, Clear, Is, IsStream

(* What comes first after a body.                                            *)
LEMMA NextDoing ==
    ASSUME TInv, QInv, NEW f, NEW v \in Videos, Doing(f, v)
    PROVE  /\ \A w : w # v => ~Doing("QueueNextDownloadItem", w)
           /\ Then(<<>>) => \A w : ~Doing("QueueNextDownloadItem", w)'
           /\ \A c \in CallSet : Then(<<c>>) => \A g, w : Doing(g, w)' <=> g = c.do /\ w = c.v
           /\ \A c, d \in CallSet :
                 Then(<<c, d>>) => \A g, w : Doing(g, w)' <=> g = c.do /\ w = c.v
<1>1. calls # <<>> /\ calls \in Seq(CallSet) /\ Head(calls).v = v
  BY DoingIs
<1>2. \A d \in Behind(calls) : d.do # "QueueNextDownloadItem"
  BY DEF QInv, Stacked, Later
<1>3. Then(<<>>) => \A w : ~Doing("QueueNextDownloadItem", w)'
  BY <1>1, <1>2, ThenNothing DEF Doing
<1>4. ASSUME NEW c \in CallSet, Then(<<c>>)
      PROVE  \A g, w : Doing(g, w)' <=> g = c.do /\ w = c.v
  BY <1>1, <1>4, ThenCall DEF Doing
<1>5. ASSUME NEW c \in CallSet, NEW d \in CallSet, Then(<<c, d>>)
      PROVE  \A g, w : Doing(g, w)' <=> g = c.do /\ w = c.v
  BY <1>1, <1>5, ThenTwoCalls DEF Doing
<1> QED BY <1>1, <1>3, <1>4, <1>5 DEF Doing


LEMMA QueueDownloadH ==
    ASSUME TInv, TInv', QInv, CInv, HInv, NEW v \in Videos, QueueDownload(v)
    PROVE  HInv'
<1> DEFINE goon == Call("QueueNextDownloadItem", v)
<1>1. goon \in CallSet /\ goon.v = v /\ goon.do = "QueueNextDownloadItem"
  BY CallsTyped, CallFields DEF OfVideo
<1> HIDE DEF goon
<1>2. Doing("QueueDownload", v) /\ Asked(v) /\ ~Doing("QueueNextDownloadItem", v)
  BY DoingIs DEF QueueDownload, Doing, Asked
<1>3. v \in listed /\ ~Erasing(v) /\ COf(v)
  BY <1>2, LeftToDo, ListedIs
<1>4. /\ item[v].cur = 0 /\ item'[v].cur = 0 /\ ~Holds(v) /\ ~Is(v, "STOPPED")
      /\ IsStream(v)' <=> IsStream(v)
      /\ Is(v, "FORCE") => ~Is(v, "FINISHED")
  <2>1. item[v].cur = 0 /\ ~Is(v, "STOPPED") /\ (Is(v, "FORCE") => ~Is(v, "FINISHED"))
    BY <1>2, <1>3 DEF COf, Waits
  <2>2. item'[v].cur = item[v].cur /\ item'[v].type = item[v].type
    BY QueueDownloadDoes DEF Reflagged
  <2> QED BY <1>2, <2>1, <2>2 DEF Holds, IsStream
<1>5. listed' = listed /\ \A w \in Videos : w # v => item'[w] = item[w]
  BY QueueDownloadDoes DEF Reflagged
<1>6. CASE /\ (Is(v, "FINISHED") /\ ~Is(v, "PAUSED")) \/ IsStream(v)
           /\ item'[v].flags = item[v].flags /\ Then(<<goon>>) /\ active' = active
  <2>1. ~Holds(v)'
    BY <1>4, <1>6 DEF Holds, Clear, Is
  <2>2. \A w \in Videos : w # v => (Holds(w)' <=> Holds(w))
    BY <1>1, <1>2, <1>5, <1>6, NextDoing, HoldsOn
  <2> QED BY <1>4, <1>6, <2>1, <2>2, Recount
<1>7. CASE Then(<<>>) /\ active' = active
  <2>1. \A w \in Videos : w # v => (Holds(w)' <=> Holds(w))
    BY <1>2, <1>5, <1>7, NextDoing, HoldsOn
  <2>2. ~Holds(v)'
    BY <1>2, <1>4, <1>7, NextDoing DEF Holds
  <2> QED BY <1>4, <1>7, <2>1, <2>2, Recount
<1>8. CASE /\ ~(Is(v, "FINISHED") /\ ~Is(v, "PAUSED")) /\ ~IsStream(v)
           /\ ~(Is(v, "PAUSED") /\ ~Is(v, "FORCE"))
           /\ item'[v].flags = item[v].flags \ {"QUEUED", "FORCE", "PAUSED"}
           /\ Then(<<goon>>) /\ active' = active + 1
  <2>1. ~Is(v, "FINISHED")
    BY <1>4, <1>8
  <2>2. ~Is(v, "FINISHED")' /\ ~Is(v, "QUEUED")' /\ ~Is(v, "STOPPED")'
    BY <1>4, <1>8, <2>1 DEF Is
  <2>3. Doing("QueueNextDownloadItem", v)'
    BY <1>1, <1>2, <1>8, NextDoing
  <2>4. Holds(v)'
    BY <1>3, <1>4, <1>5, <1>8, <2>2, <2>3 DEF Holds, Clear
  <2>5. \A w \in Videos : w # v => (Holds(w)' <=> Holds(w))
    BY <1>1, <1>2, <1>5, <1>8, NextDoing, HoldsOn
  <2> QED BY <1>4, <1>8, <2>4, <2>5, Recount
<1> QED BY <1>6, <1>7, <1>8, QueueDownloadDoes DEF goon

(* A body that neither gives nor takes a slot.                               *)
LEMMA SameSlots ==
    ASSUME TInv, QInv, HInv, NEW f, NEW v \in Videos, Doing(f, v),
           listed' = listed, active' = active, \A w \in Videos : w # v => item'[w] = item[w],
           \/ Then(<<>>)
           \/ \E c \in CallSet : c.v = v /\ Then(<<c>>)
           \/ \E c, d \in CallSet : c.v = v /\ Then(<<c, d>>),
           Holds(v)' <=> Holds(v)
    PROVE  HInv'
<1>1. \A w \in Videos : w # v => ~Doing("QueueNextDownloadItem", w)
  BY NextDoing
<1>2. CASE Then(<<>>)
  <2>1. \A w \in Videos : w # v => (Holds(w)' <=> Holds(w))
    BY <1>1, <1>2, NextDoing, HoldsOn
  <2> QED BY <2>1, Recount
<1>3. ASSUME NEW c \in CallSet, c.v = v, Then(<<c>>) PROVE HInv'
  <2>1. \A w \in Videos : w # v => (Holds(w)' <=> Holds(w))
    BY <1>1, <1>3, NextDoing, HoldsOn
  <2> QED BY <2>1, Recount
<1>4. ASSUME NEW c \in CallSet, NEW d \in CallSet, c.v = v, Then(<<c, d>>) PROVE HInv'
  <2>1. \A w \in Videos : w # v => (Holds(w)' <=> Holds(w))
    BY <1>1, <1>4, NextDoing, HoldsOn
  <2> QED BY <2>1, Recount
<1> QED BY <1>2, <1>3, <1>4

LEMMA QueueNextH ==
    ASSUME TInv, TInv', QInv, CInv, HInv, NEW v \in Videos, QueueNextDownloadItem(v)
    PROVE  HInv'
<1>1. Doing("QueueNextDownloadItem", v) /\ "QueueNextDownloadItem" # "EraseDownload"
  BY DEF QueueNextDownloadItem
<1>2. v \in listed /\ COf(v) /\ item[v].cur \in Nat /\ ClipCount[v] \in Nat /\ ClipCount[v] > 0
  BY <1>1, LeftToDo, ListedIs
<1>3. /\ UNCHANGED <<listed, active>> /\ \A w \in Videos : w # v => item'[w] = item[w]
      /\ item'[v].flags = item[v].flags /\ item'[v].type = item[v].type
      /\ item'[v].cur > 0
      /\ \/ Then(<<>>)
         \/ \E c \in CallSet : c.v = v /\ Then(<<c>>)
  <2>1. CASE /\ item[v].cur < ClipCount[v]
             /\ item'[v].cur = item[v].cur + 1
             /\ item[v].cur + 1 \in Clips(v)
             /\ Then(<<CallClip("QueueDownloadItem", v, item[v].cur + 1)>>)
    <3>1. /\ CallClip("QueueDownloadItem", v, item[v].cur + 1) \in CallSet
          /\ CallClip("QueueDownloadItem", v, item[v].cur + 1).v = v
      BY <2>1, CallsTyped, CallFields DEF OfClip
    <3> QED BY <1>2, <2>1, <3>1, QueueNextDoes
  <2>2. CASE ~(item[v].cur < ClipCount[v]) /\ item'[v] = item[v] /\ Then(<<>>)
    <3>1. item'[v].cur > 0
      BY <1>2, <2>2
    <3>2. /\ UNCHANGED <<listed, active>> /\ \A w \in Videos : w # v => item'[w] = item[w]
          /\ item'[v].flags = item[v].flags /\ item'[v].type = item[v].type
      BY QueueNextDoes
    <3> QED BY <2>2, <3>1, <3>2
  <2> QED BY <2>1, <2>2, QueueNextDoes
<1>4. Holds(v)' <=> Holds(v)
  BY <1>1, <1>2, <1>3 DEF Holds, Clear, Is, IsStream
<1> QED BY <1>1, <1>3, <1>4, SameSlots

LEMMA QueueItemH ==
    ASSUME TInv, TInv', QInv, CInv, HInv, NEW v \in Videos, QueueDownloadItem(v)
    PROVE  HInv'
<1>1. Doing("QueueDownloadItem", v) /\ "QueueDownloadItem" # "EraseDownload"
      /\ "QueueDownloadItem" \in OfClip
  BY DEF QueueDownloadItem, OfClip
<1>2. v \in listed /\ item[v].cur > 0
  BY <1>1, LeftToDo, AtClip
<1>3. UNCHANGED <<listed, item, active>>
  BY QueueItemDoes
<1>4. /\ \/ Then(<<>>)
         \/ \E c \in CallSet : c.v = v /\ Then(<<c>>)
         \/ \E c, d \in CallSet : c.v = v /\ Then(<<c, d>>)
  <2>1. PICK k \in Clips(v) :
                 \/ Then(<<Complete(v, k, "S_OK")>>)
                 \/ Then(<<CallClip("AddClip", v, k)>>)
                 \/ Then(<<Complete(v, k, "S_OK"), CallClip("AddClip", v, k)>>)
    BY QueueItemDoes
  <2>2. /\ Complete(v, k, "S_OK") \in CallSet /\ CallClip("AddClip", v, k) \in CallSet
        /\ Complete(v, k, "S_OK").v = v /\ CallClip("AddClip", v, k).v = v
    BY CallsTyped, CallFields DEF OfClip, Answers
  <2> QED BY <2>1, <2>2
<1>5. Holds(v)' <=> Holds(v)
  BY <1>2, <1>3 DEF Holds, Clear, Is, IsStream
<1> QED BY <1>1, <1>3, <1>4, <1>5, SameSlots

(* A clip is fetched for a download that is not finished.                    *)
LEMMA AddClipH ==
    ASSUME TInv, TInv', QInv, CInv, Even, HInv, NEW v \in Videos, AddClip(v)
    PROVE  HInv'
<1>1. Doing("AddClip", v) /\ "AddClip" # "EraseDownload" /\ "AddClip" \in OfClip
      /\ Head(calls).v = v /\ Head(calls).do = "AddClip"
  BY DoingIs DEF AddClip, OfClip
<1>2. v \in listed /\ COf(v)
  BY <1>1, LeftToDo, ListedIs
<1>3. /\ item[v].cur > 0 /\ Head(calls) \in Range(calls) /\ ~Is(v, "QUEUED") /\ ~IsStream(v)
  BY <1>1, <1>2, AtClip
<1>4. /\ UNCHANGED <<listed, active>> /\ \A w \in Videos : w # v => item'[w] = item[w]
      /\ item'[v].cur = item[v].cur /\ item'[v].type = item[v].type
  BY AddClipDoes, AddClipHow
<1>5. /\ Complete(v, Head(calls).k, "S_OK") \in CallSet
      /\ Complete(v, Head(calls).k, "E_FAIL") \in CallSet
      /\ Complete(v, Head(calls).k, "S_OK").v = v /\ Complete(v, Head(calls).k, "E_FAIL").v = v
  BY AddClipHow, CallsTyped, CallFields DEF Answers, Failures
<1>6. /\ Then(<<>>) \/ \E c \in CallSet : c.v = v /\ Then(<<c>>)
      /\ \/ item'[v].flags = item[v].flags
         \/ /\ item'[v].flags = (item[v].flags \ {"FINISHED", "QUEUED"}) \cup {"ACTIVE"}
            /\ Head(calls).k \notin item[v].timed
  <2>1. ~May("moved")
    BY DEF Even, Without, May
  <2> QED BY <1>5, <2>1, AddClipHow DEF AddRefused, AddKnown, AddStarted
<1>7. \A flag \in {"FINISHED", "QUEUED", "STOPPED"} : Is(v, flag)' <=> Is(v, flag)
  <2>1. Is(v, "FINISHED") => Head(calls).k \in item[v].timed
    BY <1>1, <1>2, <1>3 DEF COf, Ends
  <2> QED BY <1>3, <1>6, <2>1 DEF Is
<1>8. Holds(v)' <=> Holds(v)
  BY <1>2, <1>3, <1>4, <1>7 DEF Holds, Clear, IsStream
<1> QED BY <1>1, <1>4, <1>6, <1>8, SameSlots


LEMMA ItemCompleteH ==
    ASSUME TInv, TInv', Traces, QInv, CInv, HInv, NEW v \in Videos, OnItemComplete(v)
    PROVE  HInv'
<1>1. Doing("OnItemComplete", v)
  BY DEF OnItemComplete
<1>2. v \in listed /\ item[v].cur > 0
  BY AtItemComplete
<1>3. /\ UNCHANGED <<listed, active>> /\ \A w \in Videos : w # v => item'[w] = item[w]
      /\ item'[v].cur = item[v].cur /\ item'[v].type = item[v].type
      /\ item'[v].flags \in {item[v].flags, item[v].flags \cup {"ERR_NETWORK"}}
  BY ItemCompleteDoes
<1>4. /\ \/ Then(<<>>)
         \/ \E c \in CallSet : c.v = v /\ Then(<<c>>)
         \/ \E c, d \in CallSet : c.v = v /\ Then(<<c, d>>)
  <2>1. \A f \in {"QueueNextDownloadItem", "OnDownloadComplete"} :
           Call(f, v) \in CallSet /\ Call(f, v).v = v
    BY CallsTyped, CallFields DEF OfVideo
  <2>2. \/ Then(<<>>)
        \/ Then(<<Call("QueueNextDownloadItem", v)>>)
        \/ Then(<<Call("OnDownloadComplete", v)>>)
    BY ItemCompleteDoes
  <2> QED BY <2>1, <2>2
<1>5. Holds(v)' <=> Holds(v)
  BY <1>2, <1>3 DEF Holds, Clear, Is, IsStream
<1> QED BY <1>1, <1>3, <1>4, <1>5, SameSlots

(* The slot is given back once.                                              *)
LEMMA CompleteH ==
    ASSUME TInv, TInv', QInv, CInv, HInv, NEW v \in Videos, OnDownloadComplete(v)
    PROVE  HInv'
<1>1. Doing("OnDownloadComplete", v) /\ "OnDownloadComplete" # "EraseDownload"
      /\ "OnDownloadComplete" \in AtWork
  BY DEF OnDownloadComplete, AtWork
<1>2. /\ UNCHANGED listed
      /\ \A w \in Videos : w # v => item'[w] = item[w]
      /\ Is(v, "FINISHED")'
      /\ \/ Then(<<>>)
         \/ queue # <<>> /\ Then(<<Call("QueueDownload", Head(queue))>>)
      /\ \/ (Is(v, "FINISHED") \/ IsStream(v)) /\ active' = active
         \/ ~Is(v, "FINISHED") /\ ~IsStream(v) /\ active' = active - 1
  BY CompleteDoes DEF Reflagged, Is
<1>3. v \in listed /\ COf(v)
  BY <1>1, LeftToDo, ListedIs
<1>4. item[v].cur > 0 /\ ~Is(v, "STOPPED") /\ ~Is(v, "QUEUED")
  <2>1. /\ Head(calls) \in Range(calls) /\ Head(calls).v = v
        /\ Head(calls).do = "OnDownloadComplete"
    BY <1>1, DoingIs
  <2>2. item[v].cur > 0 /\ ~Is(v, "STOPPED")
    BY <1>3, <2>1 DEF COf, Engaged, Stops, OfClip
  <2> QED BY <1>1, <1>3, <2>2, NotWaiting
<1>5. /\ Holds(v) <=> ~Is(v, "FINISHED") /\ ~IsStream(v)
  BY <1>3, <1>4 DEF Holds, Clear
<1>6. ~Holds(v)'
  BY <1>2 DEF Holds, Clear
<1>7. \A w \in Videos : w # v => (Holds(w)' <=> Holds(w))
  <2>1. \A w \in Videos : w # v => ~Doing("QueueNextDownloadItem", w)
    BY <1>1, NextDoing
  <2>2. \A w \in Videos : ~Doing("QueueNextDownloadItem", w)'
    <3>1. CASE Then(<<>>)
      BY <1>1, <3>1, NextDoing
    <3>2. CASE queue # <<>> /\ Then(<<Call("QueueDownload", Head(queue))>>)
      <4> DEFINE c == Call("QueueDownload", Head(queue))
      <4>1. Head(queue) \in Videos
        BY <3>2, HeadAndTail DEF TInv
      <4>2. c \in CallSet /\ c.do = "QueueDownload" /\ Then(<<c>>)
        BY <3>2, <4>1, CallsTyped, CallFields DEF OfVideo
      <4> HIDE DEF c
      <4> QED BY <1>1, <4>2, NextDoing
    <3> QED BY <1>2, <3>1, <3>2
  <2> QED BY <1>2, <2>1, <2>2, HoldsOn
<1> QED BY <1>2, <1>5, <1>6, <1>7, Recount

LEMMA EraseH ==
    ASSUME TInv, TInv', QInv, CInv, Kept, HInv, NEW v \in Videos, EraseDownload(v)
    PROVE  HInv'
<1>1. Doing("EraseDownload", v)
  BY DEF EraseDownload
<1>2. /\ listed' = listed \ {v} /\ active' = active
      /\ \A w \in Videos : w # v => item'[w] = item[w]
      /\ Then(<<>>)
  BY EraseDoes
<1>3. ~Holds(v)
  <2>1. Gone(v)
    BY <1>1, DoingIs DEF Kept
  <2> QED BY <2>1, ListedIs DEF Gone, COf, Stops, Holds, Clear
<1>4. ~Holds(v)'
  BY <1>2 DEF Holds
<1>5. \A w \in Videos : w # v => (Holds(w)' <=> Holds(w))
  BY <1>1, <1>2, NextDoing, HoldsOn
<1> QED BY <1>2, <1>3, <1>4, <1>5, Recount

(* A paused download that was never started gets a slot when it is resumed.  *)
LEMMA ResumeH ==
    ASSUME TInv, TInv', QInv, CInv, HInv, NEW v \in Videos, ResumeStep(v)
    PROVE  HInv'
<1> DEFINE goon == Call("QueueNextDownloadItem", v)
<1>1. goon \in CallSet /\ goon.v = v /\ goon.do = "QueueNextDownloadItem"
  BY CallsTyped, CallFields DEF OfVideo
<1>2. /\ Doing("Resume", v) /\ "Resume" # "EraseDownload" /\ listed' = listed
      /\ \A w \in Videos : w # v => item'[w] = item[w]
      /\ item'[v].cur = item[v].cur /\ item'[v].type = item[v].type
      /\ \/ item'[v].flags = item[v].flags /\ active' = active /\ Then(<<>>)
         \/ /\ ~Is(v, "QUEUED") /\ Restarted(v) /\ active' = active + 1
            /\ item'[v].flags = item[v].flags \ {"PAUSED"} /\ Then(<<goon>>)
         \/ /\ active' = active
            /\ item'[v].flags = item[v].flags \ {"PAUSED"} /\ Then(<<>>)
  BY ResumeHow
<1> HIDE DEF goon
<1>3. v \in listed /\ ~Erasing(v) /\ COf(v) /\ ~Doing("QueueNextDownloadItem", v)
  BY <1>2, LeftToDo, ListedIs DEF Doing
<1>4. Clear(v)' <=> Clear(v)
  BY <1>2 DEF Clear, Is, IsStream
<1>5. CASE active' = active /\ Then(<<>>)
  <2>1. Holds(v)' <=> Holds(v)
    BY <1>2, <1>3, <1>4, <1>5, NextDoing DEF Holds
  <2> QED BY <1>2, <1>5, <2>1, SameSlots
<1>6. CASE ~Is(v, "QUEUED") /\ Restarted(v) /\ active' = active + 1 /\ Then(<<goon>>)
  <2>1. item[v].cur = 0 /\ ~Is(v, "FINISHED") /\ ~IsStream(v)
    BY <1>2, <1>3, <1>6 DEF Restarted, COf, Idles, Started, Asked, Moving, Doing
  <2>2. ~Is(v, "STOPPED")
    BY <1>3, <2>1 DEF COf, Stops
  <2>3. ~Holds(v)
    BY <1>3, <2>1 DEF Holds
  <2>4. Doing("QueueNextDownloadItem", v)'
    BY <1>1, <1>2, <1>6, NextDoing
  <2>5. Holds(v)'
    BY <1>2, <1>3, <1>4, <1>6, <2>1, <2>2, <2>4 DEF Holds, Clear
  <2>6. \A w \in Videos : w # v => (Holds(w)' <=> Holds(w))
    BY <1>1, <1>2, <1>6, NextDoing, HoldsOn
  <2> QED BY <1>6, <2>3, <2>5, <2>6, Recount
<1> QED BY <1>2, <1>5, <1>6


(* A call of the user: nobody was about to queue a first clip, nor is now.   *)
LEMMA FromRest ==
    ASSUME HInv, NEW v \in Videos, calls = <<>>, \A w : ~Doing("QueueNextDownloadItem", w)',
           \A w \in Videos : w # v => item'[w] = item[w] /\ (w \in listed' <=> w \in listed),
           \/ (Holds(v)' <=> Holds(v)) /\ active' = active
           \/ Holds(v) /\ ~Holds(v)' /\ active' = active - 1
    PROVE  HInv'
<1>1. \A w : ~Doing("QueueNextDownloadItem", w)
  BY DEF Doing
<1>2. \A w \in Videos : w # v => (Holds(w)' <=> Holds(w))
  BY <1>1, HoldsOn
<1> QED BY <1>2, Recount

LEMMA AddH ==
    ASSUME TInv, HInv, NEW v \in Videos, AddDownload(v)
    PROVE  HInv'
<1>1. /\ active' = active /\ calls = <<>> /\ v \notin listed /\ listed' = listed \cup {v}
      /\ calls' = <<Call("QueueDownload", v)>>
      /\ \A w \in Videos : w # v => item'[w] = item[w]
      /\ item'[v].cur = 0
  BY AddDoes
<1>2. \A w : ~Doing("QueueNextDownloadItem", w)'
  BY <1>1, CallFields DEF Doing
<1>3. ~Holds(v) /\ ~Holds(v)'
  BY <1>1, <1>2 DEF Holds
<1> QED BY <1>1, <1>2, <1>3, FromRest

LEMMA StartH ==
    ASSUME TInv, CInv, Even, HInv, NEW v \in Videos, StartQueuedDownload(v)
    PROVE  HInv'
<1>1. /\ UNCHANGED <<listed, active>> /\ calls = <<>> /\ v \in listed
      /\ calls' = <<Call("QueueDownload", v)>>
      /\ \A w \in Videos : w # v => item'[w] = item[w]
      /\ Is(v, "QUEUED") \/ (Is(v, "FINISHED") /\ IsStream(v)) \/ May("stale-start")
      /\ ((Is(v, "QUEUED") \/ ~IsStream(v)) /\ item'[v].cur = item[v].cur) \/ item'[v].cur = 0
  BY StartDoes
<1>2. ~May("stale-start")
  BY DEF Even, Plain, Without, May
<1>3. \A w : ~Doing("QueueNextDownloadItem", w)'
  BY <1>1, CallFields DEF Doing
<1>4. ~Holds(v)
  BY <1>1, <1>2 DEF Holds, Clear
<1>5. item'[v].cur = 0
  BY <1>1, <1>2, ListedIs DEF COf, Waits
<1>6. ~Holds(v)'
  BY <1>3, <1>5 DEF Holds
<1> QED BY <1>1, <1>3, <1>4, <1>6, FromRest

(* Who deletes a download that is not paused gives back the slot if there is *)
(* one.                                                                      *)
LEMMA RemoveH ==
    ASSUME TInv, QInv, CInv, Even, HInv, NEW v \in Videos, RemoveDownload(v)
    PROVE  HInv'
<1>1. /\ UNCHANGED listed /\ calls = <<>> /\ v \in listed
      /\ Reflagged(v, item[v].flags \cup {"DELETED", "STOPPED"})
      /\ \A c \in Range(calls') : c.do = "EraseDownload" \/ c.do = "QueueDownload"
      /\ calls' # <<>> => Head(calls') \in Range(calls')
  BY RemoveHow
<1>2. /\ active' = IF HeldSlot(v) THEN active - 1 ELSE active
      /\ Counted(v) => ~Is(v, "PAUSED")
      /\ ~Is(v, "DELETED")
  BY DEF RemoveDownload, Even, Without, May
<1>3. /\ \A w : ~Doing("QueueNextDownloadItem", w)'
      /\ \A f, w : ~Doing(f, w)
      /\ \A w : ~Asked(w)
  BY <1>1 DEF Doing, Asked
<1>4. ~Holds(v)'
  BY <1>1 DEF Holds, Clear, Is, Reflagged
<1>5. COf(v) /\ item[v].cur \in Nat
  BY <1>1, ListedIs
<1>6. HeldSlot(v) <=> Holds(v)
  <2>1. ASSUME HeldSlot(v) PROVE Holds(v)
    <3>1. ~Is(v, "STOPPED")
      BY <1>2, <1>5 DEF COf, Stops
    <3>2. item[v].cur > 0
      BY <1>3, <1>5, <2>1 DEF COf, Waits, HeldSlot
    <3> QED BY <1>1, <2>1, <3>1, <3>2 DEF HeldSlot, Holds, Clear, Is
  <2>2. ASSUME Holds(v) PROVE HeldSlot(v)
    <3>1. ~Is(v, "PAUSED")
      BY <1>1, <1>2, <2>2, CountedHolds DEF AtRest
    <3> QED BY <2>2, <3>1 DEF HeldSlot, Holds, Clear, Is
  <2> QED BY <2>1, <2>2
<1> QED BY <1>1, <1>2, <1>3, <1>4, <1>6, FromRest DEF Reflagged

(* A pause keeps the slot.                                                   *)
LEMMA SlotsAlone ==
    ASSUME HInv, UNCHANGED <<listed, active>>,
           \A v : ~Doing("QueueNextDownloadItem", v),
           \A v : ~Doing("QueueNextDownloadItem", v)',
           \A v \in Videos :
              /\ item'[v].flags \cup {"PAUSED"} = item[v].flags \cup {"PAUSED"}
              /\ item'[v].cur = item[v].cur /\ item'[v].type = item[v].type
    PROVE  HInv'
<1>1. \A v \in Videos : Holds(v)' <=> Holds(v)
  <2> SUFFICES ASSUME NEW v \in Videos PROVE Holds(v)' <=> Holds(v)
    OBVIOUS
  <2>1. \A flag : flag # "PAUSED" => (Is(v, flag)' <=> Is(v, flag))
    <3>1. item'[v].flags \cup {"PAUSED"} = item[v].flags \cup {"PAUSED"}
      OBVIOUS
    <3> QED BY <3>1 DEF Is
  <2> QED BY <2>1 DEF Holds, Clear, IsStream
<1>2. Held' = Held
  BY <1>1 DEF Held
<1> QED BY <1>2 DEF HInv

LEMMA PauseH ==
    ASSUME TInv, HInv, PauseAll \/ \E v \in Videos : PauseDownload(v)
    PROVE  HInv'
<1>1. UNCHANGED <<listed, active, calls>> /\ calls = <<>>
  BY PauseDoes, PauseAllDoes
<1>2. \A w \in Videos :
         /\ item'[w].flags \cup {"PAUSED"} = item[w].flags \cup {"PAUSED"}
         /\ item'[w].cur = item[w].cur /\ item'[w].type = item[w].type
  <2>1. CASE PauseAll
    <3>1. \A w \in Videos :
             /\ \/ item'[w].flags = item[w].flags
                \/ item'[w].flags = item[w].flags \cup {"PAUSED"}
             /\ item'[w].cur = item[w].cur /\ item'[w].type = item[w].type
      BY <2>1, PauseAllDoes
    <3> QED BY <3>1
  <2>2. ASSUME NEW v \in Videos, PauseDownload(v)
        PROVE  \A w \in Videos :
                  /\ item'[w].flags \cup {"PAUSED"} = item[w].flags \cup {"PAUSED"}
                  /\ item'[w].cur = item[w].cur /\ item'[w].type = item[w].type
    <3>1. PICK F \in {item[v].flags, item[v].flags \cup {"PAUSED"}} : Reflagged(v, F)
      BY <2>2, PauseDoes
    <3> QED BY <3>1 DEF Reflagged
  <2> QED BY <2>1, <2>2
<1> QED BY <1>1, <1>2, SlotsAlone DEF Doing

LEMMA ResumeCallsH ==
    ASSUME TInv, HInv, ResumeAll \/ \E v \in Videos : ResumeDownload(v)
    PROVE  HInv'
<1>1. /\ UNCHANGED <<listed, item, active>> /\ calls = <<>>
      /\ calls' # <<>> => Head(calls').do = "Resume"
  BY ResumeCallsDo
<1> QED BY <1>1, SlotsAlone DEF Doing


LEMMA NotifyH ==
    ASSUME TInv, CInv, Kept, HInv, Notify
    PROVE  HInv'
<1>1. CASE OnItemRemoved
  <2>1. UNCHANGED <<active, calls>> /\ calls = <<>>
    BY <1>1, ItemRemovedDoes
  <2>2. PICK a \in Range(alerts) :
           /\ a.v \in Videos
           /\ a.code = "REMOVED" \/ a.hr = "E_ABORT"
           /\ \A w \in Videos : w # a.v => item'[w] = item[w]
           /\ \/ /\ listed' = listed
                 /\ item'[a.v].flags = item[a.v].flags /\ item'[a.v].cur = item[a.v].cur
                 /\ item'[a.v].type = item[a.v].type
              \/ a.v \in listed /\ listed' = listed \ {a.v}
    BY <1>1, ItemRemovedDoes
  <2> DEFINE v == a.v
  <2>3. \A w : ~Doing("QueueNextDownloadItem", w) /\ ~Doing("QueueNextDownloadItem", w)'
    BY <2>1 DEF Doing
  <2>4. CASE /\ listed' = listed
             /\ item'[a.v].flags = item[a.v].flags /\ item'[a.v].cur = item[a.v].cur
             /\ item'[a.v].type = item[a.v].type
    BY <2>1, <2>2, <2>3, <2>4, SlotsAlone
  <2>5. CASE a.v \in listed /\ listed' = listed \ {a.v}
    <3>1. ~Holds(a.v)
      <4>1. Gone(a.v)
        BY <2>2 DEF Kept
      <4> QED BY <2>5, <4>1, ListedIs DEF Gone, COf, Stops, Holds, Clear
    <3>2. ~Holds(a.v)'
      BY <2>5 DEF Holds
    <3> QED BY <2>1, <2>2, <2>3, <2>5, <3>1, <3>2, FromRest
  <2> QED BY <2>2, <2>4, <2>5
<1>2. CASE OnItemFinished \/ OnScheduledEvent
  <2>1. UNCHANGED <<listed, item, active>> /\ calls = <<>>
    BY <1>2, FinishedDoes, ScheduledDoes
  <2>2. calls' # <<>> => Head(calls').do \in {"OnItemComplete", "QueueDownloadItem"}
    <3>1. CASE OnItemFinished
      <4>1. \/ calls' = <<>>
            \/ \E v, k, hr : calls' = <<Complete(v, k, hr)>>
        BY <3>1, FinishedDoes
      <4> QED BY <4>1, CallFields
    <3>2. CASE OnScheduledEvent
      <4>1. \/ calls' = <<>>
            \/ \E v : calls' = <<CallClip("QueueDownloadItem", v, 1)>>
        BY <3>2, ScheduledDoes
      <4> QED BY <4>1, CallFields
    <3> QED BY <1>2, <3>1, <3>2
  <2> QED BY <2>1, <2>2, SlotsAlone DEF Doing
<1> QED BY <1>1, <1>2, FoundC DEF Notify

LEMMA SlotsUntouched ==
    ASSUME HInv, UNCHANGED <<listed, item, active, calls>> PROVE HInv'
BY DEF HInv, Held, Holds, Clear, Is, IsStream, Doing

LEMMA HInit == Init => HInv
<1> SUFFICES ASSUME Init PROVE HInv
  OBVIOUS
<1>1. Held = {} /\ active = 0
  BY DEF Init, Held, Holds
<1> QED BY <1>1, FS_EmptySet DEF HInv

LEMMA HStep ==
    /\ TInv /\ TInv' /\ Traces /\ QInv /\ CInv /\ Kept /\ Even /\ HInv
    /\ [Next]_vars
    => HInv' /\ Even'
<1> SUFFICES ASSUME TInv, TInv', Traces, QInv, CInv, Kept, Even, HInv, [Next]_vars
             PROVE  HInv' /\ Even'
  OBVIOUS
<1>1. world' = world => Even'
  BY DEF Even, Plain, Calm, Without, May
<1>2. ASSUME NEW v \in Videos, Body(v) PROVE HInv' /\ Even'
  <2>1. HInv'
    BY <1>2, QueueDownloadH, QueueNextH, QueueItemH, AddClipH, ItemCompleteH, CompleteH, EraseH,
       CountC, ResumeH DEF Body
  <2> QED BY <1>1, <1>2, <2>1, BodyIsSeen DEF BodySeen
<1>3. CASE /\ SamePairs /\ world' = world
           /\ \/ \E v \in Videos : User(v) \/ ProcessSchedule(v)
              \/ PauseAll \/ ResumeAll \/ Notify
              \/ \E h \in DOMAIN pairs : TransferStep(h)
              \/ UNCHANGED vars
  <2>1. ASSUME NEW v \in Videos, User(v) PROVE HInv'
    BY <2>1, AddH, StartH, RemoveH, PauseH, ResumeCallsH DEF User
  <2>2. ASSUME NEW v \in Videos, ProcessSchedule(v) PROVE HInv'
    BY <2>2, ScheduleDoes, SlotsUntouched
  <2>3. ASSUME NEW h \in DOMAIN pairs, TransferStep(h) PROVE HInv'
    BY <2>3, TransferDoes, SlotsUntouched
  <2>4. ASSUME UNCHANGED vars PROVE HInv'
    BY <2>4, SlotsUntouched DEF vars
  <2> QED BY <1>1, <1>3, <2>1, <2>2, <2>3, <2>4, PauseH, ResumeCallsH, NotifyH
<1> QED BY <1>2, <1>3, OtherSteps

(* In the world of the collection the steps keep what was proved of it.      *)
LEMMA CountedAtRest ==
    ASSUME TInv, CInv, HInv PROVE AtRest => active = Cardinality({v \in Videos : Counted(v)})
<1> SUFFICES ASSUME AtRest PROVE active = Cardinality({v \in Videos : Counted(v)})
  OBVIOUS
<1>1. {v \in Videos : Counted(v)} = Held
  BY CountedHolds DEF Held
<1> QED BY <1>1 DEF HInv

(* "Number of downloads in progress" (LiberTV/FDownloadMgr.h:111), whatever  *)
(* the user does and however often transfers fail or end: between calls      *)
(* m_ActiveDownloads is the number of downloads that were started and are    *)
(* neither finished nor removed, for videos that are what they claim to be   *)
(* and streams of one clip.  No slot is given twice or given back twice.     *)
THEOREM SlotsAreCounted ==
    Spec /\ StreamsAreSingle /\ world.bittorrent = {} => []SlotsCounted
<1> DEFINE Safe == Without(Miscounted)
           Meant == StreamsAreSingle /\ world.bittorrent = {}
<1>1. Safe /\ Meant => Even /\ Plain /\ Calm /\ Orderly
  BY DEF Without, Miscounted, Even, Plain, Calm, Orderly, May
<1>2. [Next]_vars /\ TInv /\ ~Safe => ~Safe'
  <2>1. TInv /\ [Next]_vars => world' = world
    BY BodyIsSeen, OtherSteps DEF BodySeen
  <2> QED BY <2>1 DEF Without, Miscounted
<1>3. ~Safe => SlotsCounted
  BY DEF SlotsCounted
<1>4. TInv /\ CInv /\ HInv => SlotsCounted
  BY CountedAtRest DEF SlotsCounted
<1> HIDE DEF Safe, Meant
<1>5. Spec => []TInv
  BY TInit, TStep, PTL DEF Spec
<1>6. Spec => []Traces
  BY <1>5, TracesInit, TracesStep, PTL DEF Spec
<1>7. Spec /\ Orderly => []QInv
  BY <1>5, <1>6, QInit, QStep, PTL DEF Spec
<1>8. Spec /\ Calm => []Kept
  BY <1>5, <1>6, KeptInit, KeptStep, PTL DEF Spec
<1>9. Spec /\ Orderly /\ Plain => []CInv
  BY <1>5, <1>6, <1>7, CInit, CStep, PTL DEF Spec
<1>10. Spec /\ Orderly /\ Plain /\ Calm /\ Even => []HInv
  BY <1>5, <1>6, <1>7, <1>8, <1>9, HInit, HStep, PTL DEF Spec
<1>11. Spec /\ ~Safe => []~Safe
  BY <1>2, <1>5, PTL DEF Spec
<1>12. Spec /\ Meant => []SlotsCounted
  BY <1>1, <1>3, <1>4, <1>5, <1>9, <1>10, <1>11, PTL DEF Spec
<1> QED BY <1>12 DEF Meant


-----------------------------------------------------------------------------
(* Every step is about one download and leaves the others alone.             *)
LEMMA PassedOn ==
    ASSUME TInv, QInv, CInv, NEW f, NEW v \in Videos, Doing(f, v),
           \/ Then(<<>>)
           \/ \E c \in NextCalls(v) : Then(<<c>>)
           \/ \E c, d \in NextCalls(v) : Then(<<c, d>>) /\ d.do \in Later
    PROVE  \A w \in Videos : w # v => Passed(w)
<1> DEFINE N == NextCalls(v)
<1>0. N \in SUBSET CallSet
  BY DEF NextCalls
<1>1. /\ calls # <<>> /\ Head(calls).v = v /\ calls \in Seq(CallSet)
      /\ Range(calls) = {Head(calls)} \cup Behind(calls)
  BY DoingIs
<1>2. /\ Behind(calls) \subseteq Range(calls')
      /\ \A c \in Behind(calls) : c \in Range(calls) /\ c.do \in Later
      /\ \A c \in Range(calls') : c \in Behind(calls) \/ c \in N
      /\ calls' # <<>> => Head(calls').do \in Later \/ Head(calls') \in N
  <2>1. \/ Then(<<>>)
        \/ \E c \in N : Then(<<c>>)
        \/ \E c, d \in N : Then(<<c, d>>) /\ d.do \in Later
    OBVIOUS
  <2> HIDE DEF N
  <2> QED BY <1>0, <2>1, CallsLeft DEF QInv
<1>3. calls' # <<>> => Head(calls') \in Range(calls')
  <2>1. CASE Then(<<>>)
    BY <1>1, <2>1, ThenNothing
  <2>2. ASSUME NEW c \in N, Then(<<c>>) PROVE Head(calls') \in Range(calls')
    BY <1>0, <1>1, <2>2, ThenCall
  <2>3. ASSUME NEW c \in N, NEW d \in N, Then(<<c, d>>) PROVE Head(calls') \in Range(calls')
    BY <1>0, <1>1, <2>3, ThenTwoCalls
  <2> QED BY <2>1, <2>2, <2>3
<1>4. \A c \in N : c.v # v =>
         /\ c.do = "QueueDownload" /\ c.hr = "S_OK"
         /\ Is(c.v, "QUEUED") /\ ~Erasing(c.v)
  BY DEF NextCalls
<1>5. \A c \in Behind(calls) :
         \/ c.do \in {"EraseDownload", "Resume"}
         \/ c.do = "AddClip" /\ c.k \in item[c.v].timed
  BY <1>2 DEF CInv, Owned, Later
<1> HIDE DEF N
<1> SUFFICES ASSUME NEW w \in Videos, w # v PROVE Passed(w)
  OBVIOUS
<1>6. \A c \in Range(calls) : c.v = w => c \in Range(calls')
  BY <1>1, <1>2
<1>7. \A c \in Range(calls') : c.v = w =>
         \/ c \in Range(calls)
         \/ c.do = "QueueDownload" /\ c.hr = "S_OK" /\ Is(w, "QUEUED") /\ ~Erasing(w)
  BY <1>2, <1>4
<1>8. calls' # <<>> /\ Head(calls').v = w =>
         \/ Head(calls').do \in {"EraseDownload", "Resume"}
         \/ Head(calls').do = "QueueDownload" /\ Is(w, "QUEUED") /\ ~Erasing(w)
         \/ Head(calls').do = "AddClip" /\ Head(calls').k \in item[w].timed
  BY <1>2, <1>3, <1>4, <1>5
<1> QED BY <1>1, <1>3, <1>6, <1>7, <1>8 DEF Passed

(* What the bodies call.                                                     *)
LEMMA BodyCalls ==
    ASSUME TInv, QInv, CInv, NEW v \in Videos, Body(v)
    PROVE  /\ \E f : Doing(f, v)
           /\ \/ Then(<<>>)
              \/ \E c \in NextCalls(v) : Then(<<c>>)
              \/ \E c, d \in NextCalls(v) : Then(<<c, d>>) /\ d.do \in Later
<1>1. /\ \A f \in {"QueueNextDownloadItem", "OnDownloadComplete"} : Call(f, v) \in NextCalls(v)
      /\ \A k \in Clips(v) :
            /\ CallClip("QueueDownloadItem", v, k) \in NextCalls(v)
            /\ CallClip("AddClip", v, k) \in NextCalls(v)
            /\ CallClip("AddClip", v, k).do \in Later
            /\ \A hr \in Answers : Complete(v, k, hr) \in NextCalls(v)
  BY CallsTyped, CallFields DEF OfVideo, OfClip, NextCalls, AtWork, Later
<1>2. CASE QueueDownload(v) \/ QueueNextDownloadItem(v) \/ EraseDownload(v)
  <2>1. Then(<<>>) \/ \E c \in NextCalls(v) : Then(<<c>>)
    BY <1>1, <1>2, QueueDownloadDoes, QueueNextDoes, EraseDoes
  <2> QED BY <1>2, <2>1 DEF QueueDownload, QueueNextDownloadItem, EraseDownload
<1>3. CASE QueueDownloadItem(v)
  <2>1. PICK k \in Clips(v) :
           \/ Then(<<Complete(v, k, "S_OK")>>)
           \/ Then(<<CallClip("AddClip", v, k)>>)
           \/ Then(<<Complete(v, k, "S_OK"), CallClip("AddClip", v, k)>>)
    BY <1>3, QueueItemDoes
  <2>2. "S_OK" \in Answers
    BY DEF Answers
  <2>3. Complete(v, k, "S_OK") \in NextCalls(v)
    BY <1>1, <2>2
  <2> QED BY <1>1, <1>3, <2>1, <2>3 DEF QueueDownloadItem
<1>4. CASE AddClip(v)
  <2>1. Then(<<>>) \/ \E k \in Clips(v), hr \in {"S_OK", "E_FAIL"} : Then(<<Complete(v, k, hr)>>)
    BY <1>4, AddClipDoes
  <2>2. {"S_OK", "E_FAIL"} \subseteq Answers
    BY DEF Answers, Failures
  <2> QED BY <1>1, <1>4, <2>1, <2>2 DEF AddClip
<1>5. CASE OnItemComplete(v)
  <2>1. \/ Then(<<>>)
        \/ Then(<<Call("QueueNextDownloadItem", v)>>)
        \/ Then(<<Call("OnDownloadComplete", v)>>)
    BY <1>5, ItemCompleteDoes
  <2> QED BY <1>1, <1>5, <2>1 DEF OnItemComplete
<1>6. CASE OnDownloadComplete(v)
  <2>1. Doing("OnDownloadComplete", v) /\ "OnDownloadComplete" \in AtWork
    BY <1>6 DEF OnDownloadComplete, AtWork
  <2>2. Then(<<>>) \/ (queue # <<>> /\ Then(<<Call("QueueDownload", Head(queue))>>))
    BY <1>6, CompleteDoes
  <2>3. ASSUME queue # <<>> PROVE Call("QueueDownload", Head(queue)) \in NextCalls(v)
    <3>1. Head(queue) \in Range(queue) /\ Head(queue) \in Videos
      BY <2>3, HeadAndTail DEF TInv
    <3>2. Call("QueueDownload", Head(queue)) \in CallSet
      BY <3>1, CallsTyped DEF OfVideo
    <3>3. /\ Head(queue) \in listed /\ Is(Head(queue), "QUEUED") /\ ~Erasing(Head(queue))
      BY <3>1 DEF QInv, QOf
    <3>4. Head(queue) # v
      BY <2>1, <3>1, NotWaiting
    <3> QED BY <3>2, <3>3, <3>4, CallFields DEF NextCalls
  <2> QED BY <2>1, <2>2, <2>3
<1>7. CASE ResumeStep(v)
  <2>1. Then(<<>>) \/ Then(<<Call("QueueNextDownloadItem", v)>>)
    BY <1>7, ResumeHow
  <2> QED BY <1>1, <1>7, <2>1 DEF ResumeStep
<1> QED BY <1>2, <1>3, <1>4, <1>5, <1>6, <1>7, CountC DEF Body

LEMMA SwitchedOthers ==
    ASSUME TInv, NEW v \in Videos, NEW b \in BOOLEAN, pairs' = Switched(v, b)
    PROVE  /\ DOMAIN pairs' = DOMAIN pairs
           /\ \A h \in DOMAIN pairs :
                 /\ pairs'[h].v = pairs[h].v /\ pairs'[h].k = pairs[h].k
                 /\ pairs'[h].at = pairs[h].at
                 /\ h \notin HandlesOf(v) => pairs'[h] = pairs[h]
                 /\ h \in HandlesOf(v) => pairs'[h].paused = b
           /\ \A w : w # v => SamePairsOf(w)
<1>1. DOMAIN pairs = 1..Len(pairs) /\ \A h \in DOMAIN pairs : pairs[h] \in PairSet
  BY SeqEntries DEF TInv
<1>2. DOMAIN pairs' = DOMAIN pairs
  BY DEF Switched
<1>3. \A h \in DOMAIN pairs :
         pairs'[h] = IF h \in HandlesOf(v) THEN [pairs[h] EXCEPT !.paused = b] ELSE pairs[h]
  BY DEF Switched
<1>4. \A h \in DOMAIN pairs :
         /\ pairs'[h].v = pairs[h].v /\ pairs'[h].k = pairs[h].k
         /\ pairs'[h].at = pairs[h].at
         /\ h \notin HandlesOf(v) => pairs'[h] = pairs[h]
         /\ h \in HandlesOf(v) => pairs'[h].paused = b
  BY <1>1, <1>3 DEF PairSet
<1>5. \A h \in DOMAIN pairs : h \in HandlesOf(v) => pairs[h].v = v
  BY <1>1, HandlesOwn
<1> QED BY <1>2, <1>4, <1>5 DEF SamePairsOf

LEMMA BodyOthers ==
    ASSUME TInv, QInv, CInv, NEW v \in Videos, Body(v)
    PROVE  \A w \in Videos : w # v => Apart(w)
<1>1. \A w \in Videos : w # v => Passed(w)
  BY BodyCalls, PassedOn
<1>2. alerts' = alerts /\ world' = world
  BY BodyIsSeen DEF BodySeen
<1>3. \A w \in Videos : w # v => item'[w] = item[w] /\ retry'[w] = retry[w] /\ SamePairsOf(w)
  <2>1. CASE QueueDownload(v) \/ QueueNextDownloadItem(v) \/ QueueDownloadItem(v)
             \/ OnDownloadComplete(v) \/ EraseDownload(v)
    <3>1. UNCHANGED <<retry, pairs>> /\ \A w \in Videos : w # v => item'[w] = item[w]
      BY <2>1, QueueDownloadDoes, QueueNextDoes, QueueItemDoes, CompleteDoes, EraseDoes
         DEF Reflagged
    <3> QED BY <3>1 DEF SamePairsOf
  <2>2. CASE AddClip(v)
    <3>1. /\ UNCHANGED retry /\ \A w \in Videos : w # v => item'[w] = item[w]
          /\ pairs' = pairs \/ \E p \in PairSet : p.v = v /\ pairs' = Append(pairs, p)
      BY <2>2, AddClipDoes
    <3> QED BY <3>1, OnePair DEF SamePairsOf
  <2>3. CASE OnItemComplete(v)
    <3>1. /\ UNCHANGED pairs /\ \A w \in Videos : w # v => item'[w] = item[w]
          /\ \A w \in Videos : w # v => retry'[w] = retry[w]
      BY <2>3, ItemCompleteDoes
    <3> QED BY <3>1 DEF SamePairsOf
  <2>4. CASE ResumeStep(v)
    <3>1. /\ UNCHANGED retry /\ \A w \in Videos : w # v => item'[w] = item[w]
          /\ pairs' = pairs \/ pairs' = Switched(v, FALSE)
      BY <2>4, ResumeHow
    <3>2. ASSUME pairs' = Switched(v, FALSE) PROVE \A w : w # v => SamePairsOf(w)
      BY <3>2, SwitchedOthers
    <3> QED BY <3>1, <3>2 DEF SamePairsOf
  <2> QED BY <2>1, <2>2, <2>3, <2>4, CountC DEF Body
<1> QED BY <1>1, <1>2, <1>3 DEF Apart, SameAlertsOf


LEMMA UserOthers ==
    ASSUME TInv, QInv, CInv, NEW v \in Videos,
           AddDownload(v) \/ StartQueuedDownload(v) \/ RemoveDownload(v) \/ PauseDownload(v)
    PROVE  \A w \in Videos : w # v => Apart(w)
<1>1. CASE AddDownload(v) \/ StartQueuedDownload(v)
  <2> DEFINE c == Call("QueueDownload", v)
  <2>1. /\ calls = <<>> /\ calls' = <<c>> /\ UNCHANGED <<alerts, retry, pairs, world>>
        /\ \A w \in Videos : w # v => item'[w] = item[w]
        /\ v \in listed'
    BY <1>1, AddDoes, StartDoes
  <2>2. c \in CallSet /\ c.v = v /\ c.do = "QueueDownload"
    BY CallsTyped, CallFields DEF OfVideo
  <2> HIDE DEF c
  <2>3. \A w \in Videos : w # v => Passed(w)
    BY <2>1, <2>2, CalledOnly
  <2> QED BY <2>1, <2>3 DEF Apart, SamePairsOf, SameAlertsOf
<1>2. CASE RemoveDownload(v)
  <2>1. /\ SamePairs /\ UNCHANGED <<listed, retry, world>>
        /\ calls = <<>> /\ v \in listed
        /\ Reflagged(v, item[v].flags \cup {"DELETED", "STOPPED"})
        /\ \A h \in DOMAIN pairs : pairs'[h] = pairs[h]
                                   \/ (pairs[h].v = v /\ pairs'[h].at = "gone")
        /\ \A i \in DOMAIN alerts : i \in DOMAIN alerts' /\ alerts'[i] = alerts[i]
        /\ \A i \in DOMAIN alerts' :
              \/ i \in DOMAIN alerts
              \/ alerts'[i].v = v /\ alerts'[i].code = "REMOVED"
        /\ \A c \in Range(calls') : c.hr = "S_OK" /\
              \/ c.do = "EraseDownload" /\ c.v = v
              \/ c.do = "QueueDownload" /\ c.v # v /\ c.v \in listed /\ Is(c.v, "QUEUED")
        /\ calls' # <<>> => Head(calls') \in Range(calls')
    BY <1>2, RemoveHow
  <2>2. Range(calls) = {} /\ DOMAIN pairs = 1..Len(pairs) /\ DOMAIN pairs' = DOMAIN pairs
    BY <2>1, NoEntries, SeqEntries DEF TInv, SamePairs
  <2> SUFFICES ASSUME NEW w \in Videos, w # v PROVE Apart(w)
    OBVIOUS
  <2>3. item'[w] = item[w] /\ SameAlertsOf(w)
    BY <2>1 DEF Reflagged, SameAlertsOf
  <2>4. SamePairsOf(w)
    BY <2>1, <2>2 DEF SamePairsOf, SamePairs
  <2>5. Passed(w)
    BY <2>1, <2>2 DEF Passed, Erasing
  <2> QED BY <2>1, <2>3, <2>4, <2>5 DEF Apart
<1>3. CASE PauseDownload(v)
  <2>1. /\ UNCHANGED <<calls, alerts, retry, world>>
        /\ \A w \in Videos : w # v => item'[w] = item[w]
    BY <1>3, PauseHow
  <2>2. pairs' = pairs \/ pairs' = Switched(v, TRUE)
    BY <1>3 DEF PauseDownload, Pause
  <2>3. \A w : w # v => SamePairsOf(w)
    BY <2>2, SwitchedOthers DEF SamePairsOf
  <2> QED BY <2>1, <2>3 DEF Apart, SameAlertsOf
<1> QED BY <1>1, <1>2, <1>3

LEMMA TakenOthers ==
    ASSUME TInv, CInv, Notify
    PROVE  \A w \in Videos : w # TopAlert.v => Apart(w)
<1>0. /\ UNCHANGED <<retry, pairs, world>> /\ calls = <<>>
      /\ \E code : Taken(code)
  <2>1. CASE OnItemRemoved
    BY <2>1, ItemRemovedDoes DEF OnItemRemoved
  <2>2. CASE OnItemFinished
    BY <2>2, FinishedDoes DEF OnItemFinished
  <2>3. CASE OnScheduledEvent
    BY <2>3, ScheduledDoes DEF OnScheduledEvent
  <2> QED BY <2>1, <2>2, <2>3, FoundC DEF Notify
<1>1. PICK v \in Videos : TopAlert.v = v
  BY <1>0, TakenIs
<1>2. /\ \A i \in DOMAIN alerts' : i \in DOMAIN alerts /\ alerts'[i] = alerts[i]
      /\ \A i \in DOMAIN alerts : alerts[i].v # v => i \in DOMAIN alerts'
  BY <1>0, <1>1, TakenEntries
<1>3. \A w \in Videos : w # v => item'[w] = item[w]
  <2>1. CASE OnItemRemoved
    <3>1. UNCHANGED item \/ item' = [item EXCEPT ![v].clips = @ - 1] \/ Deleted(v)
      BY <1>1, <2>1 DEF OnItemRemoved, ItemRemoved
    <3>2. item = [w \in Videos |-> item[w]]
      BY DEF TInv, ItemsTyped
    <3> QED BY <3>1, <3>2, DeletedDoes
  <2>2. CASE OnItemFinished \/ OnScheduledEvent
    BY <2>2, FinishedDoes, ScheduledDoes
  <2> QED BY <2>1, <2>2, FoundC DEF Notify
<1>4. calls' = <<>> \/ \E c \in CallSet :
                           /\ c.v = v /\ calls' = <<c>>
                           /\ c.do \in {"OnItemComplete", "QueueDownloadItem"}
  <2>1. CASE OnItemRemoved
    BY <1>0, <2>1, ItemRemovedDoes
  <2>2. CASE OnItemFinished
    <3>1. calls' = <<>> \/ calls' = <<Complete(v, TopAlert.k, TopAlert.hr)>>
      BY <1>1, <2>2 DEF OnItemFinished
    <3>2. TopAlert.k \in Clips(v) /\ TopAlert.hr \in Answers
      BY <1>0, <1>1, TakenIs
    <3>3. Complete(v, TopAlert.k, TopAlert.hr) \in CallSet
      BY <3>2, CallsTyped
    <3> QED BY <3>1, <3>3, CallFields
  <2>3. CASE OnScheduledEvent
    <3>1. calls' = <<>> \/ calls' = <<CallClip("QueueDownloadItem", v, 1)>>
      BY <1>1, <2>3 DEF OnScheduledEvent
    <3>2. CallClip("QueueDownloadItem", v, 1) \in CallSet
      BY Settings, CallsTyped DEF OfClip
    <3> QED BY <3>1, <3>2, CallFields
  <2> QED BY <2>1, <2>2, <2>3, FoundC DEF Notify
<1>5. \A w \in Videos : w # v => Passed(w)
  <2>1. Range(calls) = {}
    BY <1>0, NoEntries
  <2>2. CASE calls' = <<>>
    BY <1>0, <2>1, <2>2, NoEntries DEF Passed
  <2>3. ASSUME NEW c \in CallSet, c.v = v, calls' = <<c>> PROVE \A w : w # v => Passed(w)
    <3>1. Range(calls') = {c} /\ Head(calls') = c
      BY <2>3, OneEntry
    <3> QED BY <1>0, <2>1, <2>3, <3>1 DEF Passed
  <2> QED BY <1>4, <2>2, <2>3
<1> QED BY <1>0, <1>1, <1>2, <1>3, <1>5 DEF Apart, SamePairsOf, SameAlertsOf

LEMMA ScheduleOthers ==
    ASSUME TInv, NEW v \in Videos, ProcessSchedule(v)
    PROVE  \A w \in Videos : w # v => Apart(w)
<1> DEFINE a == [code |-> "SCHEDULED", v |-> v, k |-> 1, hr |-> "S_OK"]
<1>1. a \in AlertSet /\ a.v = v /\ alerts' = Push(alerts, <<a>>)
  BY Settings DEF ProcessSchedule, AlertSet, Codes, Answers
<1> HIDE DEF a
<1>2. /\ UNCHANGED <<item, calls, pairs, world>>
      /\ \A w \in Videos : w # v => retry'[w] = retry[w]
  BY ScheduleDoes
<1>3. \A w : w # v => SameAlertsOf(w)
  BY <1>1, OnePushed DEF SameAlertsOf
<1> QED BY <1>2, <1>3 DEF Apart, SamePairsOf

LEMMA TransferOthers ==
    ASSUME TInv, CInv, world.bittorrent = {}, NEW h \in DOMAIN pairs, TransferStep(h)
    PROVE  \A w \in Videos : w # pairs[h].v => Apart(w)
<1>1. /\ UNCHANGED <<item, calls, retry, world>>
      /\ DOMAIN pairs' = DOMAIN pairs /\ \A g \in DOMAIN pairs : g # h => pairs'[g] = pairs[g]
      /\ pairs'[h].v = pairs[h].v
      /\ \/ alerts' = alerts
         \/ \E a \in AlertSet : a.v = pairs[h].v /\ alerts' = Push(alerts, <<a>>)
  BY TransferHow
<1>2. \A w : w # pairs[h].v => SameAlertsOf(w)
  BY <1>1, OnePushed DEF SameAlertsOf
<1> QED BY <1>1, <1>2 DEF Apart, SamePairsOf

-----------------------------------------------------------------------------
(* Deletion.  The alerts that bring a deleted download nearer to its end.    *)
Leaving(v) ==
    {i \in AlertsFor(v) : alerts[i].code = "REMOVED" \/ alerts[i].hr = "E_ABORT"}

(* The thread inside m_Sync is about to hand clip k to the clip downloader.  *)
Pending(v, k) ==
    \E c \in Range(calls) :
        c.v = v /\ c.k = k /\ c.do \in {"QueueDownloadItem", "AddClip"}

Failing(c) == c.do = "OnItemComplete" /\ c.hr \in Failures

(* m_dwClipsActive never exceeds the clips that were queued, each of them    *)
(* has a handle, and the pair of a handle is there until the user removes    *)
(* it: so there is an alert for each one when it is.                         *)
DOf(v) ==
    /\ item[v].clips <= item[v].cur
    /\ ~IsStream(v) =>
          \A k \in Clips(v) :
              k <= item[v].cur => item[v].handle[k] # 0 \/ Pending(v, k)
    /\ ~Is(v, "DELETED") =>
          \A h \in DOMAIN pairs : pairs[h].v = v => pairs[h].at # "gone"
    /\ \A k \in item[v].missing : item[v].handle[k] # 0
    /\ \A c \in Range(calls) : c.v = v /\ Failing(c) => item[v].handle[c.k] # 0
    /\ Is(v, "DELETED") /\ ~Erasing(v) => item[v].clips <= Cardinality(Leaving(v))

DInv ==
    /\ \A i \in DOMAIN alerts :
          alerts[i].hr = "E_ABORT" => alerts[i].code \in {"FINISHED", "REMOVED"}
    /\ \A v \in listed : DOf(v)

(* Nobody refuses a clip.                                                    *)
Willing == Plain /\ ~May("refuse")

LEMMA LeavingIs ==
    ASSUME TInv, NEW v
    PROVE  /\ IsFiniteSet(Leaving(v)) /\ Cardinality(Leaving(v)) \in Nat
           /\ Leaving(v) \subseteq 1..Len(alerts) /\ Leaving(v) \subseteq DOMAIN alerts
<1>1. Len(alerts) \in Nat /\ DOMAIN alerts = 1..Len(alerts)
  BY SeqEntries DEF TInv
<1>2. Leaving(v) \subseteq 1..Len(alerts)
  BY <1>1 DEF Leaving, AlertsFor
<1>3. IsFiniteSet(1..Len(alerts))
  BY <1>1, FS_Interval
<1> QED BY <1>1, <1>2, <1>3, FS_Subset, FS_CardinalityType

LEMMA LeavingGrows ==
    ASSUME TInv, TInv', NEW v,
           \A i \in DOMAIN alerts : i \in DOMAIN alerts' /\ alerts'[i] = alerts[i]
    PROVE  /\ Cardinality(Leaving(v)) <= Cardinality(Leaving(v)')
           /\ Cardinality(Leaving(v)) \in Nat /\ Cardinality(Leaving(v)') \in Nat
<1>1. Leaving(v) \subseteq Leaving(v)'
  BY DEF Leaving, AlertsFor
<1>2. Len(alerts') \in Nat /\ DOMAIN alerts' = 1..Len(alerts')
  BY SeqEntries DEF TInv
<1>3. Leaving(v)' \subseteq 1..Len(alerts')
  BY <1>2 DEF Leaving, AlertsFor
<1>4. IsFiniteSet(1..Len(alerts'))
  BY <1>2, FS_Interval
<1>5. IsFiniteSet(Leaving(v)')
  BY <1>3, <1>4, FS_Subset
<1> QED BY <1>1, <1>5, LeavingIs, FS_Subset, FS_CardinalityType

LEMMA ApartD ==
    ASSUME TInv, TInv', NEW w \in Videos, Apart(w), DOf(w)
    PROVE  DOf(w)'
<1>1. item'[w] = item[w] /\ SamePairsOf(w) /\ SameAlertsOf(w) /\ (calls' = calls \/ Passed(w))
  BY DEF Apart
<1>2. /\ \A c \in Range(calls) : c.v = w => c \in Range(calls')
      /\ \A c \in Range(calls') : c.v = w /\ Failing(c) => c \in Range(calls)
  BY <1>1 DEF Passed, Failing
<1>3. Erasing(w)' <=> Erasing(w)
  BY ApartDoes
<1>4. Leaving(w)' = Leaving(w)
  BY <1>1 DEF SameAlertsOf, Leaving, AlertsFor
<1>5. \A k : Pending(w, k) => Pending(w, k)'
  BY <1>2 DEF Pending
<1>6. \A h \in DOMAIN pairs' : pairs'[h].v = w => h \in DOMAIN pairs /\ pairs'[h] = pairs[h]
  BY <1>1 DEF SamePairsOf
<1>7. /\ IsStream(w)' <=> IsStream(w)
      /\ Is(w, "DELETED")' <=> Is(w, "DELETED")
  BY <1>1 DEF IsStream, Is
<1> QED BY <1>1, <1>2, <1>3, <1>4, <1>5, <1>6, <1>7 DEF DOf

(* What is left to do after a body, but for what it did.                     *)
LEMMA BodyD ==
    ASSUME TInv, TInv', QInv, Willing, NEW v \in Videos, Body(v)
    PROVE  /\ alerts' = alerts /\ world' = world
           /\ Erasing(v) => Doing("EraseDownload", v) \/ Erasing(v)'
           /\ \A k : Pending(v, k) =>
                 \/ Pending(v, k)'
                 \/ /\ Doing("QueueDownloadItem", v) \/ Doing("AddClip", v)
                    /\ Head(calls).k = k
           /\ \A c \in Range(calls') : ~Failing(c)
<1>1. /\ alerts' = alerts /\ world' = world /\ calls # <<>>
      /\ Behind(calls) \subseteq Range(calls')
      /\ \A c \in Range(calls') : c \in Behind(calls) \/ c.hr \in {"S_OK", "E_FAIL"}
  BY BodyIsSeen DEF BodySeen
<1>2. Range(calls) = {Head(calls)} \cup Behind(calls) /\ calls \in Seq(CallSet)
  BY <1>1, HeadAndTail DEF TInv
<1>3. Erasing(v) => Doing("EraseDownload", v) \/ Erasing(v)'
  BY <1>1, <1>2 DEF Erasing, Doing
<1>4. ASSUME NEW k, Pending(v, k)
      PROVE  \/ Pending(v, k)'
             \/ /\ Doing("QueueDownloadItem", v) \/ Doing("AddClip", v)
                /\ Head(calls).k = k
  <2>1. PICK c \in Range(calls) :
           c.v = v /\ c.k = k /\ c.do \in {"QueueDownloadItem", "AddClip"}
    BY <1>4 DEF Pending
  <2> QED BY <1>1, <1>2, <2>1 DEF Pending, Doing
<1>5. \A c \in Behind(calls) : ~Failing(c)
  BY DEF QInv, Stacked, Later, Failing
<1> DEFINE N == {c \in CallSet : ~Failing(c)}
<1>6. /\ \A f \in OfVideo, w \in Videos : Call(f, w) \in N
      /\ \A f \in {"QueueDownloadItem", "AddClip"}, k \in Clips(v) : CallClip(f, v, k) \in N
      /\ \A k \in Clips(v) : Complete(v, k, "S_OK") \in N
  BY CallsTyped, CallFields DEF OfVideo, OfClip, Answers, Failing, Failures
<1>7. \/ Then(<<>>)
      \/ \E c \in N : Then(<<c>>)
      \/ \E c, d \in N : Then(<<c, d>>)
  <2> HIDE DEF N
  <2>1. CASE AddClip(v)
    <3>1. Then(<<>>) \/ Then(<<Complete(v, Head(calls).k, "S_OK")>>)
      BY <2>1, AddClipHow DEF Willing, AddRefused, AddKnown, AddStarted
    <3> QED BY <1>6, <2>1, <3>1, AddClipHow
  <2>2. CASE QueueDownloadItem(v)
    BY <1>6, <2>2, QueueItemDoes
  <2>3. CASE QueueNextDownloadItem(v)
    BY <1>6, <2>3, QueueNextDoes
  <2>4. CASE QueueDownload(v) \/ EraseDownload(v)
    BY <1>6, <2>4, QueueDownloadDoes, EraseDoes DEF OfVideo
  <2>5. CASE OnItemComplete(v)
    BY <1>6, <2>5, ItemCompleteDoes DEF OfVideo
  <2>6. CASE OnDownloadComplete(v)
    <3>1. queue # <<>> => Head(queue) \in Videos
      BY HeadAndTail DEF TInv
    <3> QED BY <1>6, <2>6, <3>1, CompleteDoes DEF OfVideo
  <2>7. CASE CountTorrentFound(v)
    BY <2>7 DEF CountTorrentFound
  <2>8. CASE ResumeStep(v)
    BY <1>6, <2>8, ResumeHow DEF OfVideo
  <2> QED BY <2>1, <2>2, <2>3, <2>4, <2>5, <2>6, <2>7, <2>8 DEF Body
<1>8. \A c \in Range(calls') : ~Failing(c)
  <2>1. \A c \in N : c \in CallSet /\ ~Failing(c)
    OBVIOUS
  <2> HIDE DEF N
  <2> QED BY <1>1, <1>2, <1>5, <1>7, <2>1, ThenNothing, ThenCall, ThenTwoCalls
<1> QED BY <1>1, <1>3, <1>4, <1>8

(* A body that leaves the clips and their handles as they are.               *)
LEMMA ClipsAlone ==
    ASSUME TInv, TInv', QInv, Willing, NEW v \in Videos, Body(v), DOf(v),
           \A f \in {"QueueDownloadItem", "AddClip", "EraseDownload"} : ~Doing(f, v),
           item'[v].cur = item[v].cur, item'[v].clips = item[v].clips,
           item'[v].type = item[v].type, item'[v].handle = item[v].handle,
           Is(v, "DELETED")' <=> Is(v, "DELETED"),
           \A k \in item'[v].missing : k \in item[v].missing \/ item[v].handle[k] # 0,
           DOMAIN pairs' = DOMAIN pairs,
           \A h \in DOMAIN pairs : pairs'[h].v = pairs[h].v /\ pairs'[h].at = pairs[h].at
    PROVE  DOf(v)'
<1>1. /\ alerts' = alerts
      /\ Erasing(v) => Erasing(v)'
      /\ \A k : Pending(v, k) => Pending(v, k)'
      /\ \A c \in Range(calls') : ~Failing(c)
  BY BodyD
<1>2. Leaving(v)' = Leaving(v)
  BY <1>1 DEF Leaving, AlertsFor
<1>3. IsStream(v)' <=> IsStream(v)
  BY DEF IsStream
<1> QED BY <1>1, <1>2, <1>3 DEF DOf

LEMMA QueueDownloadD ==
    ASSUME TInv, TInv', QInv, CInv, Willing, NEW v \in listed, DOf(v), QueueDownload(v)
    PROVE  DOf(v)'
<1>1. /\ pairs' = pairs /\ \E F : Reflagged(v, F)
      /\ item'[v].flags \in {item[v].flags, item[v].flags \ {"QUEUED", "FORCE", "PAUSED"},
                             item[v].flags \cup {"QUEUED"}}
      /\ v \in Videos
  BY QueueDownloadDoes, ListedIs
<1>2. /\ item'[v].cur = item[v].cur /\ item'[v].clips = item[v].clips
      /\ item'[v].type = item[v].type /\ item'[v].handle = item[v].handle
      /\ item'[v].missing = item[v].missing
  BY <1>1 DEF Reflagged
<1>3. Is(v, "DELETED")' <=> Is(v, "DELETED")
  BY <1>1 DEF Is
<1>4. \A f \in {"QueueDownloadItem", "AddClip", "EraseDownload"} : ~Doing(f, v)
  BY DEF QueueDownload, Doing
<1> QED BY <1>1, <1>2, <1>3, <1>4, ClipsAlone DEF Body

LEMMA CompleteD ==
    ASSUME TInv, TInv', QInv, CInv, Willing, NEW v \in listed, DOf(v), OnDownloadComplete(v)
    PROVE  DOf(v)'
<1>1. /\ pairs' = pairs /\ Reflagged(v, (item[v].flags \ {"ACTIVE"}) \cup {"FINISHED"})
      /\ v \in Videos
  BY CompleteDoes, ListedIs
<1>2. /\ item'[v].cur = item[v].cur /\ item'[v].clips = item[v].clips
      /\ item'[v].type = item[v].type /\ item'[v].handle = item[v].handle
      /\ item'[v].missing = item[v].missing
  BY <1>1 DEF Reflagged
<1>3. Is(v, "DELETED")' <=> Is(v, "DELETED")
  BY <1>1 DEF Is, Reflagged
<1>4. \A f \in {"QueueDownloadItem", "AddClip", "EraseDownload"} : ~Doing(f, v)
  BY DEF OnDownloadComplete, Doing
<1> QED BY <1>1, <1>2, <1>3, <1>4, ClipsAlone DEF Body

LEMMA ResumeD ==
    ASSUME TInv, TInv', QInv, CInv, Willing, NEW v \in listed, DOf(v), ResumeStep(v)
    PROVE  DOf(v)'
<1>1. /\ item'[v].cur = item[v].cur /\ item'[v].clips = item[v].clips
      /\ item'[v].type = item[v].type /\ item'[v].handle = item[v].handle
      /\ item'[v].missing = item[v].missing
      /\ item'[v].flags = item[v].flags \/ item'[v].flags = item[v].flags \ {"PAUSED"}
      /\ pairs' = pairs \/ pairs' = Switched(v, FALSE)
      /\ Doing("Resume", v) /\ v \in Videos
  BY ResumeHow, ListedIs
<1>2. /\ DOMAIN pairs' = DOMAIN pairs
      /\ \A h \in DOMAIN pairs : pairs'[h].v = pairs[h].v /\ pairs'[h].at = pairs[h].at
  BY <1>1, SwitchedOthers
<1>3. Is(v, "DELETED")' <=> Is(v, "DELETED")
  BY <1>1 DEF Is
<1>4. \A f \in {"QueueDownloadItem", "AddClip", "EraseDownload"} : ~Doing(f, v)
  BY <1>1 DEF Doing
<1> QED BY <1>1, <1>2, <1>3, <1>4, ClipsAlone DEF Body

(* The clip the server has not got had been handed out.                      *)
LEMMA ItemCompleteD ==
    ASSUME TInv, TInv', QInv, CInv, Willing, NEW v \in listed, DOf(v), OnItemComplete(v)
    PROVE  DOf(v)'
<1>1. /\ item'[v].cur = item[v].cur /\ item'[v].clips = item[v].clips
      /\ item'[v].type = item[v].type /\ item'[v].handle = item[v].handle
      /\ pairs' = pairs /\ Doing("OnItemComplete", v) /\ v \in Videos
      /\ item'[v].flags \in {item[v].flags, item[v].flags \cup {"ERR_NETWORK"}}
  BY ItemCompleteHow, ItemCompleteDoes, ListedIs
<1>2. /\ Head(calls) \in Range(calls)
      /\ Head(calls).v = v /\ Head(calls).do = "OnItemComplete"
  BY <1>1, DoingIs
<1>3. \A k \in item'[v].missing : k \in item[v].missing \/ item[v].handle[k] # 0
  <2> SUFFICES ASSUME item'[v].missing # item[v].missing
               PROVE  \A k \in item'[v].missing : k \in item[v].missing \/ item[v].handle[k] # 0
    OBVIOUS
  <2>1. item'[v].missing \subseteq item[v].missing \cup {Head(calls).k}
    BY <1>1, ItemCompleteHow
  <2>2. Head(calls).hr = "E_HTTP_NOTFOUND"
    BY <1>1, ItemCompleteHow
  <2>3. Failing(Head(calls))
    BY <1>2, <2>2 DEF Failing, Failures
  <2>4. item[v].handle[Head(calls).k] # 0
    BY <1>2, <2>3 DEF DOf
  <2> QED BY <2>1, <2>4
<1>4. Is(v, "DELETED")' <=> Is(v, "DELETED")
  BY <1>1 DEF Is
<1>5. \A f \in {"QueueDownloadItem", "AddClip", "EraseDownload"} : ~Doing(f, v)
  BY <1>1 DEF Doing
<1> QED BY <1>1, <1>3, <1>4, <1>5, ClipsAlone DEF Body

(* A deleted download queues no further clip.                                *)
LEMMA QueueNextD ==
    ASSUME TInv, TInv', QInv, CInv, Willing, NEW v \in listed, DOf(v), QueueNextDownloadItem(v)
    PROVE  DOf(v)'
<1>1. /\ pairs' = pairs /\ item'[v].flags = item[v].flags /\ item'[v].type = item[v].type
      /\ item'[v].missing = item[v].missing /\ item'[v].handle = item[v].handle
      /\ \/ \E n \in Clips(v) :
               /\ n = item[v].cur + 1 /\ item'[v].cur = n /\ item'[v].clips = item[v].clips + 1
               /\ Then(<<CallClip("QueueDownloadItem", v, n)>>)
         \/ item'[v] = item[v]
  BY QueueNextDoes, ListedIs
<1>2. /\ Doing("QueueNextDownloadItem", v) /\ v \in Videos /\ COf(v)
      /\ item[v].cur \in Nat /\ item[v].clips \in Int /\ Clips(v) \subseteq Nat
  BY ListedIs DEF QueueNextDownloadItem
<1>3. \A f \in {"QueueDownloadItem", "AddClip", "EraseDownload"} : ~Doing(f, v)
  BY <1>2 DEF Doing
<1>4. Is(v, "DELETED")' <=> Is(v, "DELETED")
  BY <1>1 DEF Is
<1>5. CASE item'[v] = item[v]
  BY <1>1, <1>2, <1>3, <1>4, <1>5, ClipsAlone DEF Body
<1>6. ASSUME NEW n \in Clips(v), n = item[v].cur + 1, item'[v].cur = n,
             item'[v].clips = item[v].clips + 1,
             Then(<<CallClip("QueueDownloadItem", v, n)>>)
      PROVE  DOf(v)'
  <2> DEFINE c == CallClip("QueueDownloadItem", v, n)
  <2>1. ~Is(v, "DELETED")
    <3>1. Head(calls) \in Range(calls) /\ Head(calls).v = v
          /\ Head(calls).do = "QueueNextDownloadItem"
      BY <1>2, DoingIs
    <3> QED BY <1>2, <3>1 DEF COf, Stops, OfClip
  <2>2. /\ \A k : Pending(v, k) => Pending(v, k)'
        /\ \A d \in Range(calls') : ~Failing(d)
    BY <1>2, <1>3, BodyD DEF Body
  <2>3. Pending(v, n)'
    <3>1. c \in CallSet /\ c.v = v /\ c.k = n /\ c.do = "QueueDownloadItem"
      BY <1>2, <1>6, CallsTyped, CallFields DEF OfClip, CallClip
    <3>2. Then(<<c>>)
      BY <1>6
    <3> HIDE DEF c
    <3>3. c \in Range(calls')
      BY <1>2, <3>1, <3>2, DoingIs, ThenCall
    <3> QED BY <3>1, <3>3 DEF Pending
  <2>4. \A k \in Clips(v) : k <= n => k <= item[v].cur \/ k = n
    BY <1>2, <1>6
  <2>5. IsStream(v)' <=> IsStream(v)
    BY <1>1 DEF IsStream
  <2>6. item'[v].clips <= item'[v].cur
    BY <1>2, <1>6 DEF DOf
  <2> QED BY <1>1, <1>4, <1>6, <2>1, <2>2, <2>3, <2>4, <2>5, <2>6 DEF DOf
<1> QED BY <1>1, <1>5, <1>6

(* A clip that is not handed out has a handle from before.                   *)
LEMMA QueueItemD ==
    ASSUME TInv, TInv', QInv, CInv, Willing, NEW v \in listed, DOf(v), QueueDownloadItem(v)
    PROVE  DOf(v)'
<1>1. /\ UNCHANGED <<item, alerts, pairs>> /\ Doing("QueueDownloadItem", v)
      /\ v \in Videos /\ COf(v)
  BY QueueItemDoes, ListedIs DEF QueueDownloadItem
<1>2. PICK j \in Clips(v) :
         /\ Head(calls).k = j
         /\ \/ item[v].type[j] = "stream" \/ j \in item[v].missing
            \/ Then(<<CallClip("AddClip", v, j)>>)
            \/ Then(<<Complete(v, j, "S_OK"), CallClip("AddClip", v, j)>>)
  BY <1>1, QueueItemDoes
<1>3. /\ Erasing(v) => Erasing(v)'
      /\ \A k : Pending(v, k) => Pending(v, k)' \/ k = j
      /\ \A c \in Range(calls') : ~Failing(c)
  <2>1. ~Doing("EraseDownload", v)
    BY <1>1 DEF Doing
  <2> QED BY <1>1, <1>2, <2>1, BodyD DEF Body
<1>4. IsStream(v) \/ item[v].handle[j] # 0 \/ Pending(v, j)'
  <2>1. CASE item[v].type[j] = "stream"
    BY <1>1, <2>1 DEF COf, Counts
  <2>2. CASE j \in item[v].missing
    BY <2>2 DEF DOf
  <2>3. CASE \/ Then(<<CallClip("AddClip", v, j)>>)
             \/ Then(<<Complete(v, j, "S_OK"), CallClip("AddClip", v, j)>>)
    <3> DEFINE c == CallClip("AddClip", v, j)
               d == Complete(v, j, "S_OK")
    <3>1. /\ c \in CallSet /\ d \in CallSet
          /\ c.v = v /\ c.k = j /\ c.do = "AddClip"
      BY <1>1, CallsTyped, CallFields DEF OfClip, CallClip, Answers
    <3>2. Then(<<c>>) \/ Then(<<d, c>>)
      BY <2>3
    <3> HIDE DEF c, d
    <3>3. c \in Range(calls')
      BY <1>1, <3>1, <3>2, DoingIs, ThenCall, ThenTwoCalls
    <3> QED BY <3>1, <3>3 DEF Pending
  <2> QED BY <1>2, <2>1, <2>2, <2>3
<1>5. Leaving(v)' = Leaving(v) /\ (IsStream(v)' <=> IsStream(v))
      /\ (Is(v, "DELETED")' <=> Is(v, "DELETED"))
  BY <1>1 DEF Leaving, AlertsFor, IsStream, Is
<1> QED BY <1>1, <1>3, <1>4, <1>5 DEF DOf

LEMMA AddClipD ==
    ASSUME TInv, TInv', QInv, CInv, Willing, NEW v \in listed, DOf(v), AddClip(v)
    PROVE  DOf(v)'
<1>1. /\ Doing("AddClip", v) /\ v \in Videos /\ item[v] \in ItemsOf(v)
      /\ item'[v].cur = item[v].cur /\ item'[v].clips = item[v].clips
      /\ item'[v].type = item[v].type /\ item'[v].missing = item[v].missing
  BY AddClipHow, ListedIs
<1>2. PICK j \in Clips(v) :
         /\ Head(calls).k = j
         /\ \A k \in Clips(v) \ {j} : item'[v].handle[k] = item[v].handle[k]
         /\ item'[v].handle[j] = Len(pairs) + 1
         /\ \/ item'[v].flags = item[v].flags
            \/ item'[v].flags = (item[v].flags \ {"FINISHED", "QUEUED"}) \cup {"ACTIVE"}
         /\ \E p \in PairSet : p.at # "gone" /\ pairs' = Append(pairs, p)
  BY <1>1, AddClipHow DEF Willing, AddRefused, AddKnown, AddStarted
<1>3. /\ Erasing(v) => Erasing(v)'
      /\ \A k : Pending(v, k) => Pending(v, k)' \/ k = j
      /\ \A c \in Range(calls') : ~Failing(c)
      /\ alerts' = alerts
  <2>1. ~Doing("EraseDownload", v)
    BY <1>1 DEF Doing
  <2> QED BY <1>1, <1>2, <2>1, BodyD DEF Body
<1>4. Len(pairs) + 1 # 0
  BY SeqEntries DEF TInv
<1>5. \A k \in Clips(v) : item[v].handle[k] # 0 \/ k = j => item'[v].handle[k] # 0
  BY <1>2, <1>4
<1>6. \A h \in DOMAIN pairs' : pairs'[h].at # "gone" \/ (h \in DOMAIN pairs /\ pairs'[h] = pairs[h])
  BY <1>2, OnePair
<1>7. item[v].missing \subseteq Clips(v)
  BY <1>1 DEF ItemsOf
<1>8. Leaving(v)' = Leaving(v) /\ (IsStream(v)' <=> IsStream(v))
      /\ (Is(v, "DELETED")' <=> Is(v, "DELETED"))
  BY <1>1, <1>2, <1>3 DEF Leaving, AlertsFor, IsStream, Is
<1> QED BY <1>1, <1>2, <1>3, <1>5, <1>6, <1>7, <1>8 DEF DOf

(* Between two calls.                                                        *)
LEMMA NobodyCalls ==
    ASSUME calls = <<>>
    PROVE  Range(calls) = {} /\ (\A v : ~Erasing(v) /\ ~Asked(v)) /\ \A v, k : ~Pending(v, k)
BY NoEntries DEF Erasing, Asked, Pending

LEMMA AddD ==
    ASSUME TInv, TInv', Willing, NEW v \in Videos, AddDownload(v)
    PROVE  DOf(v)'
<1>1. /\ UNCHANGED <<alerts, pairs>>
      /\ calls' = <<Call("QueueDownload", v)>>
      /\ item'[v].flags \subseteq {"FINISHED", "PAUSED"}
      /\ item'[v].cur = 0 /\ item'[v].clips = 0
      /\ item'[v].missing = {}
      /\ \A h \in DOMAIN pairs : pairs[h].v # v
  BY AddDoes, AddHow DEF Willing, Plain, Without, May
<1>2. \A c \in Range(calls') : ~Failing(c)
  <2>1. Call("QueueDownload", v) \in CallSet
    BY CallsTyped DEF OfVideo
  <2>2. ~Failing(Call("QueueDownload", v))
    BY CallFields DEF Failing
  <2> QED BY <1>1, <2>1, <2>2, OneEntry
<1>3. ~Is(v, "DELETED")'
  BY <1>1 DEF Is
<1>4. \A k \in Clips(v) : ~(k <= 0)
  BY DEF Clips
<1> QED BY <1>1, <1>2, <1>3, <1>4 DEF DOf

LEMMA StartD ==
    ASSUME TInv, TInv', QInv, CInv, Willing, NEW v \in listed, DOf(v), StartQueuedDownload(v)
    PROVE  DOf(v)'
<1>1. /\ UNCHANGED <<alerts, pairs>> /\ calls = <<>> /\ v \in Videos
      /\ calls' = <<Call("QueueDownload", v)>> /\ item'[v].missing = item[v].missing
      /\ Is(v, "QUEUED") \/ (Is(v, "FINISHED") /\ IsStream(v))
      /\ \/ /\ Is(v, "QUEUED")
            /\ item'[v].flags = item[v].flags \cup {"FORCE"}
            /\ item'[v].cur = item[v].cur /\ item'[v].clips = item[v].clips
         \/ /\ IsStream(v)
            /\ item'[v].flags = (item[v].flags \ {"FINISHED"}) \cup {"FORCE"}
            /\ item'[v].cur = 0 /\ item'[v].clips = 0
  BY StartDoes, StartHow, ListedIs DEF Willing, Plain, Without, May
<1>2. \A c \in Range(calls') : ~Failing(c)
  <2>1. Call("QueueDownload", v) \in CallSet
    BY <1>1, CallsTyped DEF OfVideo
  <2>2. ~Failing(Call("QueueDownload", v))
    BY CallFields DEF Failing
  <2> QED BY <1>1, <2>1, <2>2, OneEntry
<1>3. COf(v) /\ ~Erasing(v) /\ ~Asked(v)
  BY <1>1, NobodyCalls, ListedIs
<1>4. item'[v].cur = 0 /\ item'[v].clips <= 0 /\ item[v].missing = {}
  <2>1. CASE Is(v, "QUEUED")
    BY <1>1, <1>3, <2>1, Unheard DEF COf, Waits, DOf
  <2>2. CASE IsStream(v) /\ ~Is(v, "QUEUED")
    <3>1. ~Traced(v)
      BY <1>1, <2>2 DEF QInv, QOf
    <3> QED BY <1>1, <1>3, <2>2, <3>1 DEF COf, Engaged
  <2> QED BY <1>1, <2>1, <2>2
<1>5. ~Is(v, "DELETED") /\ ~Is(v, "DELETED")'
  <2>1. ~Is(v, "DELETED")
    BY <1>1, <1>3 DEF COf, Stops, Waits
  <2> QED BY <1>1, <2>1 DEF Is
<1>6. \A k \in Clips(v) : ~(k <= 0)
  BY DEF Clips
<1> QED BY <1>1, <1>2, <1>4, <1>5, <1>6 DEF DOf

(* The clips stay as they are, and so does what is on its way.               *)
LEMMA OnlyPaused ==
    ASSUME TInv, TInv', calls = <<>>, NEW v \in Videos, DOf(v), UNCHANGED alerts,
           \A c \in Range(calls') : ~Failing(c),
           item'[v].cur = item[v].cur, item'[v].clips = item[v].clips,
           item'[v].type = item[v].type, item'[v].handle = item[v].handle,
           item'[v].missing = item[v].missing,
           Is(v, "DELETED")' <=> Is(v, "DELETED"),
           \A h \in DOMAIN pairs' :
              h \in DOMAIN pairs /\ pairs'[h].v = pairs[h].v /\ pairs'[h].at = pairs[h].at
    PROVE  DOf(v)'
<1>1. ~Erasing(v) /\ \A k : ~Pending(v, k)
  BY NobodyCalls
<1>2. Leaving(v)' = Leaving(v)
  BY DEF Leaving, AlertsFor
<1>3. IsStream(v)' <=> IsStream(v)
  BY DEF IsStream
<1> QED BY <1>1, <1>2, <1>3 DEF DOf

LEMMA PauseD ==
    ASSUME TInv, TInv', NEW v \in Videos, DOf(v), PauseDownload(v)
    PROVE  DOf(v)'
<1>1. /\ calls = <<>> /\ UNCHANGED <<calls, alerts>> /\ SamePairs
      /\ \A h \in DOMAIN pairs' : h \in DOMAIN pairs /\ pairs'[h].at = pairs[h].at
      /\ Reflagged(v, item[v].flags) \/ Reflagged(v, item[v].flags \cup {"PAUSED"})
  BY PauseHow
<1>2. \A c \in Range(calls') : ~Failing(c)
  BY <1>1, NoEntries
<1>3. \A h \in DOMAIN pairs' : pairs'[h].v = pairs[h].v
  <2>1. DOMAIN pairs' = 1..Len(pairs)
    BY <1>1, SeqEntries DEF SamePairs
  <2> QED BY <1>1, <2>1 DEF SamePairs
<1>4. /\ item'[v].cur = item[v].cur /\ item'[v].clips = item[v].clips
      /\ item'[v].type = item[v].type /\ item'[v].handle = item[v].handle
      /\ item'[v].missing = item[v].missing
      /\ Is(v, "DELETED")' <=> Is(v, "DELETED")
  BY <1>1 DEF Reflagged, Is
<1> QED BY <1>1, <1>2, <1>3, <1>4, OnlyPaused

LEMMA PauseAllD ==
    ASSUME TInv, TInv', NEW v \in Videos, DOf(v), PauseAll
    PROVE  DOf(v)'
<1>1. /\ calls = <<>> /\ UNCHANGED <<calls, alerts>>
      /\ \/ item'[v].flags = item[v].flags
         \/ item'[v].flags = item[v].flags \cup {"PAUSED"}
      /\ item'[v].cur = item[v].cur /\ item'[v].clips = item[v].clips
      /\ item'[v].type = item[v].type /\ item'[v].handle = item[v].handle
  BY PauseAllDoes
<1>2. \A c \in Range(calls') : ~Failing(c)
  BY <1>1, NoEntries
<1>3. item'[v].missing = item[v].missing
  <2>1. PICK these : item' = [w \in Videos |->
              IF w \in these
              THEN [item[w] EXCEPT !.flags = @ \cup {"PAUSED"}, !.error = FALSE] ELSE item[w]]
    BY DEF PauseAll
  <2> QED BY <2>1 DEF TInv, ItemsTyped, ItemsOf
<1>4. PICK H : pairs' = [h \in DOMAIN pairs |->
                           IF h \in H THEN [pairs[h] EXCEPT !.paused = TRUE] ELSE pairs[h]]
  BY DEF PauseAll
<1>5. \A h \in DOMAIN pairs' :
         h \in DOMAIN pairs /\ pairs'[h].v = pairs[h].v /\ pairs'[h].at = pairs[h].at
  <2>1. \A h \in DOMAIN pairs : pairs[h] \in PairSet
    BY SeqEntries, ElementOfSeq DEF TInv
  <2> QED BY <1>4, <2>1 DEF PairSet
<1>6. Is(v, "DELETED")' <=> Is(v, "DELETED")
  BY <1>1 DEF Is
<1> QED BY <1>1, <1>2, <1>3, <1>5, <1>6, OnlyPaused

LEMMA ResumeCallsD ==
    ASSUME TInv, TInv', NEW v \in Videos, DOf(v),
           ResumeAll \/ \E w \in Videos : ResumeDownload(w)
    PROVE  DOf(v)'
<1>1. /\ UNCHANGED <<item, alerts, pairs>> /\ calls = <<>>
      /\ \A c \in Range(calls') : c.do = "Resume"
  BY ResumeCallsDo
<1>2. \A c \in Range(calls') : ~Failing(c)
  BY <1>1 DEF Failing
<1> QED BY <1>1, <1>2, OnlyPaused DEF Is

(* Somebody tells about a clip.                                              *)
LEMMA ToldD ==
    ASSUME TInv, TInv', NEW v \in Videos, DOf(v), UNCHANGED <<item, calls>>,
           \A i \in DOMAIN alerts : i \in DOMAIN alerts' /\ alerts'[i] = alerts[i],
           \A h \in DOMAIN pairs' : pairs'[h].at = "gone" =>
              h \in DOMAIN pairs /\ pairs'[h] = pairs[h]
    PROVE  DOf(v)'
<1>1. /\ Cardinality(Leaving(v)) <= Cardinality(Leaving(v)')
      /\ Cardinality(Leaving(v)) \in Nat /\ Cardinality(Leaving(v)') \in Nat
  BY LeavingGrows
<1>2. item[v].clips \in Int
  BY DEF TInv, ItemsTyped, ItemsOf
<1>3. /\ \A k : Pending(v, k)' <=> Pending(v, k)
      /\ Erasing(v)' <=> Erasing(v)
      /\ IsStream(v)' <=> IsStream(v)
      /\ Is(v, "DELETED")' <=> Is(v, "DELETED")
  BY DEF Pending, Erasing, IsStream, Is
<1> QED BY <1>1, <1>2, <1>3 DEF DOf

LEMMA ScheduleD ==
    ASSUME TInv, TInv', NEW v \in Videos, ProcessSchedule(v)
    PROVE  /\ DOf(v) => DOf(v)'
           /\ DInv => \A i \in DOMAIN alerts' :
                 alerts'[i].hr = "E_ABORT" => alerts'[i].code \in {"FINISHED", "REMOVED"}
<1> DEFINE a == [code |-> "SCHEDULED", v |-> v, k |-> 1, hr |-> "S_OK"]
<1>1. a \in AlertSet /\ a.hr = "S_OK" /\ alerts' = Push(alerts, <<a>>)
  BY Settings DEF ProcessSchedule, AlertSet, Codes, Answers
<1> HIDE DEF a
<1>2. UNCHANGED <<item, calls, pairs>>
  BY ScheduleDoes
<1>3. /\ \A i \in DOMAIN alerts : i \in DOMAIN alerts' /\ alerts'[i] = alerts[i]
      /\ \A i \in DOMAIN alerts' : i \in DOMAIN alerts \/ alerts'[i] = a
  BY <1>1, OnePushed
<1> QED BY <1>1, <1>2, <1>3, ToldD DEF DInv

LEMMA TransferD ==
    ASSUME TInv, TInv', CInv, Willing, NEW h \in DOMAIN pairs, TransferStep(h)
    PROVE  /\ \A v \in Videos : DOf(v) => DOf(v)'
           /\ DInv => \A i \in DOMAIN alerts' :
                 alerts'[i].hr = "E_ABORT" => alerts'[i].code \in {"FINISHED", "REMOVED"}
<1>1. /\ UNCHANGED <<item, calls>>
      /\ DOMAIN pairs' = DOMAIN pairs /\ \A g \in DOMAIN pairs : g # h => pairs'[g] = pairs[g]
      /\ pairs'[h].at # "gone"
      /\ \/ alerts' = alerts
         \/ \E a \in AlertSet :
               /\ alerts' = Push(alerts, <<a>>)
               /\ a.code \in {"FINISHED", "REMOVED"}
  BY TransferHow DEF Willing, Plain
<1>2. /\ \A i \in DOMAIN alerts : i \in DOMAIN alerts' /\ alerts'[i] = alerts[i]
      /\ \A i \in DOMAIN alerts' :
            i \in DOMAIN alerts \/ alerts'[i].code \in {"FINISHED", "REMOVED"}
  BY <1>1, OnePushed
<1> QED BY <1>1, <1>2, ToldD DEF DInv

(* The alert on top is taken, and was none that brings the download nearer   *)
(* to its end.                                                               *)
LEMMA TakenD ==
    ASSUME TInv, TInv', QInv, Traces, CInv, NEW v \in listed, DOf(v), NEW code, Taken(code),
           TopAlert.v = v, TopAlert.code # "REMOVED", TopAlert.hr # "E_ABORT",
           UNCHANGED <<item, pairs>>,
           \A c \in Range(calls') : c.v = v /\ Failing(c) =>
              c.k = TopAlert.k /\ TopAlert.code = "FINISHED" /\ TopAlert.hr \in Failures
    PROVE  DOf(v)'
<1>1. /\ calls = <<>> /\ TopAlert.k \in Clips(v) /\ TopAlert \in Range(alerts)
      /\ TopAlert.code = code
  BY TakenIs
<1>2. /\ Len(alerts) \in DOMAIN alerts /\ TopAlert = alerts[Len(alerts)]
      /\ \A i \in DOMAIN alerts' : i \in DOMAIN alerts /\ alerts'[i] = alerts[i]
      /\ \A i \in DOMAIN alerts : i # Len(alerts) => i \in DOMAIN alerts'
  BY TakenEntries
<1>3. Leaving(v)' = Leaving(v)
  BY <1>2 DEF Leaving, AlertsFor
<1>4. /\ ~Erasing(v) /\ \A k : ~Pending(v, k)
      /\ v \in Videos /\ COf(v)
  BY <1>1, NobodyCalls, ListedIs
<1>5. /\ IsStream(v)' <=> IsStream(v)
      /\ Is(v, "DELETED")' <=> Is(v, "DELETED")
  BY DEF IsStream, Is
<1>6. TopAlert.code = "FINISHED" => item[v].handle[TopAlert.k] # 0
  <2> SUFFICES ASSUME TopAlert.code = "FINISHED" PROVE item[v].handle[TopAlert.k] # 0
    OBVIOUS
  <2>1. ~IsStream(v)
    <3>1. Traced(v)
      BY <1>1 DEF Traces
    <3> QED BY <1>4, <3>1 DEF QInv, QOf
  <2>2. TopAlert.k <= item[v].cur
    <3>1. Handed(v, TopAlert.k)
      BY <1>2 DEF Handed, Told
    <3> QED BY <1>1, <1>4, <3>1 DEF COf, Once, Counts
  <2> QED BY <1>1, <1>4, <2>1, <2>2 DEF DOf
<1> QED BY <1>3, <1>4, <1>5, <1>6 DEF DOf

LEMMA FinishedD ==
    ASSUME TInv, TInv', QInv, Traces, CInv, DInv, NEW v \in listed, TopAlert.v = v,
           OnItemFinished \/ OnScheduledEvent
    PROVE  DOf(v)'
<1>1. PICK code : Taken(code)
  BY DEF OnItemFinished, OnScheduledEvent
<1>2. /\ UNCHANGED <<item, pairs>> /\ TopAlert.hr \in Answers /\ TopAlert.k \in Clips(v)
      /\ TopAlert.code = code /\ v \in Videos
      /\ TopAlert = alerts[Len(alerts)] /\ Len(alerts) \in DOMAIN alerts
  BY <1>1, FinishedDoes, ScheduledDoes, TakenIs, TakenEntries
<1>3. CASE OnItemFinished
  <2>1. /\ TopAlert.code = "FINISHED" /\ TopAlert.hr # "E_ABORT"
        /\ calls' = <<>> \/ calls' = <<Complete(v, TopAlert.k, TopAlert.hr)>>
    BY <1>3 DEF OnItemFinished, Taken
  <2>2. /\ Complete(v, TopAlert.k, TopAlert.hr) \in CallSet
        /\ Complete(v, TopAlert.k, TopAlert.hr).k = TopAlert.k
        /\ Complete(v, TopAlert.k, TopAlert.hr).hr = TopAlert.hr
    BY <1>2, CallsTyped DEF Complete
  <2>3. \A c \in Range(calls') : Failing(c) => c.k = TopAlert.k /\ TopAlert.hr \in Failures
    BY <2>1, <2>2, NoEntries, OneEntry DEF Failing
  <2> QED BY <1>1, <1>2, <2>1, <2>3, TakenD DEF DInv
<1>4. CASE OnScheduledEvent
  <2>1. /\ TopAlert.code = "SCHEDULED"
        /\ calls' = <<>> \/ calls' = <<CallClip("QueueDownloadItem", v, 1)>>
    BY <1>4 DEF OnScheduledEvent, Taken
  <2>2. /\ CallClip("QueueDownloadItem", v, 1) \in CallSet
        /\ ~Failing(CallClip("QueueDownloadItem", v, 1))
    BY <1>2, Settings, CallsTyped, CallFields DEF OfClip, Failing
  <2>3. \A c \in Range(calls') : ~Failing(c)
    BY <2>1, <2>2, NoEntries, OneEntry
  <2>4. TopAlert.hr # "E_ABORT"
    BY <1>2, <2>1 DEF DInv
  <2> QED BY <1>1, <1>2, <2>1, <2>3, <2>4, TakenD DEF DInv
<1> QED BY <1>3, <1>4

(* One clip less, and one alert less.                                        *)
LEMMA ItemRemovedD ==
    ASSUME TInv, TInv', CInv, NEW v \in listed, DOf(v), TopAlert.v = v, OnItemRemoved,
           v \in listed'
    PROVE  DOf(v)'
<1>1. PICK code : Taken(code)
  BY DEF OnItemRemoved
<1>2. /\ TopAlert.code = "REMOVED" \/ TopAlert.hr = "E_ABORT"
      /\ UNCHANGED <<calls, pairs>> /\ ItemRemoved(v)
  BY DEF OnItemRemoved, Taken
<1>3. /\ calls = <<>> /\ item[v] \in ItemsOf(v) /\ item = [w \in Videos |-> item[w]]
      /\ v \in Videos /\ item[v].clips \in Int /\ item[v].cur \in Nat
  BY <1>1, TakenIs, ListedIs DEF TInv, ItemsTyped
<1>4. /\ Len(alerts) \in DOMAIN alerts /\ TopAlert = alerts[Len(alerts)]
      /\ \A i \in DOMAIN alerts' :
            i \in DOMAIN alerts /\ i # Len(alerts) /\ alerts'[i] = alerts[i]
      /\ \A i \in DOMAIN alerts : i # Len(alerts) => i \in DOMAIN alerts'
  BY <1>1, TakenEntries
<1>5. item' = [item EXCEPT ![v].clips = @ - 1]
  BY <1>2, <1>3 DEF ItemRemoved, Deleted
<1>6. /\ item'[v].clips = item[v].clips - 1 /\ item'[v].cur = item[v].cur
      /\ item'[v].flags = item[v].flags /\ item'[v].type = item[v].type
      /\ item'[v].handle = item[v].handle /\ item'[v].missing = item[v].missing
  BY <1>3, <1>5 DEF ItemsOf
<1>7. /\ Len(alerts) \in Leaving(v)
      /\ Leaving(v)' = Leaving(v) \ {Len(alerts)}
  BY <1>2, <1>4 DEF Leaving, AlertsFor
<1>8. Cardinality(Leaving(v)') = Cardinality(Leaving(v)) - 1 /\ Cardinality(Leaving(v)) \in Nat
  BY <1>7, LeavingIs, FS_RemoveElement
<1>9. /\ \A k : Pending(v, k)' <=> Pending(v, k)
      /\ Erasing(v)' <=> Erasing(v)
      /\ IsStream(v)' <=> IsStream(v)
      /\ Is(v, "DELETED")' <=> Is(v, "DELETED")
  BY <1>2, <1>6 DEF Pending, Erasing, IsStream, Is
<1>10. item'[v].clips <= item'[v].cur
  BY <1>3, <1>6 DEF DOf
<1> QED BY <1>2, <1>3, <1>6, <1>8, <1>9, <1>10 DEF DOf

(* What was pushed is there in full when the stack is not full.              *)
LEMMA PushedAll ==
    ASSUME NEW as \in Seq(AlertSet), NEW new \in Seq(AlertSet),
           Len(Push(as, new)) < MaxAlerts
    PROVE  Len(as) + Len(new) <= MaxAlerts
<1> DEFINE s == as \o new
           n == Len(s)
           a == Len(as)
           b == Len(new)
           p == Len(Push(as, new))
<1>1. /\ s \in Seq(AlertSet) /\ n = a + b /\ n \in Nat /\ a \in Nat /\ b \in Nat
  <2>1. a \in Nat /\ b \in Nat
    BY SeqEntries
  <2>2. s \in Seq(AlertSet) /\ n = a + b
    BY Joined
  <2>3. n \in Nat
    BY <2>2, SeqEntries
  <2> QED BY <2>1, <2>2, <2>3
<1>2. MaxAlerts \in Nat /\ Push(as, new) = SubSeq(s, 1, IF n <= MaxAlerts THEN n ELSE MaxAlerts)
  BY Settings DEF Push
<1>3. \A i \in 1..n : s[i] \in AlertSet
  BY <1>1, SeqEntries, ElementOfSeq
<1> HIDE DEF s, n, a, b, p
<1>4. p < MaxAlerts
  BY DEF p
<1>5. ASSUME n > MaxAlerts PROVE FALSE
  <2>1. \A i \in 1..MaxAlerts : s[i] \in AlertSet
    BY <1>1, <1>2, <1>3, <1>5
  <2>2. Len(SubSeq(s, 1, MaxAlerts)) = IF 1 <= MaxAlerts THEN MaxAlerts - 1 + 1 ELSE 0
    BY <1>2, <2>1, SubSeqProperties
  <2>3. p = MaxAlerts
    BY <1>1, <1>2, <1>5, <2>2 DEF p
  <2> QED BY <1>2, <1>4, <2>3
<1>6. a + b <= MaxAlerts
  BY <1>1, <1>2, <1>5
<1> QED BY <1>6 DEF a, b

(* An alert for each clip that has a pair.                                   *)
LEMMA RemovalsCount ==
    ASSUME TInv, TInv', NEW v \in Videos, alerts' = Push(alerts, RemovalAlerts(v)),
           Len(alerts') < MaxAlerts, NEW n \in Nat,
           \A k \in 1..n : k \in Clips(v) /\ item[v].handle[k] \in LivePairs(v)
    PROVE  n <= Cardinality(Leaving(v)')
<1> DEFINE K == {k \in Clips(v) : item[v].handle[k] \in LivePairs(v)}
           R == RemovalAlerts(v)
           ks == SetToSeq(K)
           m == Len(alerts)
<1>1. IsFiniteSet(K) /\ 1..n \subseteq K /\ IsFiniteSet(1..n) /\ Cardinality(1..n) = n
  <2>1. IsFiniteSet(K)
    BY Settings, FS_Subset
  <2>2. Cardinality(1..n) = n /\ IsFiniteSet(1..n)
    <3>1. 1 \in Int /\ n \in Int /\ n - 1 + 1 = n /\ (1 > n => n = 0)
      OBVIOUS
    <3> QED BY <3>1, FS_Interval
  <2> QED BY <2>1, <2>2
<1>2. ks \in Seq(K) /\ Range(ks) = K /\ IsInjective(ks)
  BY <1>1, SetToSeqEntries
<1>3. Cardinality(K) = Len(ks) /\ Len(ks) \in Nat /\ DOMAIN ks = 1..Len(ks)
  BY <1>2, DistinctLength, SeqEntries
<1>4. n <= Len(ks)
  BY <1>1, <1>3, FS_Subset
<1>5. /\ R \in Seq(AlertSet) /\ alerts \in Seq(AlertSet) /\ Len(alerts) <= MaxAlerts
      /\ DOMAIN R = DOMAIN ks
      /\ \A i \in DOMAIN R : R[i].v = v /\ R[i].code = "REMOVED"
  BY RemovalsTyped DEF TInv, RemovalAlerts
<1> HIDE DEF K, R, ks, m
<1>6. DOMAIN R = 1..Len(R) /\ Len(R) \in Nat /\ m \in Nat /\ Len(R) = Len(ks)
  BY <1>3, <1>5, SeqEntries DEF m
<1>7. m + Len(R) <= MaxAlerts
  BY <1>5, PushedAll DEF R, m
<1>8. \A j \in 1..Len(R) : m + j \in DOMAIN alerts' /\ alerts'[m + j] = R[j]
  BY <1>5, <1>7, PushedEntries DEF R, m
<1>9. \A i \in m + 1..m + Len(R) : i \in Leaving(v)'
  <2>1. ASSUME NEW i \in m + 1..m + Len(R)
        PROVE  i \in DOMAIN alerts' /\ alerts'[i].v = v /\ alerts'[i].code = "REMOVED"
    <3>1. i - m \in 1..Len(R) /\ i = m + (i - m)
      BY <1>6
    <3> QED BY <1>5, <1>6, <1>8, <3>1
  <2> QED BY <2>1 DEF Leaving, AlertsFor
<1>10. Cardinality(m + 1..m + Len(R)) = Len(R)
  <2>1. /\ m + 1 \in Int /\ m + Len(R) \in Int /\ (m + Len(R)) - (m + 1) + 1 = Len(R)
        /\ m + 1 > m + Len(R) => Len(R) = 0
    BY <1>6
  <2> QED BY <2>1, FS_Interval
<1>11. IsFiniteSet(Leaving(v)')
  <2>1. Len(alerts') \in Nat /\ DOMAIN alerts' = 1..Len(alerts')
    BY SeqEntries DEF TInv
  <2>2. Leaving(v)' \subseteq 1..Len(alerts')
    BY <2>1 DEF Leaving, AlertsFor
  <2>3. IsFiniteSet(1..Len(alerts'))
    BY <2>1, FS_Interval
  <2> QED BY <2>2, <2>3, FS_Subset
<1>12. Len(R) <= Cardinality(Leaving(v)')
  BY <1>9, <1>10, <1>11, FS_Subset
<1>13. Cardinality(Leaving(v)') \in Nat
  BY <1>11, FS_CardinalityType
<1> QED BY <1>4, <1>6, <1>12, <1>13

(* The user deletes a download.                                              *)
LEMMA RemoveD ==
    ASSUME TInv, TInv', QInv, CInv, Willing, NEW v \in Videos, DOf(v), RemoveDownload(v),
           Len(alerts') < MaxAlerts
    PROVE  DOf(v)'
<1>1. /\ UNCHANGED listed /\ calls = <<>> /\ v \in listed
      /\ Reflagged(v, item[v].flags \cup {"DELETED", "STOPPED"})
      /\ \A i \in DOMAIN alerts : i \in DOMAIN alerts' /\ alerts'[i] = alerts[i]
      /\ \A c \in Range(calls') : c.hr = "S_OK"
      /\ ErasedAtOnce(v) <=> Erasing(v)'
  BY RemoveHow
<1>2. /\ item'[v].cur = item[v].cur /\ item'[v].clips = item[v].clips
      /\ item'[v].missing = item[v].missing /\ item'[v].handle = item[v].handle
      /\ Is(v, "DELETED")' /\ (IsStream(v)' <=> IsStream(v))
  BY <1>1 DEF Reflagged, Is, IsStream
<1>3. /\ item[v].clips \in Int /\ item[v].cur \in Nat /\ COf(v)
      /\ \A k \in 1..item[v].cur : k \in Clips(v)
  BY <1>1, ListedIs DEF Clips
<1>4. \A c \in Range(calls') : ~Failing(c)
  BY <1>1 DEF Failing, Failures
<1>5. \A k : ~Pending(v, k)
  BY <1>1, NobodyCalls
<1>6. ASSUME ~Erasing(v)'
      PROVE  item[v].clips <= Cardinality(Leaving(v)')
  <2>1. CASE Is(v, "DELETED")
    <3>1. item[v].clips <= Cardinality(Leaving(v))
      BY <1>1, <2>1, NobodyCalls DEF DOf
    <3> QED BY <1>1, <1>3, <3>1, LeavingGrows
  <2>2. CASE ~Is(v, "DELETED")
    <3>1. ~IsStream(v)
      <4>1. ~Is(v, "FINISHED")
        BY <1>1, <1>6 DEF ErasedAtOnce, Is
      <4> QED BY <1>1, <1>3, <4>1 DEF COf, Idles, Asked, Moving, Doing
    <3>2. \A k \in 1..item[v].cur : item[v].handle[k] \in LivePairs(v)
      <4>1. ASSUME NEW k \in 1..item[v].cur PROVE item[v].handle[k] \in LivePairs(v)
        <5>1. k \in Clips(v) /\ item[v].handle[k] # 0
          BY <1>3, <1>5, <3>1 DEF DOf
        <5>2. item[v].handle[k] \in DOMAIN pairs /\ pairs[item[v].handle[k]].v = v
          BY <5>1, SeqEntries DEF TInv, HandlesTyped
        <5>3. pairs[item[v].handle[k]].at # "gone"
          BY <2>2, <5>2 DEF DOf
        <5> QED BY <5>1, <5>3 DEF LivePairs, HandlesOf
      <4> QED BY <4>1
    <3>3. alerts' = Push(alerts, RemovalAlerts(v))
      BY DEF RemoveDownload
    <3>4. item[v].cur <= Cardinality(Leaving(v)')
      BY <1>3, <3>2, <3>3, RemovalsCount
    <3>5. item[v].clips <= item[v].cur
      BY DEF DOf
    <3>6. Cardinality(Leaving(v)') \in Nat
      BY <1>1, LeavingGrows
    <3> QED BY <1>3, <3>4, <3>5, <3>6
  <2> QED BY <2>1, <2>2
<1>7. ~IsStream(v)' =>
        \A k \in Clips(v) : k <= item'[v].cur => item'[v].handle[k] # 0 \/ Pending(v, k)'
  BY <1>2, <1>5 DEF DOf
<1>8. \A k \in item'[v].missing : item'[v].handle[k] # 0
  BY <1>2 DEF DOf
<1>9. item'[v].clips <= item'[v].cur
  BY <1>2 DEF DOf
<1> QED BY <1>2, <1>4, <1>6, <1>7, <1>8, <1>9 DEF DOf

(* An alert with E_ABORT ends a transfer or takes a clip out.                *)
AbortsEnd ==
    \A i \in DOMAIN alerts : alerts[i].hr = "E_ABORT" => alerts[i].code \in {"FINISHED", "REMOVED"}

(* Push drops nothing.                                                       *)
Room == Len(alerts) < MaxAlerts

LEMMA OldAlertsEnd ==
    ASSUME AbortsEnd,
           \A i \in DOMAIN alerts' :
              \/ i \in DOMAIN alerts /\ alerts'[i] = alerts[i]
              \/ alerts'[i].code = "REMOVED"
    PROVE  AbortsEnd'
BY DEF AbortsEnd

LEMMA BodyDs ==
    ASSUME TInv, TInv', QInv, CInv, Willing, DInv, NEW v \in Videos, Body(v)
    PROVE  DInv'
<1>1. alerts' = alerts
  BY BodyIsSeen DEF BodySeen
<1>2. AbortsEnd'
  BY <1>1, OldAlertsEnd DEF DInv, AbortsEnd
<1>3. listed' \subseteq listed /\ (EraseDownload(v) => v \notin listed') /\ listed \subseteq Videos
  BY DEF TInv, Body, QueueDownload, QueueNextDownloadItem, QueueDownloadItem, AddClip,
     OnItemComplete, OnDownloadComplete, EraseDownload, Deleted, CountTorrentFound, ResumeStep
<1>4. \A w \in listed : w # v => DOf(w)'
  BY <1>3, BodyOthers, ApartD DEF DInv
<1>5. v \in listed' => DOf(v)'
  <2> SUFFICES ASSUME v \in listed' PROVE DOf(v)'
    OBVIOUS
  <2>1. v \in listed /\ DOf(v) /\ ~EraseDownload(v) /\ ~CountTorrentFound(v)
    BY <1>3, CountC DEF DInv
  <2> QED BY <2>1, QueueDownloadD, CompleteD, ResumeD, ItemCompleteD, QueueNextD, QueueItemD,
             AddClipD DEF Body
<1> QED BY <1>2, <1>3, <1>4, <1>5 DEF DInv, AbortsEnd

LEMMA UserDs ==
    ASSUME TInv, TInv', QInv, CInv, Willing, DInv, Room',
           NEW v \in Videos, User(v)
    PROVE  DInv'
<1>1. /\ listed' \subseteq listed \cup {v} /\ listed \subseteq Videos
      /\ listed' = listed \/ AddDownload(v)
  BY DEF TInv, User, AddDownload, StartQueuedDownload, RemoveDownload, PauseDownload,
     ResumeDownload, ResumeThese
<1>2. CASE ResumeDownload(v)
  <2>1. alerts' = alerts /\ listed' = listed
    BY <1>2 DEF ResumeDownload, ResumeThese
  <2>2. AbortsEnd'
    BY <2>1, OldAlertsEnd DEF DInv, AbortsEnd
  <2> QED BY <1>1, <1>2, <2>1, <2>2, ResumeCallsD DEF DInv, AbortsEnd
<1>3. CASE AddDownload(v) \/ StartQueuedDownload(v) \/ RemoveDownload(v) \/ PauseDownload(v)
  <2>1. AbortsEnd'
    <3>1. CASE RemoveDownload(v)
      BY <3>1, RemoveHow, OldAlertsEnd DEF DInv, AbortsEnd
    <3>2. CASE AddDownload(v) \/ StartQueuedDownload(v) \/ PauseDownload(v)
      <4>1. alerts' = alerts
        BY <3>2 DEF AddDownload, StartQueuedDownload, PauseDownload
      <4> QED BY <4>1, OldAlertsEnd DEF DInv, AbortsEnd
    <3> QED BY <1>3, <3>1, <3>2
  <2>2. \A w \in listed : w # v => DOf(w)'
    BY <1>1, <1>3, UserOthers, ApartD DEF DInv
  <2>3. v \in listed' => DOf(v)'
    <3>1. CASE AddDownload(v)
      BY <3>1, AddD
    <3>2. CASE v \in listed
      <4>1. DOf(v)
        BY <3>2 DEF DInv
      <4> QED BY <1>3, <3>1, <3>2, <4>1, StartD, RemoveD, PauseD DEF Room
    <3> QED BY <1>1, <3>1, <3>2
  <2> QED BY <1>1, <2>1, <2>2, <2>3 DEF DInv, AbortsEnd
<1> QED BY <1>2, <1>3 DEF User

LEMMA NotifyDs ==
    ASSUME TInv, TInv', Traces, QInv, CInv, Willing, DInv, Notify
    PROVE  DInv'
<1>1. PICK code : Taken(code)
  BY DEF Notify, OnItemRemoved, OnItemFinished, OnTorrentFound, OnScheduledEvent
<1>2. AbortsEnd'
  BY <1>1, TakenEntries, OldAlertsEnd DEF DInv, AbortsEnd
<1>3. ~OnTorrentFound
  BY FoundC
<1>4. listed' \subseteq listed /\ listed \subseteq Videos
  BY <1>3 DEF Notify, OnItemRemoved, ItemRemoved, Deleted, OnItemFinished, OnScheduledEvent, TInv
<1>5. PICK t : t = TopAlert.v
  OBVIOUS
<1>6. \A w \in listed : w # t => DOf(w)'
  BY <1>4, <1>5, TakenOthers, ApartD DEF DInv
<1>7. ASSUME t \in listed' PROVE DOf(t)'
  BY <1>3, <1>4, <1>5, <1>7, FinishedD, ItemRemovedD DEF Notify, DInv
<1> QED BY <1>2, <1>4, <1>6, <1>7 DEF DInv, AbortsEnd

(* Deletion.  What the steps keep of it while the stack is not full.         *)
LEMMA DInit == Init => DInv
BY DEF Init, DInv

LEMMA DStep ==
    /\ TInv /\ TInv' /\ Traces /\ QInv /\ CInv /\ Willing /\ DInv
    /\ Room' /\ [Next]_vars
    => DInv' /\ Willing'
<1> SUFFICES ASSUME TInv, TInv', Traces, QInv, CInv, Willing, DInv, Room',
                    [Next]_vars
             PROVE  DInv' /\ Willing'
  OBVIOUS
<1>1. world' = world => Willing'
  BY DEF Willing, Plain, Without, May
<1>2. ASSUME NEW v \in Videos, Body(v) PROVE DInv' /\ Willing'
  BY <1>1, <1>2, BodyDs, BodyIsSeen DEF BodySeen
<1>3. CASE /\ SamePairs /\ world' = world
           /\ \/ \E v \in Videos : User(v) \/ ProcessSchedule(v)
              \/ PauseAll \/ ResumeAll \/ Notify
              \/ \E h \in DOMAIN pairs : TransferStep(h)
              \/ UNCHANGED vars
  <2>1. listed \subseteq Videos
    BY DEF TInv
  <2>2. ASSUME NEW v \in Videos, ProcessSchedule(v) PROVE DInv'
    <3>1. listed' = listed
      BY <2>2 DEF ProcessSchedule
    <3>2. \A w \in listed : DOf(w)'
      BY <2>1, <2>2, ScheduleD, ScheduleOthers, ApartD DEF DInv
    <3> QED BY <2>2, <3>1, <3>2, ScheduleD DEF DInv
  <2>3. ASSUME NEW h \in DOMAIN pairs, TransferStep(h) PROVE DInv'
    <3>1. listed' = listed
      BY <2>3, TransferHow DEF Willing, Plain
    <3> QED BY <2>1, <2>3, <3>1, TransferD DEF DInv
  <2>4. ASSUME PauseAll \/ ResumeAll PROVE DInv'
    <3>1. listed' = listed /\ alerts' = alerts
      BY <2>4 DEF PauseAll, ResumeAll, ResumeThese
    <3>2. AbortsEnd'
      BY <3>1, OldAlertsEnd DEF DInv, AbortsEnd
    <3> QED BY <2>1, <2>4, <3>1, <3>2, PauseAllD, ResumeCallsD DEF DInv, AbortsEnd
  <2>5. ASSUME UNCHANGED vars PROVE DInv'
    <3>1. UNCHANGED <<listed, item, calls, alerts, retry, pairs, world>>
      BY <2>5 DEF vars
    <3>2. \A w \in listed : Apart(w)
      BY <3>1 DEF Apart, SamePairsOf, SameAlertsOf
    <3>3. \A w \in listed : DOf(w)'
      BY <2>1, <3>2, ApartD DEF DInv
    <3> QED BY <3>1, <3>3 DEF DInv
  <2> QED BY <1>1, <1>3, <2>2, <2>3, <2>4, <2>5, UserDs, NotifyDs
<1> QED BY <1>2, <1>3, OtherSteps

(* Between calls a deleted download waits for its clips.                     *)
LEMMA DeletedAtRest ==
    ASSUME TInv, CInv, DInv
    PROVE  AtRest => \A v \in listed : Is(v, "DELETED") =>
               /\ item[v].clips > 0
               /\ item[v].clips <= Cardinality({i \in AlertsFor(v) :
                       alerts[i].code = "REMOVED" \/ alerts[i].hr = "E_ABORT"})
<1> SUFFICES ASSUME AtRest, NEW v \in listed, Is(v, "DELETED")
             PROVE  item[v].clips > 0 /\ item[v].clips <= Cardinality(Leaving(v))
  BY DEF Leaving
<1>1. ~Erasing(v)
  BY NobodyCalls DEF AtRest
<1>2. DOf(v) /\ COf(v) /\ item[v].clips \in Int /\ item[v].cur \in Nat
  BY ListedIs DEF DInv
<1>3. item[v].clips <= Cardinality(Leaving(v))
  BY <1>1, <1>2 DEF DOf
<1>4. item[v].cur > 0
  BY <1>1, <1>2 DEF COf, Stops
<1> QED BY <1>2, <1>3, <1>4 DEF COf, Counts

(* A download marked for deletion is erased when its last clip is removed    *)
(* (FDownloadMgr.cpp:583-626, 1004-1018): between calls an alert that takes a*)
(* clip out is on its way for each clip counted in m_dwClipsActive, so that  *)
(* nothing deleted stays in the collection.  It is proved for a stack of     *)
(* alerts that is never full, as Push drops what does not fit                *)
(* (FAsyncHttpDownload.cpp:553), and for videos that are what they claim to  *)
(* be.                                                                       *)
THEOREM DeletedAreErased ==
    Spec /\ StreamsAreSingle /\ world.bittorrent = {} /\ [](Len(alerts) < MaxAlerts)
        => []DeletedIsErased
<1> DEFINE Safe  == StreamsAreSingle /\ Without({"add-again", "stale-start", "refuse", "overtake"})
           Meant == StreamsAreSingle /\ world.bittorrent = {}
<1>1. Safe /\ Meant => Willing /\ Plain /\ Orderly
  BY DEF Without, Willing, Plain, Orderly, May
<1>2. [Next]_vars /\ TInv /\ ~Safe => ~Safe'
  <2>1. TInv /\ [Next]_vars => world' = world
    BY BodyIsSeen, OtherSteps DEF BodySeen
  <2> QED BY <2>1 DEF Without, StreamsAreSingle
<1>3. ~Safe => DeletedIsErased
  BY DEF DeletedIsErased
<1>4. TInv /\ CInv /\ DInv => DeletedIsErased
  BY DeletedAtRest DEF DeletedIsErased
<1> HIDE DEF Safe, Meant
<1>5. Spec => []TInv
  BY TInit, TStep, PTL DEF Spec
<1>6. Spec => []Traces
  BY <1>5, TracesInit, TracesStep, PTL DEF Spec
<1>7. Spec /\ Orderly => []QInv
  BY <1>5, <1>6, QInit, QStep, PTL DEF Spec
<1>8. Spec /\ Orderly /\ Plain => []CInv
  BY <1>5, <1>6, <1>7, CInit, CStep, PTL DEF Spec
<1>9. Spec /\ Orderly /\ Plain /\ Willing /\ []Room => []DInv
  BY <1>5, <1>6, <1>7, <1>8, DInit, DStep, PTL DEF Spec
<1>10. Spec /\ ~Safe => []~Safe
  BY <1>2, <1>5, PTL DEF Spec
<1>11. Spec /\ Meant /\ []Room => []DeletedIsErased
  BY <1>1, <1>3, <1>4, <1>5, <1>8, <1>9, <1>10, PTL DEF Spec
<1> QED BY <1>11 DEF Meant, Room

-----------------------------------------------------------------------------
(* Why no download is forgotten, in the worlds of NothingForgotten.          *)
Mindful == Plain /\ OnlyListsAreLong /\ Without(Forgetful)

Needy(v) ==
    /\ ~Is(v, "FINISHED") /\ ~Is(v, "STOPPED") /\ ~IsStream(v)
    /\ item[v].cur > 0

(* Somebody works on the current clip, or the download is given up.          *)
Tended(v) ==
    \/ Moving(v)
    \/ item[v].cur \notin item[v].completed /\ Handed(v, item[v].cur)
    \/ item[v].cur \notin item[v].timed /\ item[v].handle[item[v].cur] = 0
    \/ item[v].missing # {}

(* The user can reach what is fetched through the handle of its clip, and    *)
(* the pairs are paused when the download is.                                *)
Linked(v) ==
    /\ \A h \in DOMAIN pairs : pairs[h].v = v =>
          /\ pairs[h].at = "http" => pairs[h].k \notin item[v].completed
          /\ pairs[h].at \in {"http", "torrent"} /\ pairs[h].k \notin item[v].completed =>
                item[v].handle[pairs[h].k] = h
    /\ \A k \in Clips(v) :
          item[v].handle[k] # 0 => (pairs[item[v].handle[k]].paused <=> Is(v, "PAUSED"))

(* A clip that failed: not the last one of a playlist, and the download is   *)
(* not paused before the failure is dealt with.                              *)
Broken(v, k) ==
    /\ ~Is(v, "PAUSED") /\ k \notin item[v].completed
    /\ v \in Playlists => k # ClipCount[v]

Reported(v) ==
    /\ retry[v] > 0 => ~Is(v, "PAUSED")
    /\ \A i \in DOMAIN alerts : alerts[i].v = v =>
          /\ alerts[i].code = "SCHEDULED" => ~Is(v, "PAUSED")
          /\ alerts[i].hr \in Failures => Broken(v, alerts[i].k)

Answering(v) ==
    /\ Doing("OnItemComplete", v) =>
          /\ Head(calls).hr # "E_ABORT"
          /\ Head(calls).hr = "E_FAIL" => item[v].handle[Head(calls).k] = 0
          /\ Head(calls).hr \in Failures \ {"E_FAIL"} => Broken(v, Head(calls).k)
    /\ Doing("QueueDownloadItem", v) \/ Doing("AddClip", v) =>
          Head(calls).k \in item[v].timed \/ Head(calls).k = item[v].cur

LOf(v) == (Needy(v) => Tended(v)) /\ Linked(v) /\ Reported(v) /\ Answering(v)

(* A pair never answers E_FAIL, and E_ABORT only for a clip taken out.       *)
Answered ==
    \A i \in DOMAIN alerts :
        /\ alerts[i].hr # "E_FAIL"
        /\ alerts[i].hr = "E_ABORT" => alerts[i].code = "REMOVED"
        /\ alerts[i].hr \in Failures => alerts[i].code = "FINISHED"

LInv == Answered /\ \A v \in listed : LOf(v)

(* Nothing is known of a download of which no clip was queued.               *)
LEMMA NotBegun ==
    ASSUME TInv, Traces, CInv, NEW v \in listed, item[v].cur = 0
    PROVE  LOf(v)
<1>1. /\ ~Traced(v) /\ v \in Videos
      /\ \A c \in Range(calls) : c.v = v => c.do \notin OfClip
  BY Unheard, ListedIs
<1>2. ~Needy(v)
  BY DEF Needy
<1>3. Linked(v)
  <2>1. \A h \in DOMAIN pairs : pairs[h].v # v
    BY <1>1 DEF Traced
  <2>2. \A k \in Clips(v) : item[v].handle[k] = 0
    BY <1>1, <2>1, SeqEntries DEF TInv, HandlesTyped
  <2> QED BY <2>1, <2>2 DEF Linked
<1>4. Reported(v)
  <2>1. \A i \in DOMAIN alerts : alerts[i] \in Range(alerts)
    BY SeqEntries DEF TInv
  <2>2. retry[v] \in Nat
    BY ListedIs
  <2> QED BY <1>1, <2>1, <2>2 DEF Reported, Traces
<1>5. Answering(v)
  <2>1. ASSUME NEW f \in OfClip, Doing(f, v) PROVE FALSE
    <3>1. Head(calls) \in Range(calls) /\ Head(calls).v = v /\ Head(calls).do = f
      BY <1>1, <2>1, DoingIs
    <3> QED BY <1>1, <3>1
  <2> QED BY <2>1 DEF Answering, OfClip
<1> QED BY <1>2, <1>3, <1>4, <1>5 DEF LOf

(* The same after a step.                                                    *)
BegunOnly == \A v \in listed : item[v].cur = 0 => LOf(v)

LEMMA NotBegunNext == TInv' /\ Traces' /\ CInv' => BegunOnly'
<1>1. TInv /\ Traces /\ CInv => BegunOnly
  BY NotBegun DEF BegunOnly
<1> QED BY <1>1, PTL

(* A step about another download.                                            *)
LEMMA ApartL ==
    ASSUME TInv, TInv', CInv, NEW w \in listed, Apart(w), LOf(w)
    PROVE  LOf(w)'
<1>1. /\ w \in Videos /\ item'[w] = item[w] /\ retry'[w] = retry[w]
      /\ SamePairsOf(w) /\ SameAlertsOf(w)
      /\ calls' = calls \/ Passed(w)
      /\ item[w].cur > 0 => item[w].cur \in Clips(w)
  BY ListedIs DEF Apart
<1>2. /\ calls' = calls \/ \A f : ~Doing(f, w)
      /\ Moving(w)' <=> Moving(w)
      /\ \A f \in {"QueueDownloadItem", "OnItemComplete"} : Doing(f, w)' => Doing(f, w)
  BY <1>1, ApartDoes
<1>3. /\ \A flag : Is(w, flag)' <=> Is(w, flag)
      /\ IsStream(w)' <=> IsStream(w)
  BY <1>1 DEF Is, IsStream
<1>4. \A k : Handed(w, k) => Handed(w, k)'
  <2>1. \A k, h : Fetched(w, k, h) => Fetched(w, k, h)'
    BY <1>1 DEF SamePairsOf, Fetched
  <2>2. \A k, i : Told(w, k, i) => Told(w, k, i)'
    BY <1>1 DEF SameAlertsOf, Told
  <2>3. \A k : Retried(w, k)' = Retried(w, k)
    BY <1>1 DEF Retried
  <2>4. \A k : Handled(w, k) => Handled(w, k)'
    <3>1. calls' # calls => \A k : ~Handled(w, k)
      BY <1>2 DEF Handled, Doing
    <3> QED BY <1>1, <3>1 DEF Handled
  <2> QED BY <2>1, <2>2, <2>3, <2>4 DEF Handed
<1>5. Needy(w)' => Tended(w)'
  BY <1>1, <1>2, <1>3, <1>4 DEF LOf, Needy, Tended
<1>6. Linked(w)'
  <2>1. ASSUME NEW k \in Clips(w), item[w].handle[k] # 0
        PROVE  pairs'[item[w].handle[k]].paused = pairs[item[w].handle[k]].paused
    <3>1. item[w].handle[k] \in DOMAIN pairs /\ pairs[item[w].handle[k]].v = w
      BY <1>1, <2>1, SeqEntries DEF TInv, HandlesTyped
    <3> QED BY <1>1, <3>1 DEF SamePairsOf
  <2> QED BY <1>1, <1>3, <2>1 DEF LOf, Linked, SamePairsOf
<1>7. Reported(w)'
  BY <1>1, <1>3 DEF LOf, Reported, Broken, SameAlertsOf
<1>8. Answering(w)'
  <2>1. CASE calls' = calls
    BY <1>1, <1>3, <2>1 DEF LOf, Answering, Broken, Doing
  <2>2. CASE calls' # calls
    <3>1. Passed(w) /\ \A f \in {"QueueDownloadItem", "OnItemComplete"} : ~Doing(f, w)'
      BY <1>1, <1>2, <2>2
    <3>2. Doing("AddClip", w)' => Head(calls').k \in item[w].timed
      BY <3>1 DEF Passed, Doing
    <3> QED BY <1>1, <3>1, <3>2 DEF Answering
  <2> QED BY <2>1, <2>2
<1> QED BY <1>5, <1>6, <1>7, <1>8 DEF LOf

(* What is left to do behind a call is about clips completed before.         *)
LEMMA Quiet ==
    ASSUME NEW v, item[v].timed \subseteq item'[v].timed,
           calls' # <<>> /\ Head(calls').v = v =>
              Rests(Head(calls')) \/ Head(calls').do \notin OfClip
    PROVE  Answering(v)'
BY DEF Answering, Doing, Rests, OfClip

LEMMA HandsOn ==
    ASSUME NEW v, retry'[v] = retry[v],
           \A h \in DOMAIN pairs : pairs[h].v = v =>
              /\ h \in DOMAIN pairs' /\ pairs'[h].v = v
              /\ pairs'[h].k = pairs[h].k /\ pairs'[h].at = pairs[h].at,
           \A i \in DOMAIN alerts : i \in DOMAIN alerts' /\ alerts'[i] = alerts[i]
    PROVE  \A k : Handed(v, k) => Handed(v, k)' \/ Handled(v, k)
<1>1. \A k, h : Fetched(v, k, h) => Fetched(v, k, h)'
  BY DEF Fetched
<1>2. \A k, i : Told(v, k, i) => Told(v, k, i)'
  BY DEF Told
<1>3. \A k : Retried(v, k)' = Retried(v, k)
  BY DEF Retried
<1> QED BY <1>1, <1>2, <1>3 DEF Handed

LEMMA LinkedStays ==
    ASSUME NEW v, pairs' = pairs, item'[v].completed = item[v].completed,
           item'[v].handle = item[v].handle, Is(v, "PAUSED")' <=> Is(v, "PAUSED"), Linked(v)
    PROVE  Linked(v)'
BY DEF Linked

LEMMA ReportedStays ==
    ASSUME NEW v, alerts' = alerts, retry'[v] = retry[v],
           item'[v].completed = item[v].completed,
           Is(v, "PAUSED")' => Is(v, "PAUSED"), Reported(v)
    PROVE  Reported(v)'
BY DEF Reported, Broken

LEMMA QueueDownloadL ==
    ASSUME TInv, TInv', Traces', CInv, CInv', NEW v \in listed, QueueDownload(v)
    PROVE  LOf(v)'
<1>1. v \in Videos /\ COf(v) /\ Asked(v)
  BY ListedIs DEF QueueDownload, Doing, Asked
<1>2. item'[v].cur = item[v].cur /\ listed' = listed
  BY <1>1, QueueDownloadDoes DEF Reflagged
<1>3. item'[v].cur = 0
  BY <1>1, <1>2 DEF COf, Waits
<1>4. v \in listed'
  BY <1>2
<1> QED BY <1>3, <1>4, NotBegunNext DEF BegunOnly

LEMMA CompleteL ==
    ASSUME TInv, QInv, CInv, NEW v \in listed, LOf(v), OnDownloadComplete(v)
    PROVE  LOf(v)'
<1>1. /\ v \in Videos /\ Doing("OnDownloadComplete", v)
      /\ UNCHANGED <<alerts, retry, pairs>>
      /\ Reflagged(v, (item[v].flags \ {"ACTIVE"}) \cup {"FINISHED"})
      /\ \/ Then(<<>>)
         \/ queue # <<>> /\ Then(<<Call("QueueDownload", Head(queue))>>)
  BY ListedIs, CompleteDoes DEF OnDownloadComplete
<1>2. /\ Is(v, "FINISHED")' /\ (Is(v, "PAUSED")' <=> Is(v, "PAUSED"))
      /\ item'[v].completed = item[v].completed /\ item'[v].timed = item[v].timed
      /\ item'[v].handle = item[v].handle
  BY <1>1 DEF Is, Reflagged
<1>3. calls' # <<>> /\ Head(calls').v = v =>
         Rests(Head(calls')) \/ Head(calls').do \notin OfClip
  <2>1. CASE Then(<<>>)
    BY <1>1, <2>1, LeftToDo
  <2>2. CASE queue # <<>> /\ Then(<<Call("QueueDownload", Head(queue))>>)
    <3> DEFINE c == Call("QueueDownload", Head(queue))
    <3>1. c \in CallSet /\ c.do = "QueueDownload"
      BY <2>2, HeadAndTail, CallsTyped, CallFields DEF TInv, OfVideo
    <3>2. Then(<<c>>)
      BY <2>2
    <3> HIDE DEF c
    <3> QED BY <1>1, <3>1, <3>2, DoingIs, ThenCall DEF OfClip
  <2> QED BY <1>1, <2>1, <2>2
<1>4. ~Needy(v)'
  BY <1>2 DEF Needy
<1>5. Answering(v)'
  BY <1>2, <1>3, Quiet
<1>6. Linked(v)' /\ Reported(v)'
  BY <1>1, <1>2, LinkedStays, ReportedStays DEF LOf
<1> QED BY <1>4, <1>5, <1>6 DEF LOf

LEMMA QueueNextL ==
    ASSUME TInv, QInv, CInv, NEW v \in listed, LOf(v), QueueNextDownloadItem(v)
    PROVE  LOf(v)'
<1>1. /\ v \in Videos /\ COf(v) /\ Doing("QueueNextDownloadItem", v)
      /\ UNCHANGED <<alerts, retry, pairs>>
      /\ item'[v].flags = item[v].flags /\ item'[v].type = item[v].type
      /\ item'[v].completed = item[v].completed /\ item'[v].timed = item[v].timed
      /\ item'[v].missing = item[v].missing /\ item'[v].handle = item[v].handle
      /\ item[v].cur \in Nat /\ ClipCount[v] \in Nat /\ item[v].completed \subseteq Clips(v)
      /\ Clips(v) \subseteq Nat
  BY ListedIs, QueueNextDoes DEF QueueNextDownloadItem
<1>2. /\ \A flag : Is(v, flag)' <=> Is(v, flag)
      /\ IsStream(v)' <=> IsStream(v)
  BY <1>1 DEF Is, IsStream
<1>3. Linked(v)' /\ Reported(v)'
  BY <1>1, <1>2, LinkedStays, ReportedStays DEF LOf
<1>4. CASE /\ ~(item[v].cur < ClipCount[v]) /\ item'[v] = item[v] /\ Then(<<>>)
  <2>1. Answering(v)'
    <3>1. calls' # <<>> /\ Head(calls').v = v => Rests(Head(calls'))
      BY <1>1, <1>4, LeftToDo
    <3> QED BY <1>1, <3>1, Quiet
  <2>2. ~Moving(v) /\ \A k : ~Handled(v, k)
    BY <1>1, <1>4 DEF Moving, Handled, Doing, OfClip
  <2>3. \A k : Handed(v, k) => Handed(v, k)'
    BY <1>1, <2>2, HandsOn
  <2>4. Needy(v)' => Tended(v)'
    BY <1>2, <1>4, <2>2, <2>3 DEF LOf, Needy, Tended
  <2> QED BY <1>3, <2>1, <2>4 DEF LOf
<1>5. ASSUME NEW n \in Clips(v), n = item[v].cur + 1, item'[v].cur = n,
             Then(<<CallClip("QueueDownloadItem", v, n)>>)
      PROVE  LOf(v)'
  <2> DEFINE c == CallClip("QueueDownloadItem", v, n)
  <2>1. c \in CallSet /\ c.v = v /\ c.k = n /\ c.do = "QueueDownloadItem"
    BY <1>1, <1>5, CallsTyped, CallFields DEF OfClip, CallClip
  <2>2. Then(<<c>>)
    BY <1>5
  <2> HIDE DEF c
  <2>3. calls' # <<>> /\ Head(calls') = c
    BY <1>1, <2>1, <2>2, DoingIs, ThenCall
  <2>4. n \notin item[v].completed
    BY <1>1, <1>5 DEF COf, Counts
  <2>5. Moving(v)'
    BY <1>1, <1>5, <2>1, <2>3, <2>4 DEF Moving, Doing
  <2>6. Answering(v)'
    BY <1>5, <2>1, <2>3 DEF Answering, Doing
  <2> QED BY <1>3, <2>5, <2>6 DEF LOf, Tended
<1> QED BY <1>1, <1>4, <1>5, QueueNextDoes

LEMMA QueueItemL ==
    ASSUME TInv, QInv, CInv, NEW v \in listed, LOf(v), QueueDownloadItem(v)
    PROVE  LOf(v)'
<1>1. /\ v \in Videos /\ COf(v) /\ Doing("QueueDownloadItem", v)
      /\ UNCHANGED <<item, alerts, retry, pairs>>
      /\ item[v].completed \subseteq item[v].timed
  BY ListedIs, QueueItemDoes DEF QueueDownloadItem, COf, Counts
<1>2. PICK k \in Clips(v) :
         /\ Head(calls).k = k
         /\ \/ /\ item[v].type[k] = "stream" \/ k \in item[v].missing
               /\ Then(<<Complete(v, k, "S_OK")>>)
            \/ /\ k \notin item[v].timed /\ Then(<<CallClip("AddClip", v, k)>>)
            \/ /\ k \in item[v].timed
               /\ Then(<<Complete(v, k, "S_OK"), CallClip("AddClip", v, k)>>)
  BY <1>1, QueueItemDoes
<1>3. k \in item[v].timed \/ k = item[v].cur
  BY <1>1, <1>2 DEF LOf, Answering
<1>4. /\ \A flag : Is(v, flag)' <=> Is(v, flag)
      /\ IsStream(v)' <=> IsStream(v)
  BY <1>1 DEF Is, IsStream
<1>5. Linked(v)' /\ Reported(v)'
  BY <1>1, <1>4, LinkedStays, ReportedStays DEF LOf
<1>6. /\ \A j : Handed(v, j) => Handed(v, j)' \/ j = k
      /\ Moving(v) => item[v].cur = k /\ k \notin item[v].completed
  <2>1. \A j : Handled(v, j) => j = k
    BY <1>2 DEF Handled
  <2>2. Moving(v) => item[v].cur = k /\ k \notin item[v].completed
    BY <1>1, <1>2 DEF Moving, Doing
  <2> QED BY <1>1, <2>1, <2>2, HandsOn
<1> DEFINE c == CallClip("AddClip", v, k)
           d == Complete(v, k, "S_OK")
<1>7. /\ c \in CallSet /\ d \in CallSet
      /\ c.v = v /\ c.k = k /\ c.do = "AddClip"
      /\ d.v = v /\ d.k = k /\ d.do = "OnItemComplete" /\ d.hr = "S_OK"
  BY <1>1, CallsTyped, CallFields DEF OfClip, CallClip, Complete, Answers
<1>8. \/ /\ item[v].type[k] = "stream" \/ k \in item[v].missing
         /\ Then(<<d>>)
      \/ k \notin item[v].timed /\ Then(<<c>>)
      \/ k \in item[v].timed /\ Then(<<d, c>>)
  BY <1>2
<1> HIDE DEF c, d
<1>9. /\ calls' # <<>>
      /\ \/ /\ item[v].type[k] = "stream" \/ k \in item[v].missing
            /\ Head(calls') = d
         \/ k \notin item[v].timed /\ Head(calls') = c
         \/ k \in item[v].timed /\ Head(calls') = d
  BY <1>1, <1>7, <1>8, DoingIs, ThenCall, ThenTwoCalls
<1>10. Answering(v)'
  BY <1>1, <1>3, <1>7, <1>9 DEF Answering, Doing, Failures
<1>11. ASSUME Needy(v)' PROVE Tended(v)'
  <2>1. Tended(v) /\ ~IsStream(v)
    BY <1>1, <1>4, <1>11 DEF LOf, Needy
  <2>2. item[v].type[k] # "stream"
    BY <1>1, <2>1 DEF COf, Counts
  <2>3. CASE k \in item[v].missing
    BY <1>1, <2>3 DEF Tended
  <2>4. CASE k \notin item[v].timed /\ Head(calls') = c
    BY <1>1, <1>3, <1>7, <1>9, <2>4 DEF Tended, Moving, Doing
  <2>5. CASE k \in item[v].timed /\ Head(calls') = d
    <3>1. CASE k \notin item[v].completed
      BY <1>1, <1>7, <1>9, <2>5, <3>1 DEF Tended, Moving, Doing
    <3>2. CASE k \in item[v].completed
      BY <1>1, <1>6, <2>1, <3>2 DEF Tended
    <3> QED BY <3>1, <3>2
  <2> QED BY <1>9, <2>2, <2>3, <2>4, <2>5
<1> QED BY <1>5, <1>10, <1>11 DEF LOf

LEMMA ResumeL ==
    ASSUME TInv, TInv', Traces', QInv, CInv, CInv', NEW v \in listed, LOf(v), ResumeStep(v)
    PROVE  LOf(v)'
<1>1. /\ v \in Videos /\ COf(v) /\ Doing("Resume", v)
      /\ UNCHANGED <<listed, alerts, retry>>
      /\ item'[v].cur = item[v].cur /\ item'[v].completed = item[v].completed
      /\ item'[v].timed = item[v].timed /\ item'[v].missing = item[v].missing
      /\ item'[v].type = item[v].type /\ item'[v].handle = item[v].handle
      /\ \/ /\ item' = item /\ pairs' = pairs /\ Then(<<>>)
         \/ /\ Restarted(v)
         \/ /\ pairs' = Switched(v, FALSE) /\ Then(<<>>)
            /\ item'[v].flags = item[v].flags \ {"PAUSED"}
  BY ListedIs, ResumeHow
<1>2. CASE Restarted(v)
  <2>1. ~Started(v) /\ Is(v, "PAUSED") /\ ~Asked(v) /\ ~Moving(v)
    BY <1>1, <1>2 DEF Restarted, Started, Asked, Moving, Doing
  <2>2. item'[v].cur = 0
    BY <1>1, <2>1 DEF COf, Idles, Started
  <2> QED BY <1>1, <2>2, NotBegunNext DEF BegunOnly
<1>3. CASE /\ Then(<<>>)
           /\ \/ item' = item /\ pairs' = pairs
              \/ pairs' = Switched(v, FALSE) /\ item'[v].flags = item[v].flags \ {"PAUSED"}
  <2>1. /\ DOMAIN pairs' = DOMAIN pairs
        /\ \A h \in DOMAIN pairs :
              /\ pairs'[h].v = pairs[h].v /\ pairs'[h].k = pairs[h].k
              /\ pairs'[h].at = pairs[h].at
    BY <1>1, <1>3, SwitchedOthers
  <2>2. calls' # <<>> /\ Head(calls').v = v => Rests(Head(calls'))
    BY <1>1, <1>3, LeftToDo
  <2>3. Answering(v)'
    BY <1>1, <2>2, Quiet
  <2>4. \A flag : flag # "PAUSED" => (Is(v, flag)' <=> Is(v, flag))
    BY <1>3 DEF Is
  <2>5. Is(v, "PAUSED")' => Is(v, "PAUSED")
    BY <1>3 DEF Is
  <2>6. Reported(v)'
    BY <1>1, <2>5, ReportedStays DEF LOf
  <2>7. Linked(v)'
    <3>1. ASSUME NEW k \in Clips(v), item[v].handle[k] # 0
          PROVE  pairs'[item[v].handle[k]].paused <=> Is(v, "PAUSED")'
      <4>1. item[v].handle[k] \in HandlesOf(v) /\ item[v].handle[k] \in DOMAIN pairs
        BY <1>1, <3>1, HandlesOwn DEF HandlesOf
      <4>2. CASE item' = item /\ pairs' = pairs
        BY <3>1, <4>2 DEF LOf, Linked, Is
      <4>3. CASE pairs' = Switched(v, FALSE) /\ item'[v].flags = item[v].flags \ {"PAUSED"}
        BY <1>1, <4>1, <4>3, SwitchedOthers DEF Is
      <4> QED BY <1>3, <4>2, <4>3
    <3> QED BY <1>1, <2>1, <3>1 DEF LOf, Linked
  <2>8. Needy(v)' => Tended(v)'
    <3>1. ~Moving(v) /\ \A k : ~Handled(v, k)
      BY <1>1 DEF Moving, Handled, Doing, OfClip
    <3>2. \A k : Handed(v, k) => Handed(v, k)'
      BY <1>1, <2>1, <3>1, HandsOn
    <3> QED BY <1>1, <2>4, <3>1, <3>2 DEF LOf, Needy, Tended, IsStream
  <2> QED BY <2>3, <2>6, <2>7, <2>8 DEF LOf
<1> QED BY <1>1, <1>2, <1>3

(* A clip that is handed to the clip downloader.                             *)
LEMMA AddClipL ==
    ASSUME TInv, TInv', QInv, CInv, Mindful, NEW v \in listed, LOf(v), AddClip(v)
    PROVE  LOf(v)'
<1>1. /\ v \in Videos /\ COf(v) /\ Doing("AddClip", v)
      /\ UNCHANGED <<alerts, retry>>
      /\ item'[v].cur = item[v].cur /\ item'[v].completed = item[v].completed
      /\ item'[v].timed = item[v].timed /\ item'[v].missing = item[v].missing
      /\ item'[v].type = item[v].type
      /\ item[v].completed \subseteq item[v].timed
      /\ ~May("moved") /\ ~May("crash")
  BY ListedIs, AddClipHow, AddClipDoes DEF COf, Counts, Mindful, Without, Forgetful, May
<1>2. PICK k \in Clips(v) :
         /\ Head(calls).k = k
         /\ \A j \in Clips(v) \ {k} : item'[v].handle[j] = item[v].handle[j]
         /\ \/ AddRefused(v, k)
            \/ \E p \in PairSet :
                  /\ p.v = v /\ p.k = k /\ (p.paused <=> Is(v, "PAUSED"))
                  /\ AddKnown(v, k, p) \/ AddStarted(v, k, p)
  BY <1>1, AddClipHow
<1>3. /\ k <= item[v].cur /\ item[v].cur \in Clips(v)
      /\ k \in item[v].timed => k \in item[v].completed
      /\ k \in item[v].timed \/ k = item[v].cur
      /\ ~IsStream(v)
  <2>1. k <= item[v].cur /\ item[v].cur > 0 /\ ~IsStream(v)
    BY <1>1, <1>2, AtClip DEF OfClip
  <2>2. k \in item[v].timed => k \in item[v].completed
    BY <1>1, <1>2, <2>1 DEF COf, First, Doing
  <2> QED BY <1>1, <1>2, <2>1, <2>2, ListedIs DEF LOf, Answering
<1>4. /\ \A j : Handled(v, j) => j = k /\ k \notin item[v].timed
      /\ k \notin item[v].timed => Handled(v, k) /\ \A h : ~Fetched(v, k, h)
      /\ Moving(v) => item[v].cur = k /\ k \notin item[v].timed
  <2>1. \A j : Handled(v, j) => j = k /\ k \notin item[v].timed
    BY <1>1, <1>2 DEF Handled, Doing
  <2>2. k \notin item[v].timed => Handled(v, k)
    BY <1>1, <1>2 DEF Handled, Doing, OfClip
  <2>3. k \notin item[v].timed => \A h : ~Fetched(v, k, h)
    BY <1>1, <2>2 DEF COf, Once, Lone
  <2>4. Moving(v) => item[v].cur = k /\ k \notin item[v].timed
    BY <1>1, <1>2 DEF Moving, Doing
  <2> QED BY <2>1, <2>2, <2>3, <2>4
<1>5. \A flag : flag \notin {"FINISHED", "QUEUED", "ACTIVE"} => (Is(v, flag)' <=> Is(v, flag))
  BY <1>2 DEF AddRefused, AddKnown, AddStarted, Is
<1>6. Reported(v)'
  BY <1>1, <1>5, ReportedStays DEF LOf
<1>7. IsStream(v)' <=> IsStream(v)
  BY <1>1 DEF IsStream
<1>9. CASE AddRefused(v, k)
  <2>1. pairs' = pairs /\ item'[v].handle[k] = 0 /\ item'[v].flags = item[v].flags
    BY <1>9 DEF AddRefused
  <2>2. calls' # <<>> /\ Head(calls') = Complete(v, k, "E_FAIL")
    <3> DEFINE c == Complete(v, k, "E_FAIL")
    <3>1. c \in CallSet
      BY <1>1, CallsTyped DEF Answers, Failures
    <3>2. Then(<<c>>)
      BY <1>9 DEF AddRefused
    <3> HIDE DEF c
    <3>3. calls' # <<>> /\ Head(calls') = c
      BY <1>1, <3>1, <3>2, DoingIs, ThenCall
    <3> QED BY <3>3 DEF c
  <2>3. Answering(v)'
    BY <2>1, <2>2 DEF Answering, Doing, Complete, Failures
  <2>4. Linked(v)'
    <3>1. \A h \in DOMAIN pairs : pairs[h].v = v =>
             /\ pairs[h].at = "http" => pairs[h].k \notin item[v].completed
             /\ pairs[h].at \in {"http", "torrent"} /\ pairs[h].k \notin item[v].completed =>
                   pairs[h].k # k /\ item[v].handle[pairs[h].k] = h
      BY <1>1, <1>3, <1>4 DEF LOf, Linked, Fetched
    <3>2. \A h \in DOMAIN pairs : pairs[h].v = v => pairs[h].k \in Clips(v)
      BY SeqEntries, ElementOfSeq DEF TInv, PairSet
    <3>3. \A h \in DOMAIN pairs : pairs[h].v = v =>
             (pairs[h].at \in {"http", "torrent"} /\ pairs[h].k \notin item[v].completed =>
                item'[v].handle[pairs[h].k] = h)
      BY <1>2, <3>1, <3>2
    <3>4. \A j \in Clips(v) : item'[v].handle[j] # 0 =>
             /\ item[v].handle[j] # 0 /\ item'[v].handle[j] = item[v].handle[j]
      BY <1>2, <2>1
    <3> QED BY <1>1, <1>5, <2>1, <3>1, <3>3, <3>4 DEF LOf, Linked
  <2>5. ASSUME Needy(v)' PROVE Tended(v)'
    <3>1. Tended(v)
      BY <1>1, <1>7, <2>1, <2>5 DEF LOf, Needy, Is
    <3>2. \A j : Handed(v, j) => Handed(v, j)' \/ Handled(v, j)
      BY <1>1, <2>1, HandsOn
    <3>3. item[v].handle[item[v].cur] = 0 => item'[v].handle[item[v].cur] = 0
      BY <1>2, <1>3, <2>1
    <3> QED BY <1>1, <1>4, <2>1, <3>1, <3>2, <3>3 DEF Tended
  <2> QED BY <1>6, <2>3, <2>4, <2>5 DEF LOf
<1>10. ASSUME NEW p \in PairSet, p.v = v, p.k = k, p.paused <=> Is(v, "PAUSED"),
              AddKnown(v, k, p) \/ AddStarted(v, k, p)
       PROVE  LOf(v)'
  <2> DEFINE g == Len(pairs) + 1
  <2>1. /\ pairs' = Append(pairs, p) /\ item'[v].handle[k] = g
        /\ p.at = "http" \/ (p.at = "torrent" /\ k \notin item[v].timed)
              => AddStarted(v, k, p) /\ k \notin item[v].timed
        /\ AddStarted(v, k, p) => p.at \in {"http", "torrent"} /\ k \notin item[v].timed
    BY <1>1, <1>10 DEF AddKnown, AddStarted
  <2>2. /\ g \notin DOMAIN pairs /\ DOMAIN pairs' = DOMAIN pairs \cup {g}
        /\ \A h \in DOMAIN pairs : pairs'[h] = pairs[h]
        /\ pairs'[g] = p /\ g # 0
    <3>1. g # 0
      BY SeqEntries DEF TInv
    <3> QED BY <2>1, <3>1, OnePair
  <2> HIDE DEF g
  <2>3. Answering(v)'
    <3>1. CASE AddKnown(v, k, p)
      <4> DEFINE c == Complete(v, k, "S_OK")
      <4>1. c \in CallSet /\ c.do = "OnItemComplete" /\ c.hr = "S_OK"
        BY <1>1, CallsTyped, CallFields DEF Answers
      <4>2. Then(<<c>>)
        BY <3>1 DEF AddKnown
      <4> HIDE DEF c
      <4>3. calls' # <<>> /\ Head(calls') = c
        BY <1>1, <4>1, <4>2, DoingIs, ThenCall
      <4> QED BY <4>1, <4>3 DEF Answering, Doing, Failures
    <3>2. CASE AddStarted(v, k, p)
      <4>1. calls' # <<>> /\ Head(calls').v = v => Rests(Head(calls'))
        BY <1>1, <3>2, LeftToDo DEF AddStarted
      <4> QED BY <1>1, <4>1, Quiet
    <3> QED BY <1>10, <3>1, <3>2
  <2>4. Linked(v)'
    <3>1. \A h \in DOMAIN pairs : pairs[h].v = v => pairs[h].k \in Clips(v)
      BY SeqEntries, ElementOfSeq DEF TInv, PairSet
    <3>2. \A h \in DOMAIN pairs : pairs[h].v = v =>
             /\ pairs[h].at = "http" => pairs[h].k \notin item[v].completed
             /\ pairs[h].at \in {"http", "torrent"} /\ pairs[h].k \notin item[v].completed =>
                   item'[v].handle[pairs[h].k] = h
      BY <1>1, <1>2, <1>3, <1>4, <3>1 DEF LOf, Linked, Fetched
    <3>3. /\ p.at = "http" => k \notin item[v].completed
          /\ p.at \in {"http", "torrent"} /\ k \notin item[v].completed =>
                item'[v].handle[k] = g
      BY <1>1, <1>3, <2>1
    <3>4. ASSUME NEW j \in Clips(v), item'[v].handle[j] # 0
          PROVE  pairs'[item'[v].handle[j]].paused <=> Is(v, "PAUSED")
      <4>1. CASE j = k
        BY <1>10, <2>1, <2>2, <4>1
      <4>2. CASE j # k
        <5>1. item'[v].handle[j] = item[v].handle[j] /\ item[v].handle[j] # 0
          BY <1>2, <3>4, <4>2
        <5>2. item[v].handle[j] \in DOMAIN pairs
          BY <1>1, <5>1, SeqEntries DEF TInv, HandlesTyped
        <5> QED BY <2>2, <5>1, <5>2 DEF LOf, Linked
      <4> QED BY <4>1, <4>2
    <3> QED BY <1>1, <1>5, <1>10, <2>2, <3>2, <3>3, <3>4 DEF Linked
  <2>5. ASSUME Needy(v)' PROVE Tended(v)'
    <3>1. CASE AddStarted(v, k, p)
      <4>1. p.at \in {"http", "torrent"} /\ k = item[v].cur /\ k \notin item[v].completed
        BY <1>1, <1>3, <2>1, <3>1
      <4>2. g \in DOMAIN pairs' /\ pairs'[g] = p
        BY <2>2
      <4>3. PICK n : n = g
        OBVIOUS
      <4>4. n \in DOMAIN pairs' /\ pairs'[n] = p
        BY <4>2, <4>3
      <4>5. Fetched(v, k, n)'
        BY <1>10, <4>1, <4>4 DEF Fetched
      <4> QED BY <1>1, <4>1, <4>5 DEF Tended, Handed
    <3>2. CASE AddKnown(v, k, p)
      <4>1. item'[v].flags = item[v].flags /\ k \in item[v].timed
        BY <3>2 DEF AddKnown
      <4>2. Tended(v)
        BY <1>1, <1>7, <2>5, <4>1 DEF LOf, Needy, Is
      <4>3. \A j : Handed(v, j) => Handed(v, j)' \/ Handled(v, j)
        BY <1>1, <2>2, HandsOn
      <4>4. item[v].cur \notin item[v].timed =>
               item'[v].handle[item[v].cur] = item[v].handle[item[v].cur]
        BY <1>2, <1>3, <4>1
      <4> QED BY <1>1, <1>4, <4>1, <4>2, <4>3, <4>4 DEF Tended
    <3> QED BY <1>10, <3>1, <3>2
  <2> QED BY <1>6, <2>3, <2>4, <2>5 DEF LOf
<1> QED BY <1>2, <1>9, <1>10

(* The answer about a clip.                                                  *)
LEMMA ItemCompleteL ==
    ASSUME TInv, TInv', Traces, QInv, CInv, Mindful, Answered, NEW v \in listed, LOf(v),
           OnItemComplete(v)
    PROVE  LOf(v)'
<1>1. /\ v \in Videos /\ COf(v) /\ Doing("OnItemComplete", v)
      /\ UNCHANGED <<alerts, pairs>>
      /\ item'[v].cur = item[v].cur /\ item'[v].type = item[v].type
      /\ item'[v].handle = item[v].handle
      /\ item[v].completed \subseteq item[v].timed
      /\ item[v].cur \in Clips(v) /\ retry[v] \in Nat
  <2>1. item[v].cur > 0
    BY ListedIs, AtItemComplete
  <2> QED BY <2>1, ListedIs, ItemCompleteHow DEF COf, Counts
<1>2. PICK k : k = Head(calls).k
  OBVIOUS
<1>3. PICK hr : hr = Head(calls).hr
  OBVIOUS
<1>4. /\ k \in Clips(v) /\ k <= item[v].cur /\ hr \in {"S_OK"} \cup Failures
      /\ Handled(v, k)
      /\ hr = "E_FAIL" => item[v].handle[k] = 0
      /\ hr \in Failures \ {"E_FAIL"} => Broken(v, k)
      /\ Moving(v) => hr = "S_OK" /\ k \notin item[v].completed
      /\ k \in item[v].timed => k \in item[v].completed \/ hr = "S_OK"
      /\ \A j : Handled(v, j) => j = k
  BY <1>1, <1>2, <1>3, AtItemComplete, ItemCompleteHow DEF LOf, Answering, Handled, Answers
<1>5. IsStream(v)' <=> IsStream(v)
  BY <1>1 DEF IsStream
<1>6. \/ /\ hr = "S_OK" /\ k \in item[v].completed
         /\ item'[v].flags = item[v].flags /\ item'[v].missing = item[v].missing
         /\ item'[v].timed = item[v].timed /\ item'[v].completed = item[v].completed
         /\ retry' = retry /\ Then(<<>>)
      \/ /\ hr = "S_OK" /\ k \notin item[v].completed
         /\ item'[v].flags = item[v].flags /\ item'[v].missing = item[v].missing
         /\ item'[v].timed = item[v].timed \cup {k}
         /\ item'[v].completed = item[v].completed \cup {k}
         /\ retry' = retry /\ Then(Onward(v))
      \/ /\ hr # "S_OK" /\ Is(v, "STOPPED") /\ item' = item /\ retry' = retry /\ Then(<<>>)
      \/ /\ hr # "S_OK" /\ ~Is(v, "STOPPED") /\ v \in Playlists
         /\ item' = item /\ retry' = retry /\ Then(<<Call("QueueNextDownloadItem", v)>>)
      \/ /\ hr # "S_OK" /\ ~Is(v, "STOPPED") /\ v \notin Playlists
         /\ item'[v].flags = item[v].flags \cup {"ERR_NETWORK"}
         /\ item'[v].timed = item[v].timed /\ item'[v].completed = item[v].completed
         /\ item'[v].missing = IF hr = "E_HTTP_NOTFOUND" THEN item[v].missing \cup {k}
                               ELSE item[v].missing
         /\ Then(<<>>)
         /\ retry'[v] = IF hr = "E_HTTP_NET_ERROR" THEN retry[v] + 1 ELSE retry[v]
  <2>1. k \in item[v].completed =>
           item[v].timed \cup {k} = item[v].timed /\ item[v].completed \cup {k} = item[v].completed
    BY <1>1
  <2>2. CASE hr = "S_OK"
    <3>1. /\ item'[v].flags = item[v].flags /\ item'[v].missing = item[v].missing
          /\ item'[v].timed = item[v].timed \cup {k}
          /\ item'[v].completed = item[v].completed \cup {k}
          /\ Then(IF k \in item[v].completed THEN <<>> ELSE Onward(v))
          /\ retry' = retry
      BY <1>1, <1>2, <1>3, <2>2, ItemCompleteHow
    <3> QED BY <2>1, <2>2, <3>1
  <2>3. CASE hr # "S_OK"
    BY <1>1, <1>2, <1>3, <2>3, ItemCompleteHow
  <2> QED BY <2>2, <2>3
<1>7. Then(<<>>) => (calls' # <<>> /\ Head(calls').v = v => Rests(Head(calls')))
  BY <1>1, LeftToDo
<1>8. ASSUME item'[v].completed = item[v].completed, item'[v].timed = item[v].timed,
             item[v].missing \subseteq item'[v].missing, retry'[v] >= retry[v],
             Then(<<>>) \/ Then(<<Call("QueueNextDownloadItem", v)>>),
             item'[v].flags \in {item[v].flags, item[v].flags \cup {"ERR_NETWORK"}},
             retry'[v] > 0 => retry[v] > 0 \/ ~Is(v, "PAUSED"),
             Needy(v) /\ Tended(v) => item[v].cur # k \/ k \in item[v].completed \/ Tended(v)'
      PROVE  LOf(v)'
  <2>1. \A flag : flag # "ERR_NETWORK" => (Is(v, flag)' <=> Is(v, flag))
    BY <1>8 DEF Is
  <2>2. Linked(v)'
    BY <1>1, <1>8, <2>1, LinkedStays DEF LOf
  <2>3. Reported(v)'
    BY <1>1, <1>8, <2>1 DEF LOf, Reported, Broken
  <2>4. Answering(v)'
    <3>1. CASE Then(<<>>)
      BY <1>7, <1>8, <3>1, Quiet
    <3>2. CASE Then(<<Call("QueueNextDownloadItem", v)>>)
      <4> DEFINE c == Call("QueueNextDownloadItem", v)
      <4>1. c \in CallSet /\ c.do = "QueueNextDownloadItem"
        BY <1>1, CallsTyped, CallFields DEF OfVideo
      <4>2. Then(<<c>>)
        BY <3>2
      <4> HIDE DEF c
      <4>3. calls' # <<>> /\ Head(calls') = c
        BY <1>1, <4>1, <4>2, DoingIs, ThenCall
      <4> QED BY <1>8, <4>1, <4>3, Quiet DEF OfClip
    <3> QED BY <1>8, <3>1, <3>2
  <2>5. Needy(v)' => Needy(v)
    BY <1>1, <1>5, <2>1 DEF Needy
  <2>6. \A j : Handed(v, j) /\ j # k => Handed(v, j)'
    <3>1. \A j, h : Fetched(v, j, h) => Fetched(v, j, h)'
      BY <1>1 DEF Fetched
    <3>2. \A j, i : Told(v, j, i) => Told(v, j, i)'
      BY <1>1 DEF Told
    <3>3. \A j : Retried(v, j) > 0 => Retried(v, j)' > 0
      <4>1. retry'[v] \in Nat
        BY <1>1 DEF TInv
      <4> QED BY <1>1, <1>8, <4>1 DEF Retried
    <3> QED BY <1>4, <3>1, <3>2, <3>3 DEF Handed
  <2>7. Needy(v) => Tended(v)'
    <3> SUFFICES ASSUME Needy(v), ~Tended(v)' PROVE FALSE
      OBVIOUS
    <3>1. Tended(v) /\ (item[v].cur # k \/ k \in item[v].completed)
      BY <1>8 DEF LOf
    <3>2. ~Moving(v)
      <4>1. Moving(v) => hr = "S_OK" /\ k \notin item[v].completed
        BY <1>4
      <4>2. hr = "S_OK" =>
              \/ item'[v].completed = item[v].completed \cup {k}
              \/ k \in item[v].completed
        BY <1>6
      <4> QED BY <1>8, <4>1, <4>2
    <3> QED BY <1>1, <1>8, <2>6, <3>1, <3>2 DEF Tended
  <2> QED BY <2>2, <2>3, <2>4, <2>5, <2>7 DEF LOf
<1>9. CASE /\ hr = "S_OK" /\ k \in item[v].completed
           /\ item'[v].flags = item[v].flags /\ item'[v].missing = item[v].missing
           /\ item'[v].timed = item[v].timed /\ item'[v].completed = item[v].completed
           /\ retry' = retry /\ Then(<<>>)
  BY <1>1, <1>8, <1>9
<1>10. CASE /\ hr = "S_OK" /\ k \notin item[v].completed
            /\ item'[v].flags = item[v].flags /\ item'[v].missing = item[v].missing
            /\ item'[v].timed = item[v].timed \cup {k}
            /\ item'[v].completed = item[v].completed \cup {k}
            /\ retry' = retry /\ Then(Onward(v))
  <2>1. \A flag : Is(v, flag)' <=> Is(v, flag)
    BY <1>10 DEF Is
  <2>2. /\ \A h : ~Fetched(v, k, h)
        /\ \A i : ~Told(v, k, i)
    BY <1>1, <1>4, <1>10 DEF COf, Once, Lone
  <2>3. Linked(v)'
    <3>1. \A h \in DOMAIN pairs : pairs[h].v = v /\ pairs[h].at \in {"http", "torrent"} =>
             pairs[h].k # k
      BY <2>2 DEF Fetched
    <3> QED BY <1>1, <1>10, <2>1, <3>1 DEF LOf, Linked
  <2>4. Reported(v)'
    <3>1. \A i \in DOMAIN alerts : alerts[i].v = v /\ alerts[i].hr \in Failures =>
             alerts[i].k # k
      BY <2>2 DEF Told, Answered
    <3> QED BY <1>1, <1>10, <2>1, <3>1 DEF LOf, Reported, Broken
  <2>5. PICK c \in CallSet :
           /\ Then(<<c>>) /\ c.v = v
           /\ \/ c.do = "QueueNextDownloadItem" /\ item[v].cur < ClipCount[v]
              \/ c.do = "OnDownloadComplete"
    BY <1>1, <1>10, CallsTyped, CallFields DEF Onward, OfVideo
  <2>6. calls' # <<>> /\ Head(calls') = c
    BY <1>1, <2>5, DoingIs, ThenCall
  <2>7. Answering(v)'
    BY <1>10, <2>5, <2>6, Quiet DEF OfClip
  <2>8. Moving(v)'
    BY <1>1, <2>5, <2>6 DEF Moving, Doing
  <2> QED BY <2>3, <2>4, <2>7, <2>8 DEF LOf, Tended
<1>11. CASE /\ hr # "S_OK" /\ Is(v, "STOPPED") /\ item' = item /\ retry' = retry /\ Then(<<>>)
  BY <1>1, <1>8, <1>11 DEF Needy
<1>12. ASSUME hr = "E_FAIL", k = item[v].cur, k \notin item[v].completed,
              item'[v].timed = item[v].timed
       PROVE  Tended(v)'
  BY <1>1, <1>4, <1>12 DEF Tended
<1>13. CASE /\ hr # "S_OK" /\ ~Is(v, "STOPPED") /\ v \in Playlists
            /\ item' = item /\ retry' = retry /\ Then(<<Call("QueueNextDownloadItem", v)>>)
  <2>1. ASSUME k = item[v].cur, k \notin item[v].completed PROVE Tended(v)'
    <3>1. CASE hr = "E_FAIL"
      BY <1>12, <1>13, <2>1, <3>1
    <3>2. CASE hr # "E_FAIL"
      <4>1. hr \in Failures
        BY <1>4, <1>13
      <4>2. k # ClipCount[v]
        BY <1>4, <1>13, <3>2, <4>1 DEF Broken
      <4>3. item[v].cur < ClipCount[v]
        BY <1>4, <2>1, <4>2, ListedIs
      <4> DEFINE c == Call("QueueNextDownloadItem", v)
      <4>4. c \in CallSet /\ c.do = "QueueNextDownloadItem" /\ c.v = v
        BY <1>1, CallsTyped, CallFields DEF OfVideo
      <4>5. Then(<<c>>)
        BY <1>13
      <4> HIDE DEF c
      <4>6. calls' # <<>> /\ Head(calls') = c
        BY <1>1, <4>4, <4>5, DoingIs, ThenCall
      <4> QED BY <1>1, <4>3, <4>4, <4>6 DEF Tended, Moving, Doing
    <3> QED BY <3>1, <3>2
  <2> QED BY <1>1, <1>8, <1>13, <2>1
<1>14. CASE /\ hr # "S_OK" /\ ~Is(v, "STOPPED") /\ v \notin Playlists
            /\ item'[v].flags = item[v].flags \cup {"ERR_NETWORK"}
            /\ item'[v].timed = item[v].timed /\ item'[v].completed = item[v].completed
            /\ item'[v].missing = IF hr = "E_HTTP_NOTFOUND" THEN item[v].missing \cup {k}
                                  ELSE item[v].missing
            /\ Then(<<>>)
            /\ retry'[v] = IF hr = "E_HTTP_NET_ERROR" THEN retry[v] + 1 ELSE retry[v]
  <2>1. ClipCount[v] = 1 /\ k = 1
    BY <1>4, <1>14, ListedIs DEF Mindful, OnlyListsAreLong, Clips
  <2>2. retry'[v] >= retry[v] /\ (retry'[v] > 0 => retry[v] > 0 \/ ~Is(v, "PAUSED"))
    BY <1>1, <1>4, <1>14 DEF Broken, Failures
  <2>3. ASSUME k = item[v].cur, k \notin item[v].completed PROVE Tended(v)'
    <3>1. CASE hr = "E_FAIL"
      BY <1>12, <1>14, <2>3, <3>1
    <3>2. CASE hr = "E_HTTP_NOTFOUND"
      BY <1>14, <3>2 DEF Tended
    <3>3. CASE hr = "E_HTTP_NET_ERROR"
      <4>1. Retried(v, k)' > 0
        BY <1>1, <1>14, <2>1, <3>3 DEF Retried
      <4> QED BY <1>1, <1>14, <2>3, <4>1 DEF Tended, Handed
    <3>4. hr \in {"E_FAIL", "E_HTTP_NOTFOUND", "E_HTTP_NET_ERROR"}
      BY <1>4, <1>14 DEF Failures
    <3> QED BY <3>1, <3>2, <3>3, <3>4
  <2> QED BY <1>1, <1>8, <1>14, <2>2, <2>3
<1> QED BY <1>6, <1>9, <1>10, <1>11, <1>13, <1>14

(* The calls of the user.                                                    *)
LEMMA AddL ==
    ASSUME TInv, TInv', Traces', CInv', NEW v \in Videos, AddDownload(v)
    PROVE  LOf(v)'
<1>1. v \in listed' /\ item'[v].cur = 0
  BY AddDoes
<1> QED BY <1>1, NotBegunNext DEF BegunOnly

LEMMA StartL ==
    ASSUME TInv, TInv', Traces', CInv, CInv', Mindful, NEW v \in listed,
           StartQueuedDownload(v)
    PROVE  LOf(v)'
<1>1. /\ v \in Videos /\ COf(v) /\ listed' = listed
      /\ Is(v, "QUEUED") \/ IsStream(v)
      /\ Is(v, "QUEUED") => item'[v].cur = item[v].cur
      /\ ~Is(v, "QUEUED") /\ IsStream(v) => item'[v].cur = 0
  BY ListedIs, StartDoes DEF Mindful, Plain, Without, May
<1>2. item'[v].cur = 0
  BY <1>1 DEF COf, Waits
<1> QED BY <1>1, <1>2, NotBegunNext DEF BegunOnly

(* Between calls, the clips and what is on its way stay as they are.         *)
LEMMA RestingL ==
    ASSUME NEW v \in listed, LOf(v), calls = <<>>, UNCHANGED <<alerts, retry>>,
           DOMAIN pairs' = DOMAIN pairs,
           \A h \in DOMAIN pairs :
              /\ pairs'[h].v = pairs[h].v /\ pairs'[h].k = pairs[h].k
              /\ pairs'[h].at = pairs[h].at,
           item'[v].cur = item[v].cur, item'[v].completed = item[v].completed,
           item'[v].timed = item[v].timed, item'[v].missing = item[v].missing,
           item'[v].type = item[v].type, item'[v].handle = item[v].handle,
           \A flag \in {"FINISHED", "STOPPED"} : Is(v, flag)' <=> Is(v, flag)
    PROVE  Needy(v)' => Tended(v)'
<1> SUFFICES ASSUME Needy(v)' PROVE Tended(v)'
  OBVIOUS
<1>1. IsStream(v)' <=> IsStream(v)
  BY DEF IsStream
<1>2. Tended(v)
  BY <1>1 DEF LOf, Needy
<1>3. ~Moving(v) /\ \A k : ~Handled(v, k)
  BY DEF Moving, Handled, Doing
<1>4. \A k : Handed(v, k) => Handed(v, k)'
  BY <1>3, HandsOn
<1> QED BY <1>2, <1>3, <1>4 DEF Tended

LEMMA PausedL ==
    ASSUME TInv, CInv, Mindful, NEW v \in listed, LOf(v), calls = <<>>, calls' = <<>>,
           UNCHANGED <<alerts, retry>>, DOMAIN pairs' = DOMAIN pairs,
           \A h \in DOMAIN pairs :
              /\ pairs'[h].v = pairs[h].v /\ pairs'[h].k = pairs[h].k
              /\ pairs'[h].at = pairs[h].at,
           item'[v].cur = item[v].cur, item'[v].completed = item[v].completed,
           item'[v].timed = item[v].timed, item'[v].missing = item[v].missing,
           item'[v].type = item[v].type, item'[v].handle = item[v].handle,
           item'[v].flags = item[v].flags \cup {"PAUSED"},
           \A h \in HandlesOf(v) : pairs'[h].paused, MayPause(v)
    PROVE  LOf(v)'
<1>1. /\ \A flag \in {"FINISHED", "STOPPED"} : Is(v, flag)' <=> Is(v, flag)
      /\ Is(v, "PAUSED")'
  BY DEF Is
<1>2. Answering(v)'
  BY Quiet
<1>3. Linked(v)'
  <2>1. \A k \in Clips(v) : item[v].handle[k] # 0 => item[v].handle[k] \in HandlesOf(v)
    BY DEF HandlesOf
  <2> QED BY <1>1, <2>1 DEF LOf, Linked
<1>4. Reported(v)'
  <2>1. ~Failed(v) /\ retry[v] \in Nat
    BY ListedIs DEF MayPause, Mindful, Without, May, Forgetful
  <2> QED BY <2>1 DEF Reported, Failed, AlertsFor
<1> QED BY <1>1, <1>2, <1>3, <1>4, RestingL DEF LOf

LEMMA PauseL ==
    ASSUME TInv, CInv, Mindful, NEW v \in listed, LOf(v), PauseDownload(v)
    PROVE  LOf(v)'
<1>1. v \in Videos /\ item[v] \in ItemsOf(v) /\ item = [w \in Videos |-> item[w]]
  BY ListedIs DEF TInv, ItemsTyped
<1>2. /\ calls = <<>> /\ calls' = <<>> /\ UNCHANGED <<alerts, retry>> /\ MayPause(v)
      /\ Pause(v)
  BY <1>1, PauseHow DEF PauseDownload
<1>3. CASE UNCHANGED <<item, pairs>>
  <2>1. Answering(v)'
    BY <1>2, <1>3, Quiet
  <2>2. \A flag : Is(v, flag)' <=> Is(v, flag)
    BY <1>3 DEF Is
  <2>3. Linked(v)' /\ Reported(v)'
    BY <1>2, <1>3, <2>2, LinkedStays, ReportedStays DEF LOf
  <2> QED BY <1>2, <1>3, <2>1, <2>2, <2>3, RestingL DEF LOf
<1>4. CASE /\ item' = [item EXCEPT ![v].flags = @ \cup {"PAUSED"}, ![v].error = FALSE]
           /\ pairs' = Switched(v, TRUE)
  <2>1. /\ item'[v].cur = item[v].cur /\ item'[v].completed = item[v].completed
        /\ item'[v].timed = item[v].timed /\ item'[v].missing = item[v].missing
        /\ item'[v].type = item[v].type /\ item'[v].handle = item[v].handle
        /\ item'[v].flags = item[v].flags \cup {"PAUSED"}
    BY <1>1, <1>4 DEF ItemsOf
  <2>2. /\ SamePairs /\ DOMAIN pairs' = DOMAIN pairs
        /\ \A h \in DOMAIN pairs : pairs'[h].at = pairs[h].at
        /\ \A h \in DOMAIN pairs : h \in HandlesOf(v) => pairs'[h].paused = TRUE
    <3>1. PICK H : H = HandlesOf(v)
      OBVIOUS
    <3>2. pairs' = [h \in DOMAIN pairs |->
                       IF h \in H THEN [pairs[h] EXCEPT !.paused = TRUE] ELSE pairs[h]]
      BY <1>4, <3>1 DEF Switched
    <3>3. /\ DOMAIN pairs' = DOMAIN pairs
          /\ \A h \in DOMAIN pairs :
                pairs'[h].at = pairs[h].at /\ (h \in H => pairs'[h].paused = TRUE)
      BY <3>2, PairsStay
    <3> QED BY <1>1, <1>2, <3>1, <3>3, PauseHow
  <2>3. \A h \in DOMAIN pairs : pairs'[h].v = pairs[h].v /\ pairs'[h].k = pairs[h].k
    BY <2>2, SeqEntries DEF SamePairs, TInv
  <2>4. \A h \in HandlesOf(v) : pairs'[h].paused
    BY <1>1, <2>2, HandlesOwn
  <2> QED BY <1>2, <2>1, <2>2, <2>3, <2>4, PausedL
<1> QED BY <1>2, <1>3, <1>4 DEF Pause

LEMMA PauseAllL ==
    ASSUME TInv, CInv, Mindful, NEW v \in listed, LOf(v), PauseAll
    PROVE  LOf(v)'
<1> DEFINE these == {w \in listed : ~Is(w, "QUEUED")}
           H == UNION {HandlesOf(w) : w \in these}
<1>1. /\ v \in Videos /\ item[v] \in ItemsOf(v) /\ MayPause(v)
      /\ these \subseteq listed
  BY ListedIs DEF PauseAll
<1>2. /\ calls = <<>> /\ calls' = <<>> /\ UNCHANGED <<alerts, retry>> /\ SamePairs
  BY PauseAllDoes
<1>3. item' = [w \in Videos |->
                IF w \in these
                THEN [item[w] EXCEPT !.flags = @ \cup {"PAUSED"}, !.error = FALSE] ELSE item[w]]
  BY DEF PauseAll
<1>4. pairs' = [h \in DOMAIN pairs |->
                IF h \in H THEN [pairs[h] EXCEPT !.paused = TRUE] ELSE pairs[h]]
  BY DEF PauseAll
<1>5. /\ v \in these => HandlesOf(v) \subseteq H
      /\ \A h \in H : \E w \in these : h \in HandlesOf(w)
  OBVIOUS
<1> HIDE DEF these, H
<1>6. /\ DOMAIN pairs' = DOMAIN pairs
      /\ \A h \in DOMAIN pairs :
            /\ pairs'[h].at = pairs[h].at
            /\ h \notin H => pairs'[h] = pairs[h]
            /\ h \in H => pairs'[h].paused = TRUE
  BY <1>4, PairsStay
<1>7. \A h \in DOMAIN pairs : pairs'[h].v = pairs[h].v /\ pairs'[h].k = pairs[h].k
  BY <1>2, SeqEntries DEF SamePairs, TInv
<1>8. CASE v \in these
  <2>1. item'[v] = [item[v] EXCEPT !.flags = @ \cup {"PAUSED"}, !.error = FALSE]
    BY <1>1, <1>3, <1>8
  <2>2. /\ item'[v].cur = item[v].cur /\ item'[v].completed = item[v].completed
        /\ item'[v].timed = item[v].timed /\ item'[v].missing = item[v].missing
        /\ item'[v].type = item[v].type /\ item'[v].handle = item[v].handle
        /\ item'[v].flags = item[v].flags \cup {"PAUSED"}
    BY <1>1, <2>1 DEF ItemsOf
  <2>3. \A h \in HandlesOf(v) : pairs'[h].paused
    BY <1>1, <1>5, <1>6, <1>8, HandlesOwn
  <2> QED BY <1>1, <1>2, <1>6, <1>7, <2>2, <2>3, PausedL
<1>9. CASE v \notin these
  <2>1. item'[v] = item[v]
    BY <1>1, <1>3, <1>9
  <2>2. Answering(v)'
    BY <1>2, <2>1, Quiet
  <2>3. \A flag : Is(v, flag)' <=> Is(v, flag)
    BY <2>1 DEF Is
  <2>4. Reported(v)'
    BY <1>2, <2>1, <2>3, ReportedStays DEF LOf
  <2>5. Linked(v)'
    <3>1. \A h \in DOMAIN pairs : pairs[h].v = v => h \notin H
      <4>1. ASSUME NEW h \in H, pairs[h].v = v PROVE FALSE
        <5>1. PICK w \in these : h \in HandlesOf(w)
          BY <1>5, <4>1
        <5>2. w \in Videos
          BY <1>1, <5>1 DEF TInv
        <5>3. pairs[h].v = w
          BY <5>1, <5>2, HandlesOwn
        <5> QED BY <1>9, <4>1, <5>1, <5>3
      <4> QED BY <4>1
    <3>2. ASSUME NEW k \in Clips(v), item[v].handle[k] # 0
          PROVE  pairs'[item[v].handle[k]].paused = pairs[item[v].handle[k]].paused
      <4>1. item[v].handle[k] \in HandlesOf(v)
        BY <3>2 DEF HandlesOf
      <4>2. item[v].handle[k] \in DOMAIN pairs /\ pairs[item[v].handle[k]].v = v
        BY <1>1, <4>1, HandlesOwn
      <4> QED BY <1>6, <3>1, <4>2
    <3> QED BY <1>6, <1>7, <2>1, <2>3, <3>2 DEF LOf, Linked
  <2> QED BY <1>2, <1>6, <1>7, <2>1, <2>2, <2>3, <2>4, <2>5, RestingL DEF LOf
<1> QED BY <1>8, <1>9

LEMMA ResumeCallsL ==
    ASSUME TInv, CInv, NEW v \in listed, LOf(v),
           ResumeAll \/ \E w \in Videos : ResumeDownload(w)
    PROVE  LOf(v)'
<1>1. /\ UNCHANGED <<item, alerts, retry, pairs>> /\ calls = <<>>
      /\ \A c \in Range(calls') : c.do = "Resume"
      /\ calls' # <<>> => Head(calls') \in Range(calls')
  BY ResumeCallsDo
<1>2. Answering(v)'
  BY <1>1, Quiet DEF Rests
<1>3. \A flag : Is(v, flag)' <=> Is(v, flag)
  BY <1>1 DEF Is
<1>4. Linked(v)' /\ Reported(v)'
  BY <1>1, <1>3, LinkedStays, ReportedStays DEF LOf
<1> QED BY <1>1, <1>2, <1>3, <1>4, RestingL DEF LOf

(* RemoveDownload tells that the clips are out.                              *)
LEMMA RemovalsSay ==
    ASSUME TInv, NEW v \in Videos, alerts' = Push(alerts, RemovalAlerts(v))
    PROVE  \A i \in DOMAIN alerts' :
              i \in DOMAIN alerts \/ (alerts'[i].code = "REMOVED" /\ alerts'[i].hr = "E_ABORT")
<1> DEFINE R == RemovalAlerts(v)
<1>1. R \in Seq(AlertSet) /\ alerts \in Seq(AlertSet) /\ Len(alerts) <= MaxAlerts
  BY RemovalsTyped DEF TInv
<1>2. \A a \in Range(R) : a.code = "REMOVED" /\ a.hr = "E_ABORT"
  <2>1. \A i \in DOMAIN R : R[i].code = "REMOVED" /\ R[i].hr = "E_ABORT"
    BY DEF RemovalAlerts
  <2>2. \A a \in Range(R) : \E i \in DOMAIN R : a = R[i]
    BY DEF Range
  <2> QED BY <2>1, <2>2
<1>3. \A i \in DOMAIN alerts' : i \in DOMAIN alerts \/ alerts'[i] \in Range(R)
  BY <1>1, PushedEntries
<1> QED BY <1>2, <1>3

(* The user deletes a download: nobody waits for it any more.                *)
LEMMA RemoveL ==
    ASSUME TInv, TInv', QInv, CInv, Mindful, NEW v \in listed, LOf(v), RemoveDownload(v)
    PROVE  LOf(v)'
<1>1. /\ v \in Videos /\ calls = <<>> /\ UNCHANGED retry /\ SamePairs
      /\ Reflagged(v, item[v].flags \cup {"DELETED", "STOPPED"})
      /\ \A i \in DOMAIN alerts : i \in DOMAIN alerts' /\ alerts'[i] = alerts[i]
      /\ \A c \in Range(calls') :
            (c.do = "EraseDownload" /\ c.v = v) \/ (c.do = "QueueDownload" /\ c.v # v)
      /\ calls' # <<>> => Head(calls') \in Range(calls')
  BY ListedIs, RemoveHow
<1>2. /\ Is(v, "STOPPED")' /\ (Is(v, "PAUSED")' <=> Is(v, "PAUSED"))
      /\ item'[v].completed = item[v].completed /\ item'[v].timed = item[v].timed
      /\ item'[v].handle = item[v].handle
  BY <1>1 DEF Reflagged, Is
<1>3. ~Needy(v)'
  BY <1>2 DEF Needy
<1>4. Answering(v)'
  BY <1>1, <1>2, Quiet DEF OfClip
<1>5. Linked(v)'
  <2>1. PICK hs : pairs' = [h \in DOMAIN pairs |->
                   IF h \in hs THEN [pairs[h] EXCEPT !.at = "gone"] ELSE pairs[h]]
    BY DEF RemoveDownload, Removed
  <2>2. \A h \in DOMAIN pairs : pairs[h] \in PairSet
    BY SeqEntries, ElementOfSeq DEF TInv
  <2>3. /\ DOMAIN pairs' = DOMAIN pairs
        /\ \A h \in DOMAIN pairs :
              /\ pairs'[h].v = pairs[h].v /\ pairs'[h].k = pairs[h].k
              /\ pairs'[h].paused = pairs[h].paused
              /\ pairs'[h].at \in {pairs[h].at, "gone"}
    BY <2>1, <2>2 DEF PairSet
  <2>4. \A k \in Clips(v) : item[v].handle[k] # 0 => item[v].handle[k] \in DOMAIN pairs
    BY <1>1, SeqEntries DEF TInv, HandlesTyped
  <2> QED BY <1>2, <2>3, <2>4 DEF LOf, Linked
<1>6. Reported(v)'
  <2>1. alerts' = Push(alerts, RemovalAlerts(v))
    BY DEF RemoveDownload
  <2>2. \A i \in DOMAIN alerts' :
           i \in DOMAIN alerts \/ (alerts'[i].code = "REMOVED" /\ alerts'[i].hr = "E_ABORT")
    BY <1>1, <2>1, RemovalsSay
  <2> QED BY <1>1, <1>2, <2>2 DEF LOf, Reported, Broken, Failures
<1> QED BY <1>3, <1>4, <1>5, <1>6 DEF LOf

(* The alert thread.                                                         *)
LEMMA TakenL ==
    ASSUME TInv, NEW v, Reported(v), retry'[v] = retry[v], NEW code, Taken(code),
           item'[v].completed = item[v].completed, Is(v, "PAUSED")' => Is(v, "PAUSED")
    PROVE  Reported(v)'
<1>1. \A i \in DOMAIN alerts' : i \in DOMAIN alerts /\ alerts'[i] = alerts[i]
  BY TakenEntries
<1> QED BY <1>1 DEF Reported, Broken

(* An alert was taken that tells nothing, or of a clip that is handled now.  *)
LEMMA LeftL ==
    ASSUME TInv, NEW v \in listed, LOf(v), NEW code, Taken(code), NEW j, TopAlert.k = j,
           UNCHANGED <<retry, pairs>>,
           item'[v].cur = item[v].cur, item'[v].completed = item[v].completed,
           item'[v].timed = item[v].timed, item'[v].missing = item[v].missing,
           item'[v].type = item[v].type, item'[v].handle = item[v].handle,
           item'[v].flags = item[v].flags,
           TopAlert.v = v /\ TopAlert.code \in {"FINISHED", "SCHEDULED"} =>
              Is(v, "STOPPED") \/ Handled(v, j)'
    PROVE  (Needy(v)' => Tended(v)') /\ Linked(v)' /\ Reported(v)'
<1>1. /\ \A flag : Is(v, flag)' <=> Is(v, flag)
      /\ IsStream(v)' <=> IsStream(v)
  BY DEF Is, IsStream
<1>2. Linked(v)' /\ Reported(v)'
  BY <1>1, TakenL, LinkedStays DEF LOf
<1>3. ASSUME Needy(v)' PROVE Tended(v)'
  <2>1. Tended(v) /\ ~Is(v, "STOPPED")
    BY <1>1, <1>3 DEF LOf, Needy
  <2>2. calls = <<>>
    BY TakenIs
  <2>3. /\ TopAlert = alerts[Len(alerts)]
        /\ \A i \in DOMAIN alerts : i # Len(alerts) =>
              i \in DOMAIN alerts' /\ alerts'[i] = alerts[i]
    BY TakenEntries
  <2>4. ~Moving(v) /\ \A k : ~Handled(v, k)
    BY <2>2 DEF Moving, Handled, Doing
  <2>5. ASSUME NEW k, Handed(v, k) PROVE Handed(v, k)'
    <3>1. CASE \E h : Fetched(v, k, h)
      BY <3>1 DEF Handed, Fetched
    <3>2. CASE Retried(v, k) > 0
      BY <3>2 DEF Handed, Retried
    <3>3. CASE \E i : Told(v, k, i)
      <4>1. PICK i : Told(v, k, i)
        BY <3>3
      <4>2. CASE i # Len(alerts)
        <5>1. Told(v, k, i)'
          BY <2>3, <4>1, <4>2 DEF Told
        <5> QED BY <5>1 DEF Handed
      <4>3. CASE i = Len(alerts)
        <5>1. Handled(v, k)'
          BY <2>1, <2>3, <4>1, <4>3 DEF Told
        <5> QED BY <5>1 DEF Handed
      <4> QED BY <4>2, <4>3
    <3> QED BY <2>4, <2>5, <3>1, <3>2, <3>3 DEF Handed
  <2> QED BY <2>1, <2>4, <2>5 DEF Tended
<1> QED BY <1>2, <1>3

LEMMA ItemRemovedL ==
    ASSUME TInv, TInv', CInv, Answered, NEW v \in listed, LOf(v), TopAlert.v = v, OnItemRemoved,
           v \in listed'
    PROVE  LOf(v)'
<1>1. PICK code : Taken(code)
  BY DEF OnItemRemoved
<1>2. /\ TopAlert.code = "REMOVED" \/ TopAlert.hr = "E_ABORT"
      /\ UNCHANGED <<calls, retry, pairs>> /\ ItemRemoved(v)
  BY DEF OnItemRemoved, Taken
<1>3. /\ calls = <<>> /\ item[v] \in ItemsOf(v) /\ item = [w \in Videos |-> item[w]]
      /\ v \in Videos
  BY <1>1, TakenIs, ListedIs DEF TInv, ItemsTyped
<1>4. Len(alerts) \in DOMAIN alerts /\ TopAlert = alerts[Len(alerts)]
  BY <1>1, TakenEntries
<1>5. item' = [item EXCEPT ![v].clips = @ - 1]
  BY <1>2, <1>3 DEF ItemRemoved, Deleted
<1>6. /\ item'[v].cur = item[v].cur /\ item'[v].completed = item[v].completed
      /\ item'[v].timed = item[v].timed /\ item'[v].missing = item[v].missing
      /\ item'[v].type = item[v].type /\ item'[v].handle = item[v].handle
      /\ item'[v].flags = item[v].flags
  BY <1>3, <1>5 DEF ItemsOf
<1>7. TopAlert.code = "REMOVED"
  BY <1>2, <1>4 DEF Answered
<1>8. Answering(v)'
  BY <1>2, <1>3, <1>6, Quiet
<1> QED BY <1>1, <1>2, <1>6, <1>7, <1>8, LeftL DEF LOf

LEMMA FinishedL ==
    ASSUME TInv, TInv', CInv, Answered, NEW v \in listed, LOf(v), TopAlert.v = v, OnItemFinished
    PROVE  LOf(v)'
<1>1. /\ Taken("FINISHED") /\ TopAlert.hr # "E_ABORT" /\ UNCHANGED <<item, retry, pairs>>
      /\ calls' = IF Known(v) THEN <<Complete(v, TopAlert.k, TopAlert.hr)>> ELSE <<>>
  BY DEF OnItemFinished
<1>2. PICK k \in Clips(v), hr \in Answers :
         TopAlert.k = k /\ TopAlert.hr = hr /\ TopAlert.code = "FINISHED"
  BY <1>1, TakenIs
<1>3. v \in Videos /\ COf(v) /\ retry[v] \in Nat
  BY ListedIs
<1>4. CASE ~Known(v)
  <2>1. Is(v, "STOPPED")
    BY <1>3, <1>4 DEF Known, COf, Stops, Is
  <2>2. calls' = <<>>
    BY <1>1, <1>4
  <2>3. Answering(v)'
    BY <1>1, <2>2, Quiet
  <2> QED BY <1>1, <2>1, <2>3, LeftL DEF LOf
<1>5. CASE Known(v)
  <2> DEFINE c == Complete(v, k, hr)
  <2>1. c \in CallSet /\ c.v = v /\ c.k = k /\ c.do = "OnItemComplete" /\ c.hr = hr
    BY <1>2, <1>3, CallsTyped DEF Complete
  <2>2. calls' = <<c>>
    BY <1>1, <1>2, <1>5
  <2> HIDE DEF c
  <2>3. calls' # <<>> /\ Head(calls') = c
    BY <2>1, <2>2, OneEntry
  <2>4. Handled(v, k)'
    BY <2>1, <2>3 DEF Handled, OfClip
  <2>5. /\ hr # "E_ABORT" /\ hr # "E_FAIL"
        /\ hr \in Failures => Broken(v, k)
    <3>1. Len(alerts) \in DOMAIN alerts /\ TopAlert = alerts[Len(alerts)]
      BY <1>1, TakenEntries
    <3> QED BY <1>1, <1>2, <3>1 DEF Answered, LOf, Reported
  <2>6. Broken(v, k)' <=> Broken(v, k)
    BY <1>1 DEF Broken, Is
  <2>7. Answering(v)'
    BY <2>1, <2>3, <2>5, <2>6 DEF Answering, Doing
  <2> QED BY <1>1, <1>2, <2>4, <2>7, LeftL DEF LOf
<1> QED BY <1>4, <1>5

(* A retry is about the only clip of its video.                              *)
LEMMA ScheduledL ==
    ASSUME TInv, TInv', Traces, CInv, Mindful, NEW v \in listed, LOf(v), TopAlert.v = v,
           OnScheduledEvent
    PROVE  LOf(v)'
<1>1. /\ Taken("SCHEDULED") /\ UNCHANGED <<item, retry, pairs>>
      /\ calls' = IF ~Is(v, "PAUSED") THEN <<CallClip("QueueDownloadItem", v, 1)>> ELSE <<>>
  BY DEF OnScheduledEvent
<1>2. v \in Videos /\ COf(v) /\ 1 \in Clips(v)
  BY ListedIs
<1>3. /\ Len(alerts) \in DOMAIN alerts /\ TopAlert = alerts[Len(alerts)]
      /\ TopAlert.code = "SCHEDULED" /\ Traced(v)
  BY <1>1, TakenEntries, TakenIs DEF Traces
<1>4. ~Is(v, "PAUSED")
  BY <1>3 DEF LOf, Reported
<1>5. TopAlert.k = 1 /\ v \notin Playlists
  BY <1>3 DEF CInv, Messages
<1>6. item[v].cur = 1
  <2>1. ClipCount[v] = 1
    BY <1>2, <1>5, ListedIs DEF Mindful, OnlyListsAreLong
  <2>2. item[v].cur > 0
    BY <1>2, <1>3 DEF COf, Engaged
  <2> QED BY <2>1, <2>2, ListedIs
<1> DEFINE c == CallClip("QueueDownloadItem", v, 1)
<1>7. c \in CallSet /\ c.v = v /\ c.k = 1 /\ c.do = "QueueDownloadItem"
  BY <1>2, CallsTyped DEF OfClip, CallClip
<1>8. calls' = <<c>>
  BY <1>1, <1>4
<1> HIDE DEF c
<1>9. calls' # <<>> /\ Head(calls') = c
  BY <1>7, <1>8, OneEntry
<1>10. Handled(v, 1)'
  BY <1>7, <1>9 DEF Handled, OfClip
<1>11. Answering(v)'
  BY <1>1, <1>6, <1>7, <1>9 DEF Answering, Doing
<1> QED BY <1>1, <1>5, <1>10, <1>11, LeftL DEF LOf

(* Somebody tells about a clip.                                              *)
LEMMA ScheduleL ==
    ASSUME TInv, TInv', CInv, Mindful, Len(alerts) < MaxAlerts, NEW v \in listed, LOf(v),
           ProcessSchedule(v)
    PROVE  LOf(v)'
<1> DEFINE a == [code |-> "SCHEDULED", v |-> v, k |-> 1, hr |-> "S_OK"]
<1>1. a \in AlertSet /\ a.v = v /\ a.k = 1 /\ a.code = "SCHEDULED" /\ a.hr = "S_OK"
      /\ alerts' = Push(alerts, <<a>>)
  BY ListedIs DEF ProcessSchedule, AlertSet, Codes, Answers
<1> HIDE DEF a
<1>2. /\ UNCHANGED <<item, calls, pairs>> /\ retry[v] > 0 /\ retry[v] \in Nat /\ COf(v)
      /\ retry'[v] \in Nat
  BY ScheduleDoes, ListedIs DEF TInv
<1>3. PICK n : n = Len(alerts) + 1
  OBVIOUS
<1>4. /\ \A i \in DOMAIN alerts : i \in DOMAIN alerts' /\ alerts'[i] = alerts[i]
      /\ \A i \in DOMAIN alerts' : i \in DOMAIN alerts \/ (i = n /\ alerts'[i] = a)
      /\ n \in DOMAIN alerts' /\ alerts'[n] = a
  BY <1>1, <1>3, OnePushed
<1>5. ~Is(v, "PAUSED")
  BY <1>2 DEF LOf, Reported
<1>6. /\ \A flag : Is(v, flag)' <=> Is(v, flag)
      /\ IsStream(v)' <=> IsStream(v)
      /\ \A f : Doing(f, v)' <=> Doing(f, v)
      /\ Moving(v)' <=> Moving(v)
      /\ \A k : Broken(v, k)' <=> Broken(v, k)
      /\ \A k : Handled(v, k)' <=> Handled(v, k)
  BY <1>2 DEF Is, IsStream, Doing, Moving, Broken, Handled
<1>7. Linked(v)' /\ Answering(v)'
  BY <1>2, <1>6 DEF LOf, Linked, Answering, Doing
<1>8. Reported(v)'
  BY <1>1, <1>4, <1>5, <1>6 DEF LOf, Reported, Failures
<1>9. \A k : Handed(v, k) => Handed(v, k)'
  <2> SUFFICES ASSUME NEW k, Handed(v, k) PROVE Handed(v, k)'
    OBVIOUS
  <2>1. CASE \E h : Fetched(v, k, h)
    BY <1>2, <2>1 DEF Handed, Fetched
  <2>2. CASE \E i : Told(v, k, i)
    BY <1>4, <2>2 DEF Handed, Told
  <2>3. CASE Handled(v, k)
    BY <1>6, <2>3 DEF Handed
  <2>4. CASE Retried(v, k) > 0
    <3>1. k = 1
      BY <1>2, <2>4 DEF Retried
    <3>2. Told(v, k, n)'
      BY <1>1, <1>4, <3>1 DEF Told
    <3> QED BY <3>2 DEF Handed
  <2> QED BY <2>1, <2>2, <2>3, <2>4 DEF Handed
<1>10. Needy(v)' => Tended(v)'
  BY <1>2, <1>6, <1>9 DEF LOf, Needy, Tended
<1> QED BY <1>7, <1>8, <1>10 DEF LOf

(* The clip downloader.                                                      *)
LEMMA TransferL ==
    ASSUME TInv, TInv', CInv, Mindful, Len(alerts) < MaxAlerts, NEW h \in DOMAIN pairs,
           TransferStep(h), NEW v \in listed, pairs[h].v = v, LOf(v)
    PROVE  LOf(v)'
<1>1. /\ UNCHANGED <<item, calls, retry>>
      /\ DOMAIN pairs' = DOMAIN pairs /\ \A g \in DOMAIN pairs : g # h => pairs'[g] = pairs[g]
      /\ pairs'[h].v = v /\ pairs'[h].k = pairs[h].k /\ pairs'[h].paused = pairs[h].paused
  BY TransferHow DEF Mindful, Plain
<1>2. PICK k \in Clips(v) : pairs[h].k = k
  BY SeqEntries, ElementOfSeq DEF TInv, PairSet
<1>3. PICK n : n = Len(alerts) + 1
  OBVIOUS
<1>4. \/ pairs[h].at = "http" /\ pairs'[h].at = "torrent" /\ alerts' = alerts
      \/ \E a \in AlertSet :
            /\ a.v = v /\ a.k = k
            /\ \A i \in DOMAIN alerts : i \in DOMAIN alerts' /\ alerts'[i] = alerts[i]
            /\ \A i \in DOMAIN alerts' : i \in DOMAIN alerts \/ (i = n /\ alerts'[i] = a)
            /\ n \in DOMAIN alerts' /\ alerts'[n] = a
            /\ \/ /\ pairs'[h].at \in {"idle", "seeding"} /\ a.code = "FINISHED"
                  /\ a.hr \in Failures =>
                        /\ pairs[h].at = "http" /\ ~pairs[h].paused
                        /\ v \in Playlists => k # ClipCount[v]
               \/ /\ pairs[h].at = "seeding" /\ pairs'[h].at = "idle"
                  /\ a.code = "REMOVED" /\ a.hr = "S_OK"
  <2>1. ~May("last-fails")
    BY DEF Mindful, Without, May, Forgetful
  <2>2. ASSUME NEW a \in AlertSet, alerts' = Push(alerts, <<a>>)
        PROVE  /\ \A i \in DOMAIN alerts : i \in DOMAIN alerts' /\ alerts'[i] = alerts[i]
               /\ \A i \in DOMAIN alerts' : i \in DOMAIN alerts \/ (i = n /\ alerts'[i] = a)
               /\ n \in DOMAIN alerts' /\ alerts'[n] = a
    BY <1>3, <2>2, OnePushed
  <2> QED BY <1>2, <2>1, <2>2, TransferHow DEF Mindful, Plain
<1>5. /\ \A flag : Is(v, flag)' <=> Is(v, flag)
      /\ IsStream(v)' <=> IsStream(v)
      /\ \A f : Doing(f, v)' <=> Doing(f, v)
      /\ Moving(v)' <=> Moving(v)
      /\ \A j : Broken(v, j)' <=> Broken(v, j)
      /\ \A j : Handled(v, j)' <=> Handled(v, j)
  BY <1>1 DEF Is, IsStream, Doing, Moving, Broken, Handled
<1>6. Answering(v)'
  BY <1>1, <1>5 DEF LOf, Answering, Doing
<1>7. Linked(v)'
  <2>1. ASSUME NEW g \in DOMAIN pairs
        PROVE  /\ pairs'[g].v = pairs[g].v /\ pairs'[g].k = pairs[g].k
               /\ pairs'[g].paused = pairs[g].paused
               /\ \/ pairs'[g].at = pairs[g].at
                  \/ pairs'[g].at = "torrent" /\ pairs[g].at = "http"
                  \/ pairs'[g].at \in {"idle", "seeding"}
    BY <1>1, <1>4
  <2>2. \A j \in Clips(v) : item[v].handle[j] # 0 => item[v].handle[j] \in DOMAIN pairs
    <3>1. v \in Videos
      BY ListedIs
    <3> QED BY <3>1, SeqEntries DEF TInv, HandlesTyped
  <2>3. ASSUME NEW g \in DOMAIN pairs, pairs'[g].v = v
        PROVE  /\ pairs'[g].at = "http" => pairs'[g].k \notin item[v].completed
               /\ pairs'[g].at \in {"http", "torrent"} /\ pairs'[g].k \notin item[v].completed =>
                     item[v].handle[pairs'[g].k] = g
    BY <2>1, <2>3 DEF LOf, Linked
  <2> QED BY <1>1, <1>5, <2>1, <2>2, <2>3 DEF LOf, Linked
<1>8. Reported(v)'
  <2>1. CASE alerts' = alerts
    BY <1>1, <1>5, <2>1 DEF LOf, Reported
  <2>2. ASSUME NEW a \in AlertSet,
               \A i \in DOMAIN alerts' :
                  \/ i \in DOMAIN alerts /\ alerts'[i] = alerts[i]
                  \/ alerts'[i] = a,
               a.code # "SCHEDULED", a.hr \in Failures => Broken(v, a.k)
        PROVE  Reported(v)'
    <3>1. ASSUME NEW i \in DOMAIN alerts', alerts'[i].v = v
          PROVE  /\ alerts'[i].code = "SCHEDULED" => ~Is(v, "PAUSED")
                 /\ alerts'[i].hr \in Failures => Broken(v, alerts'[i].k)
      <4>1. CASE alerts'[i] = a
        BY <2>2, <4>1
      <4>2. CASE i \in DOMAIN alerts /\ alerts'[i] = alerts[i]
        BY <3>1, <4>2 DEF LOf, Reported
      <4>3. alerts'[i] = a \/ (i \in DOMAIN alerts /\ alerts'[i] = alerts[i])
        BY <2>2, <3>1
      <4> QED BY <4>1, <4>2, <4>3
    <3>2. Is(v, "PAUSED")' <=> Is(v, "PAUSED")
      BY <1>1 DEF Is
    <3>3. retry'[v] > 0 => ~Is(v, "PAUSED")
      BY <1>1 DEF LOf, Reported
    <3>4. \A i \in DOMAIN alerts' : alerts'[i].v = v =>
             /\ alerts'[i].code = "SCHEDULED" => ~Is(v, "PAUSED")'
             /\ alerts'[i].hr \in Failures =>
                   /\ ~Is(v, "PAUSED")' /\ alerts'[i].k \notin item'[v].completed
                   /\ v \in Playlists => alerts'[i].k # ClipCount[v]
      BY <1>1, <3>1, <3>2 DEF Broken
    <3> QED BY <3>2, <3>3, <3>4 DEF Reported, Broken
  <2>3. pairs[h].at = "http" /\ ~pairs[h].paused /\ (v \in Playlists => k # ClipCount[v])
           => Broken(v, k)
    <3>1. h # 0
      BY SeqEntries DEF TInv
    <3> QED BY <1>2, <3>1 DEF LOf, Linked, Broken
  <2> QED BY <1>4, <2>1, <2>2, <2>3 DEF Failures
<1>9. \A j : Handed(v, j) => Handed(v, j)'
  <2>1. \A j, i : Told(v, j, i) => Told(v, j, i)'
    BY <1>4 DEF Told
  <2>2. ASSUME NEW j, NEW g, Fetched(v, j, g) PROVE Handed(v, j)'
    <3>1. CASE g # h
      <4>1. Fetched(v, j, g)'
        BY <1>1, <2>2, <3>1 DEF Fetched
      <4> QED BY <4>1 DEF Handed
    <3>2. CASE g = h
      <4>1. j = k /\ pairs[h].at \in {"http", "torrent"}
        BY <1>2, <2>2, <3>2 DEF Fetched
      <4>2. CASE pairs'[h].at = "torrent"
        <5>1. Fetched(v, j, h)'
          BY <1>1, <1>2, <4>1, <4>2 DEF Fetched
        <5> QED BY <5>1 DEF Handed
      <4>3. CASE pairs'[h].at \in {"idle", "seeding"}
        <5>1. Told(v, j, n)'
          BY <1>4, <4>1, <4>3 DEF Told
        <5> QED BY <5>1 DEF Handed
      <4> QED BY <1>4, <4>2, <4>3
    <3> QED BY <3>1, <3>2
  <2>3. \A j : Retried(v, j)' = Retried(v, j)
    BY <1>1 DEF Retried
  <2> QED BY <1>5, <2>1, <2>2, <2>3 DEF Handed
<1>10. Needy(v)' => Tended(v)'
  BY <1>1, <1>5, <1>9 DEF LOf, Needy, Tended
<1> QED BY <1>6, <1>7, <1>8, <1>10 DEF LOf

(* What is on the stack.                                                     *)
LEMMA AnsweredStays ==
    ASSUME Answered,
           \A i \in DOMAIN alerts' :
              \/ i \in DOMAIN alerts /\ alerts'[i] = alerts[i]
              \/ /\ alerts'[i].hr # "E_FAIL"
                 /\ alerts'[i].hr = "E_ABORT" => alerts'[i].code = "REMOVED"
                 /\ alerts'[i].hr \in Failures => alerts'[i].code = "FINISHED"
    PROVE  Answered'
BY DEF Answered

LEMMA BodyL ==
    ASSUME TInv, TInv', Traces, Traces', QInv, CInv, CInv', Mindful, LInv, NEW v \in Videos,
           Body(v)
    PROVE  LInv'
<1>1. alerts' = alerts
  BY BodyIsSeen DEF BodySeen
<1>2. Answered'
  BY <1>1, AnsweredStays DEF LInv
<1>3. listed' \subseteq listed /\ (EraseDownload(v) => v \notin listed') /\ listed \subseteq Videos
  BY DEF TInv, Body, QueueDownload, QueueNextDownloadItem, QueueDownloadItem, AddClip,
     OnItemComplete, OnDownloadComplete, EraseDownload, Deleted, CountTorrentFound, ResumeStep
<1>4. \A w \in listed : w # v => LOf(w)'
  BY <1>3, BodyOthers, ApartL DEF LInv
<1>5. v \in listed' => LOf(v)'
  <2> SUFFICES ASSUME v \in listed' PROVE LOf(v)'
    OBVIOUS
  <2>1. v \in listed /\ LOf(v) /\ Answered /\ ~EraseDownload(v) /\ ~CountTorrentFound(v)
    BY <1>3, CountC DEF LInv
  <2> QED BY <2>1, QueueDownloadL, CompleteL, ResumeL, ItemCompleteL, QueueNextL, QueueItemL,
             AddClipL DEF Body
<1> QED BY <1>2, <1>3, <1>4, <1>5 DEF LInv

LEMMA UserL ==
    ASSUME TInv, TInv', Traces, Traces', QInv, CInv, CInv', Mindful, LInv, NEW v \in Videos,
           User(v)
    PROVE  LInv'
<1>1. /\ listed' \subseteq listed \cup {v} /\ listed \subseteq Videos
      /\ listed' = listed \/ AddDownload(v)
  BY DEF TInv, User, AddDownload, StartQueuedDownload, RemoveDownload, PauseDownload,
     ResumeDownload, ResumeThese
<1>2. CASE ResumeDownload(v)
  <2>1. alerts' = alerts /\ listed' = listed
    BY <1>2 DEF ResumeDownload, ResumeThese
  <2>2. Answered'
    BY <2>1, AnsweredStays DEF LInv
  <2> QED BY <1>1, <1>2, <2>1, <2>2, ResumeCallsL DEF LInv
<1>3. CASE AddDownload(v) \/ StartQueuedDownload(v) \/ RemoveDownload(v) \/ PauseDownload(v)
  <2>1. Answered'
    <3>1. CASE RemoveDownload(v)
      <4>1. alerts' = Push(alerts, RemovalAlerts(v))
        BY <3>1 DEF RemoveDownload
      <4>2. \A i \in DOMAIN alerts : i \in DOMAIN alerts' /\ alerts'[i] = alerts[i]
        BY <3>1, RemoveHow
      <4>3. \A i \in DOMAIN alerts' :
               i \in DOMAIN alerts \/ (alerts'[i].code = "REMOVED" /\ alerts'[i].hr = "E_ABORT")
        BY <4>1, RemovalsSay
      <4> QED BY <4>2, <4>3, AnsweredStays DEF LInv, Failures
    <3>2. CASE AddDownload(v) \/ StartQueuedDownload(v) \/ PauseDownload(v)
      <4>1. alerts' = alerts
        BY <3>2 DEF AddDownload, StartQueuedDownload, PauseDownload
      <4> QED BY <4>1, AnsweredStays DEF LInv
    <3> QED BY <1>3, <3>1, <3>2
  <2>2. \A w \in listed : w # v => LOf(w)'
    BY <1>1, <1>3, UserOthers, ApartL DEF LInv
  <2>3. v \in listed' => LOf(v)'
    <3>1. CASE AddDownload(v)
      BY <3>1, AddL
    <3>2. CASE v \in listed
      <4>1. LOf(v)
        BY <3>2 DEF LInv
      <4> QED BY <1>3, <3>1, <3>2, <4>1, StartL, RemoveL, PauseL
    <3> QED BY <1>1, <3>1, <3>2
  <2> QED BY <1>1, <2>1, <2>2, <2>3 DEF LInv
<1> QED BY <1>2, <1>3 DEF User

LEMMA NotifyL ==
    ASSUME TInv, TInv', Traces, CInv, Mindful, LInv, Notify
    PROVE  LInv'
<1>1. PICK code : Taken(code)
  BY DEF Notify, OnItemRemoved, OnItemFinished, OnTorrentFound, OnScheduledEvent
<1>2. Answered'
  BY <1>1, TakenEntries, AnsweredStays DEF LInv
<1>3. ~OnTorrentFound
  BY FoundC
<1>4. listed' \subseteq listed /\ listed \subseteq Videos
  BY <1>3 DEF Notify, OnItemRemoved, ItemRemoved, Deleted, OnItemFinished, OnScheduledEvent, TInv
<1>5. PICK t : t = TopAlert.v
  OBVIOUS
<1>6. \A w \in listed : w # t => LOf(w)'
  BY <1>4, <1>5, TakenOthers, ApartL DEF LInv
<1>7. ASSUME t \in listed' PROVE LOf(t)'
  <2>1. t \in listed /\ LOf(t) /\ Answered
    BY <1>4, <1>7 DEF LInv
  <2> QED BY <1>3, <1>5, <1>7, <2>1, FinishedL, ScheduledL, ItemRemovedL DEF Notify
<1> QED BY <1>2, <1>4, <1>6, <1>7 DEF LInv

(* No download is forgotten.  What the steps keep of it while no alert is    *)
(* dropped.                                                                  *)
LEMMA LInit == Init => LInv
BY DEF Init, LInv, Answered

LEMMA LStep ==
    /\ TInv /\ TInv' /\ Traces /\ Traces' /\ QInv /\ CInv /\ CInv' /\ Mindful /\ LInv
    /\ Room /\ [Next]_vars
    => LInv' /\ Mindful'
<1> SUFFICES ASSUME TInv, TInv', Traces, Traces', QInv, CInv, CInv', Mindful, LInv, Room,
                    [Next]_vars
             PROVE  LInv' /\ Mindful'
  OBVIOUS
<1>1. world' = world => Mindful'
  BY DEF Mindful, Plain, OnlyListsAreLong, StreamsAreSingle, Without, May
<1>2. ASSUME NEW v \in Videos, Body(v) PROVE LInv' /\ Mindful'
  BY <1>1, <1>2, BodyL, BodyIsSeen DEF BodySeen
<1>3. CASE /\ SamePairs /\ world' = world
           /\ \/ \E v \in Videos : User(v) \/ ProcessSchedule(v)
              \/ PauseAll \/ ResumeAll \/ Notify
              \/ \E h \in DOMAIN pairs : TransferStep(h)
              \/ UNCHANGED vars
  <2>1. listed \subseteq Videos /\ Len(alerts) < MaxAlerts
    BY DEF TInv, Room
  <2>2. ASSUME NEW v \in Videos, ProcessSchedule(v) PROVE LInv'
    <3>1. listed' = listed
      BY <2>2 DEF ProcessSchedule
    <3>2. \A w \in listed : LOf(w)'
      BY <2>1, <2>2, ScheduleL, ScheduleOthers, ApartL DEF LInv
    <3>3. Answered'
      <4> DEFINE a == [code |-> "SCHEDULED", v |-> v, k |-> 1, hr |-> "S_OK"]
      <4>1. a \in AlertSet /\ a.hr = "S_OK" /\ alerts' = Push(alerts, <<a>>)
        BY <2>2, Settings DEF ProcessSchedule, AlertSet, Codes, Answers
      <4> HIDE DEF a
      <4>2. \A i \in DOMAIN alerts' :
               (i \in DOMAIN alerts /\ alerts'[i] = alerts[i]) \/ alerts'[i] = a
        BY <4>1, OnePushed
      <4> QED BY <4>1, <4>2, AnsweredStays DEF LInv, Failures
    <3> QED BY <3>1, <3>2, <3>3 DEF LInv
  <2>3. ASSUME NEW h \in DOMAIN pairs, TransferStep(h) PROVE LInv'
    <3>1. listed' = listed
      BY <2>3, TransferHow DEF Mindful, Plain
    <3>2. \A w \in listed : LOf(w)'
      BY <2>1, <2>3, TransferL, TransferOthers, ApartL DEF LInv, Mindful, Plain
    <3>3. Answered'
      <4>1. \/ alerts' = alerts
            \/ \E a \in AlertSet :
                  /\ alerts' = Push(alerts, <<a>>)
                  /\ a.hr \notin {"E_FAIL", "E_ABORT"}
                  /\ a.hr \in Failures => a.code = "FINISHED"
        <5>1. ~May("abort")
          BY DEF Mindful, Without, May, Forgetful
        <5> QED BY <2>3, <5>1, TransferHow DEF Mindful, Plain, Failures
      <4>2. CASE alerts' = alerts
        BY <4>2, AnsweredStays DEF LInv
      <4>3. ASSUME NEW a \in AlertSet, alerts' = Push(alerts, <<a>>),
                   a.hr \notin {"E_FAIL", "E_ABORT"}, a.hr \in Failures => a.code = "FINISHED"
            PROVE  Answered'
        <5>1. \A i \in DOMAIN alerts' :
                 (i \in DOMAIN alerts /\ alerts'[i] = alerts[i]) \/ alerts'[i] = a
          BY <4>3, OnePushed
        <5> QED BY <4>3, <5>1, AnsweredStays DEF LInv
      <4> QED BY <4>1, <4>2, <4>3
    <3> QED BY <3>1, <3>2, <3>3 DEF LInv
  <2>4. ASSUME PauseAll \/ ResumeAll PROVE LInv'
    <3>1. listed' = listed /\ alerts' = alerts
      BY <2>4 DEF PauseAll, ResumeAll, ResumeThese
    <3>2. Answered'
      BY <3>1, AnsweredStays DEF LInv
    <3> QED BY <2>1, <2>4, <3>1, <3>2, PauseAllL, ResumeCallsL DEF LInv
  <2>5. ASSUME UNCHANGED vars PROVE LInv'
    <3>1. UNCHANGED <<listed, item, calls, alerts, retry, pairs, world>>
      BY <2>5 DEF vars
    <3>2. \A w \in listed : Apart(w)
      BY <3>1 DEF Apart, SamePairsOf, SameAlertsOf
    <3>3. \A w \in listed : LOf(w)'
      BY <2>1, <3>2, ApartL DEF LInv
    <3>4. Answered'
      BY <3>1, AnsweredStays DEF LInv
    <3> QED BY <3>1, <3>3, <3>4 DEF LInv
  <2> QED BY <1>1, <1>3, <2>2, <2>3, <2>4, <2>5, UserL, NotifyL
<1> QED BY <1>2, <1>3, OtherSteps

(* Between calls, whoever holds a slot and is not paused is brought on.      *)
LEMMA TendedAtRest ==
    ASSUME TInv, CInv, LInv, AtRest, NEW v \in Videos, Counted(v), ~Is(v, "PAUSED")
    PROVE  Underway(v) \/ GivenUp(v)
<1>1. /\ v \in listed /\ COf(v) /\ LOf(v) /\ calls = <<>>
      /\ item[v].cur \in Nat /\ item[v].clips \in Int
  BY ListedIs DEF Counted, AtRest, LInv
<1>2. item[v].cur > 0 /\ item[v].clips > 0
  BY <1>1 DEF Counted, COf, Counts, Engaged
<1>3. Tended(v) /\ ~IsStream(v)
  BY <1>1, <1>2 DEF LOf, Needy, Counted, Is
<1>4. item[v].cur \in Clips(v)
  BY <1>1, <1>2, ListedIs
<1>5. CASE item[v].cur \notin item[v].completed /\ Handed(v, item[v].cur)
  <2>1. CASE \E h : Fetched(v, item[v].cur, h)
    <3>1. PICK h : Fetched(v, item[v].cur, h)
      BY <2>1
    <3>2. item[v].handle[item[v].cur] = h /\ h # 0
      <4>1. h \in 1..Len(pairs)
        BY <3>1, SeqEntries DEF TInv, Fetched
      <4>2. h # 0
        BY <4>1
      <4> QED BY <1>1, <1>5, <3>1, <4>2 DEF LOf, Linked, Fetched
    <3>3. h \in HandlesOf(v) /\ ~pairs[h].paused
      BY <1>1, <1>4, <3>2 DEF HandlesOf, LOf, Linked
    <3> QED BY <3>1, <3>3 DEF Underway, Fetched
  <2>2. CASE \E i : Told(v, item[v].cur, i)
    BY <2>2 DEF Told, Underway, AlertsFor
  <2>3. CASE Retried(v, item[v].cur) > 0
    BY <2>3 DEF Retried, Underway
  <2>4. ~Handled(v, item[v].cur)
    BY <1>1 DEF Handled
  <2> QED BY <1>5, <2>1, <2>2, <2>3, <2>4 DEF Handed
<1>6. CASE item[v].handle[item[v].cur] = 0
  <2>1. Max({1, item[v].cur}) = item[v].cur
    BY <1>1, <1>2, LargerOf
  <2> QED BY <1>2, <1>3, <1>6, <2>1 DEF GivenUp
<1>7. CASE item[v].missing # {}
  BY <1>3, <1>7 DEF GivenUp
<1>8. ~Moving(v)
  BY <1>1 DEF Moving, Doing
<1> QED BY <1>3, <1>5, <1>6, <1>7, <1>8 DEF Tended

(* Every download in progress that the user has not paused has somebody who  *)
(* will bring it on (FDownloadMgr.cpp:377-475, 893-1031): between calls, a   *)
(* pair the clip downloader works on, an alert or a retry; or it failed for  *)
(* good.  It is proved for a stack of alerts that is never full, as Push     *)
(* drops what does not fit (FAsyncHttpDownload.cpp:553).                     *)
THEOREM NothingIsForgotten ==
    Spec /\ StreamsAreSingle /\ [](Len(alerts) < MaxAlerts) => []NothingForgotten
<1> DEFINE Safe  == OnlyListsAreLong /\ Without(Forgetful) /\ world.bittorrent = {}
           Meant == StreamsAreSingle
<1>1. Safe /\ Meant => Mindful /\ Plain /\ Orderly
  BY DEF Mindful, Without, Plain, Orderly, May, Forgetful
<1>2. [Next]_vars /\ TInv /\ ~Safe => ~Safe'
  <2>1. TInv /\ [Next]_vars => world' = world
    BY BodyIsSeen, OtherSteps DEF BodySeen
  <2> QED BY <2>1 DEF Without, OnlyListsAreLong
<1>3. ~Safe => NothingForgotten
  BY DEF NothingForgotten
<1>4. TInv /\ CInv /\ LInv => NothingForgotten
  BY TendedAtRest DEF NothingForgotten
<1> HIDE DEF Safe, Meant
<1>5. Spec => []TInv
  BY TInit, TStep, PTL DEF Spec
<1>6. Spec => []Traces
  BY <1>5, TracesInit, TracesStep, PTL DEF Spec
<1>7. Spec /\ Orderly => []QInv
  BY <1>5, <1>6, QInit, QStep, PTL DEF Spec
<1>8. Spec /\ Orderly /\ Plain => []CInv
  BY <1>5, <1>6, <1>7, CInit, CStep, PTL DEF Spec
<1>9. Spec /\ Orderly /\ Plain /\ Mindful /\ []Room => []LInv
  BY <1>5, <1>6, <1>7, <1>8, LInit, LStep, PTL DEF Spec
<1>10. Spec /\ ~Safe => []~Safe
  BY <1>2, <1>5, PTL DEF Spec
<1>11. Spec /\ Meant /\ []Room => []NothingForgotten
  BY <1>1, <1>3, <1>4, <1>5, <1>8, <1>9, <1>10, PTL DEF Spec
<1> QED BY <1>11 DEF Meant, Room

-----------------------------------------------------------------------------
(* Why a clip is left whenever the next one is asked for, in worlds where no *)
(* completed clip is fetched or refused again and the last clip of a playlist*)
(* does not fail.                                                            *)
Succeeding == Plain /\ Without({"refuse", "moved", "last-fails"})

Early(a) == a.hr # "S_OK" /\ a.v \in Playlists => a.k # ClipCount[a.v]

EarlyFails ==
    /\ \A a \in Range(alerts) : a.hr # "E_ABORT" => Early(a)
    /\ \A c \in Range(calls) : Early(c)

HasNext(v) == Doing("QueueNextDownloadItem", v) => item[v].cur < ClipCount[v]

NInv == EarlyFails /\ \A v \in Videos : HasNext(v)

(* A body reports no failure, and asks for a clip that is left.              *)
LEMMA BodyGoesOn ==
    ASSUME TInv, QInv, NInv, alerts' = alerts, NEW f, NEW v \in Videos, Doing(f, v),
           \/ Then(<<>>)
           \/ \E c \in CallSet :
                 /\ c.hr = "S_OK" /\ Then(<<c>>)
                 /\ c.do = "QueueNextDownloadItem" => item'[c.v].cur < ClipCount[c.v]
           \/ \E c, d \in CallSet :
                 /\ c.hr = "S_OK" /\ d.hr = "S_OK" /\ Then(<<c, d>>)
                 /\ c.do # "QueueNextDownloadItem"
    PROVE  NInv'
<1>1. calls # <<>> /\ calls \in Seq(CallSet) /\ Behind(calls) \subseteq Range(calls)
  BY DoingIs
<1>2. ASSUME NEW c, c.hr = "S_OK" PROVE Early(c)
  BY <1>2 DEF Early
<1>3. \A a : Early(a)' <=> Early(a)
  BY DEF Early
<1>4. CASE Then(<<>>)
  <2>1. Range(calls') = Behind(calls)
    BY <1>1, <1>4, ThenNothing
  <2>2. \A w \in Videos : HasNext(w)'
    BY <1>4, NextDoing DEF HasNext
  <2> QED BY <1>1, <1>3, <2>1, <2>2 DEF NInv, EarlyFails
<1>5. ASSUME NEW c \in CallSet, c.hr = "S_OK", Then(<<c>>),
             c.do = "QueueNextDownloadItem" => item'[c.v].cur < ClipCount[c.v]
      PROVE  NInv'
  <2>1. Range(calls') = {c} \cup Behind(calls)
    BY <1>1, <1>5, ThenCall
  <2>2. \A w \in Videos : HasNext(w)'
    BY <1>5, NextDoing DEF HasNext
  <2> QED BY <1>1, <1>2, <1>3, <1>5, <2>1, <2>2 DEF NInv, EarlyFails
<1>6. ASSUME NEW c \in CallSet, NEW d \in CallSet, c.hr = "S_OK", d.hr = "S_OK",
             Then(<<c, d>>), c.do # "QueueNextDownloadItem"
      PROVE  NInv'
  <2>1. Range(calls') = {c, d} \cup Behind(calls)
    BY <1>1, <1>6, ThenTwoCalls
  <2>2. \A w \in Videos : HasNext(w)'
    BY <1>6, NextDoing DEF HasNext
  <2> QED BY <1>1, <1>2, <1>3, <1>6, <2>1, <2>2 DEF NInv, EarlyFails
<1> QED BY <1>4, <1>5, <1>6

(* A failed clip of a playlist was the current one, and is not the last.     *)
LEMMA ItemCompleteN ==
    ASSUME TInv, Traces, QInv, CInv, Succeeding, NInv, NEW v \in Videos, OnItemComplete(v)
    PROVE  NInv'
<1> DEFINE next == Call("QueueNextDownloadItem", v)
           done == Call("OnDownloadComplete", v)
<1>1. /\ next \in CallSet /\ next.hr = "S_OK" /\ next.v = v
      /\ done \in CallSet /\ done.hr = "S_OK" /\ done.do # "QueueNextDownloadItem"
  BY CallsTyped, CallFields DEF OfVideo
<1>2. Doing("OnItemComplete", v) /\ alerts' = alerts /\ item'[v].cur = item[v].cur
  BY ItemCompleteDoes DEF OnItemComplete
<1>3. /\ v \in listed /\ COf(v) /\ Handled(v, Head(calls).k) /\ Head(calls).k \in Clips(v)
      /\ Head(calls).v = v /\ Head(calls) \in Range(calls)
  BY <1>2, AtItemComplete, DoingIs
<1>4. item[v].cur \in Nat /\ item[v].cur <= ClipCount[v] /\ ClipCount[v] \in Nat
  BY <1>3, ListedIs
<1>5. \/ Then(<<>>)
      \/ Then(<<next>>) /\ item[v].cur < ClipCount[v]
      \/ Then(<<done>>)
      \/ Then(<<next>>) /\ Head(calls).hr # "S_OK" /\ v \in Playlists
  BY <1>2, ItemCompleteHow DEF Onward
<1>6. ASSUME Head(calls).hr # "S_OK", v \in Playlists PROVE item[v].cur < ClipCount[v]
  <2>1. Without({"refuse", "moved"})
    BY DEF Succeeding, Without
  <2>2. Head(calls).k \notin item[v].completed
    BY <1>2, <1>3, <1>6, <2>1 DEF COf, Sure
  <2>3. Head(calls).k = item[v].cur
    BY <1>3, <2>1, <2>2 DEF COf, Once, Handed, Steady
  <2>4. Head(calls).k # ClipCount[v]
    BY <1>3, <1>6 DEF NInv, EarlyFails, Early
  <2> QED BY <1>4, <2>3, <2>4
<1> HIDE DEF next, done
<1> QED BY <1>1, <1>2, <1>5, <1>6, BodyGoesOn

LEMMA BodyN ==
    ASSUME TInv, Traces, QInv, CInv, Succeeding, NInv, NEW v \in Videos, Body(v)
    PROVE  NInv'
<1> DEFINE next == Call("QueueNextDownloadItem", v)
<1>1. next \in CallSet /\ next.hr = "S_OK" /\ next.v = v /\ next.do = "QueueNextDownloadItem"
  BY CallsTyped, CallFields DEF OfVideo
<1>2. \A k \in Clips(v), f \in OfClip \ {"OnItemComplete"} :
         /\ CallClip(f, v, k) \in CallSet /\ CallClip(f, v, k).hr = "S_OK"
         /\ CallClip(f, v, k).do # "QueueNextDownloadItem"
  BY CallsTyped, CallFields DEF OfClip
<1>3. \A k \in Clips(v) :
         /\ Complete(v, k, "S_OK") \in CallSet /\ Complete(v, k, "S_OK").hr = "S_OK"
         /\ Complete(v, k, "S_OK").do # "QueueNextDownloadItem"
  BY CallsTyped, CallFields DEF Answers
<1>4. \A w \in Videos : Call("QueueDownload", w) \in CallSet
                       /\ Call("QueueDownload", w).hr = "S_OK"
                       /\ Call("QueueDownload", w).do # "QueueNextDownloadItem"
  BY CallsTyped, CallFields DEF OfVideo
<1>5. alerts' = alerts
  BY BodyIsSeen DEF BodySeen
<1> HIDE DEF next
<1>6. CASE QueueDownload(v)
  <2>1. Doing("QueueDownload", v) /\ item'[v].cur = item[v].cur
        /\ (Then(<<>>) \/ Then(<<next>>))
    BY <1>6, QueueDownloadDoes DEF QueueDownload, Reflagged, next
  <2>2. v \in listed /\ COf(v) /\ Asked(v) /\ ClipCount[v] \in Nat /\ ClipCount[v] > 0
    BY <2>1, LeftToDo, ListedIs DEF Doing, Asked
  <2>3. item'[v].cur < ClipCount[v]
    BY <2>1, <2>2 DEF COf, Waits
  <2> QED BY <1>1, <1>5, <2>1, <2>3, BodyGoesOn
<1>7. CASE QueueNextDownloadItem(v)
  <2> DEFINE k == item[v].cur + 1
             c == CallClip("QueueDownloadItem", v, k)
  <2>1. Doing("QueueNextDownloadItem", v) /\ (Then(<<>>) \/ (k \in Clips(v) /\ Then(<<c>>)))
    BY <1>7, QueueNextDoes DEF QueueNextDownloadItem
  <2>2. k \in Clips(v) => c \in CallSet /\ c.hr = "S_OK" /\ c.do # "QueueNextDownloadItem"
    BY <1>2 DEF OfClip
  <2> HIDE DEF c
  <2> QED BY <1>5, <2>1, <2>2, BodyGoesOn
<1>8. CASE QueueDownloadItem(v)
  <2>1. PICK k \in Clips(v) :
           \/ Then(<<Complete(v, k, "S_OK")>>)
           \/ Then(<<CallClip("AddClip", v, k)>>)
           \/ Then(<<Complete(v, k, "S_OK"), CallClip("AddClip", v, k)>>)
    BY <1>8, QueueItemDoes
  <2> DEFINE c == Complete(v, k, "S_OK")
             d == CallClip("AddClip", v, k)
  <2>2. /\ c \in CallSet /\ c.hr = "S_OK" /\ c.do # "QueueNextDownloadItem"
        /\ d \in CallSet /\ d.hr = "S_OK" /\ d.do # "QueueNextDownloadItem"
    BY <1>2, <1>3 DEF OfClip
  <2>3. Then(<<c>>) \/ Then(<<d>>) \/ Then(<<c, d>>)
    BY <2>1
  <2> HIDE DEF c, d
  <2>4. Doing("QueueDownloadItem", v)
    BY <1>8 DEF QueueDownloadItem
  <2> QED BY <1>5, <2>2, <2>3, <2>4, BodyGoesOn
<1>9. CASE AddClip(v)
  <2>1. ~May("refuse")
    BY DEF Succeeding, Without, May
  <2>2. PICK k \in Clips(v) : k = Head(calls).k
    BY <1>9, AddClipHow
  <2> DEFINE c == Complete(v, k, "S_OK")
  <2>3. c \in CallSet /\ c.hr = "S_OK" /\ c.do # "QueueNextDownloadItem"
    BY <1>3
  <2>4. Doing("AddClip", v) /\ (Then(<<>>) \/ Then(<<c>>))
    BY <1>9, <2>1, <2>2, AddClipHow DEF AddRefused, AddKnown, AddStarted
  <2> HIDE DEF c
  <2> QED BY <1>5, <2>3, <2>4, BodyGoesOn
<1>10. CASE OnItemComplete(v)
  BY <1>10, ItemCompleteN
<1>11. CASE OnDownloadComplete(v)
  <2> DEFINE c == Call("QueueDownload", Head(queue))
  <2>1. queue # <<>> => Head(queue) \in Videos
    BY HeadTailProperties DEF TInv
  <2>2. queue # <<>> => c \in CallSet /\ c.hr = "S_OK" /\ c.do # "QueueNextDownloadItem"
    BY <1>4, <2>1
  <2>3. /\ Doing("OnDownloadComplete", v)
        /\ Then(<<>>) \/ (queue # <<>> /\ Then(<<c>>))
    BY <1>11, CompleteDoes DEF OnDownloadComplete
  <2> HIDE DEF c
  <2> QED BY <1>5, <2>2, <2>3, BodyGoesOn
<1>12. CASE EraseDownload(v)
  BY <1>5, <1>12, EraseDoes, BodyGoesOn DEF EraseDownload
<1>13. CASE CountTorrentFound(v)
  BY <1>5, <1>13, CountDoes, BodyGoesOn DEF CountTorrentFound
<1>14. CASE ResumeStep(v)
  <2>1. /\ Doing("Resume", v) /\ item'[v].cur = item[v].cur
        /\ Then(<<>>) \/ (~Is(v, "QUEUED") /\ Restarted(v) /\ Then(<<next>>))
    BY <1>14, ResumeHow DEF next
  <2>2. v \in listed /\ COf(v) /\ ClipCount[v] \in Nat /\ ClipCount[v] > 0
    BY <2>1, LeftToDo, ListedIs
  <2>3. Restarted(v) => item[v].cur = 0
    BY <2>1, <2>2 DEF Restarted, COf, Idles, Started, Asked, Moving, Doing
  <2> QED BY <1>1, <1>5, <2>1, <2>2, <2>3, BodyGoesOn
<1> QED BY <1>6, <1>7, <1>8, <1>9, <1>10, <1>11, <1>12, <1>13, <1>14 DEF Body

(* Nobody else asks for the next clip.                                       *)
LEMMA OthersN ==
    ASSUME NInv,
           \A a \in Range(alerts') : a \in Range(alerts) \/ a.hr = "E_ABORT" \/ Early(a),
           \/ calls' = calls /\ \A w \in Videos : item'[w].cur = item[w].cur \/ calls = <<>>
           \/ /\ \A c \in Range(calls') : Early(c)
              /\ \A w \in Videos : ~Doing("QueueNextDownloadItem", w)'
    PROVE  NInv'
<1>1. \A a : Early(a)' <=> Early(a)
  BY DEF Early
<1>2. EarlyFails'
  BY <1>1 DEF NInv, EarlyFails
<1>3. \A w \in Videos : HasNext(w)'
  BY DEF NInv, HasNext, Doing
<1> QED BY <1>2, <1>3 DEF NInv

LEMMA UserN ==
    ASSUME TInv, QInv, CInv, NInv, NEW v \in Videos, User(v) PROVE NInv'
<1>1. \A c : c.hr = "S_OK" => Early(c)
  BY DEF Early
<1>2. ASSUME calls' = <<Call("QueueDownload", v)>>, alerts' = alerts PROVE NInv'
  <2> DEFINE c == Call("QueueDownload", v)
  <2>1. c.hr = "S_OK" /\ c.do # "QueueNextDownloadItem"
    BY CallFields
  <2> HIDE DEF c
  <2>2. Range(calls') = {c} /\ Head(calls') = c
    BY <1>2 DEF Range, c
  <2> QED BY <1>1, <1>2, <2>1, <2>2, OthersN DEF Doing
<1>3. CASE AddDownload(v)
  BY <1>2, <1>3, AddDoes
<1>4. CASE StartQueuedDownload(v)
  BY <1>2, <1>4, StartDoes
<1>5. CASE RemoveDownload(v)
  <2>0. alerts' = Push(alerts, RemovalAlerts(v))
    BY <1>5 DEF RemoveDownload
  <2>1. \A i \in DOMAIN alerts' : \/ i \in DOMAIN alerts /\ alerts'[i] = alerts[i]
                                  \/ alerts'[i].hr = "E_ABORT"
    <3>1. \A i \in DOMAIN alerts : i \in DOMAIN alerts' /\ alerts'[i] = alerts[i]
      BY <1>5, RemoveHow
    <3> QED BY <2>0, <3>1, RemovalsSay
  <2>2. \A a \in Range(alerts') : a \in Range(alerts) \/ a.hr = "E_ABORT"
    BY <2>1 DEF Range
  <2>3. /\ \A c \in Range(calls') : c.hr = "S_OK" /\ c.do # "QueueNextDownloadItem"
        /\ calls' # <<>> => Head(calls') \in Range(calls')
    BY <1>5, RemoveHow
  <2> QED BY <1>1, <2>2, <2>3, OthersN DEF Doing
<1>6. CASE PauseDownload(v)
  BY <1>6, PauseDoes, OthersN
<1>7. CASE ResumeDownload(v)
  <2>1. /\ alerts' = alerts
        /\ \A c \in Range(calls') : c.do = "Resume" /\ c.hr = "S_OK"
        /\ calls' # <<>> => Head(calls') \in Range(calls')
    BY <1>7, ResumeCallsDo
  <2> QED BY <1>1, <2>1, OthersN DEF Doing
<1> QED BY <1>3, <1>4, <1>5, <1>6, <1>7 DEF User

LEMMA NotifyN ==
    ASSUME TInv, Succeeding, NInv, Notify PROVE NInv'
<1>1. \A c : c.hr = "S_OK" => Early(c)
  BY DEF Early
<1>2. ASSUME NEW c, c.do # "QueueNextDownloadItem", Early(c), calls' = <<c>>,
             Range(alerts') \subseteq Range(alerts)
      PROVE  NInv'
  <2>1. Range(calls') = {c} /\ Head(calls') = c
    BY <1>2 DEF Range
  <2> QED BY <1>2, <2>1, OthersN DEF Doing
<1>3. ASSUME calls = <<>>, calls' = <<>>, Range(alerts') \subseteq Range(alerts) PROVE NInv'
  BY <1>3, OthersN
<1>4. CASE OnItemRemoved
  BY <1>3, <1>4, ItemRemovedDoes
<1>5. CASE OnItemFinished
  <2> DEFINE a == TopAlert
             c == Complete(a.v, a.k, a.hr)
  <2>1. /\ calls = <<>> /\ a \in Range(alerts) /\ a.hr # "E_ABORT"
        /\ Range(alerts') \subseteq Range(alerts)
        /\ calls' = <<>> \/ calls' = <<c>>
    BY <1>5, TakenIs DEF OnItemFinished
  <2>2. c.do # "QueueNextDownloadItem" /\ c.v = a.v /\ c.k = a.k /\ c.hr = a.hr
    BY DEF Complete
  <2> HIDE DEF c, a
  <2>3. Early(c)
    BY <2>1, <2>2 DEF NInv, EarlyFails, Early
  <2> QED BY <1>2, <1>3, <2>1, <2>2, <2>3
<1>6. CASE OnTorrentFound
  <2> DEFINE c == CallClip("QueueDownloadItem", TopAlert.v, TopAlert.k)
             d == Call("CountTorrentFound", TopAlert.v)
  <2>1. /\ Range(alerts') \subseteq Range(alerts) /\ calls = <<>>
        /\ calls' = <<>> \/ calls' = <<c, d>>
    BY <1>6, TakenIs DEF OnTorrentFound
  <2>2. c.hr = "S_OK" /\ d.hr = "S_OK" /\ c.do # "QueueNextDownloadItem"
    BY CallFields
  <2> HIDE DEF c, d
  <2>3. calls' = <<c, d>> => Range(calls') = {c, d} /\ Head(calls') = c
    BY DEF Range
  <2>4. ASSUME calls' = <<c, d>> PROVE NInv'
    BY <1>1, <2>1, <2>2, <2>3, <2>4, OthersN DEF Doing
  <2> QED BY <1>3, <2>1, <2>4
<1>7. CASE OnScheduledEvent
  <2> DEFINE c == CallClip("QueueDownloadItem", TopAlert.v, 1)
  <2>1. /\ Range(alerts') \subseteq Range(alerts) /\ calls = <<>>
        /\ calls' = <<>> \/ calls' = <<c>>
    BY <1>7, TakenIs DEF OnScheduledEvent
  <2>2. c.hr = "S_OK" /\ c.do # "QueueNextDownloadItem"
    BY CallFields
  <2> HIDE DEF c
  <2> QED BY <1>1, <1>2, <1>3, <2>1, <2>2
<1> QED BY <1>4, <1>5, <1>6, <1>7 DEF Notify

LEMMA NInit == Init => NInv
<1> SUFFICES ASSUME Init PROVE NInv
  OBVIOUS
<1>1. Range(<<>>) = {}
  BY DEF Range
<1> QED BY <1>1 DEF Init, NInv, EarlyFails, HasNext, Doing

LEMMA NStep ==
    TInv /\ Traces /\ QInv /\ CInv /\ Succeeding /\ NInv /\ [Next]_vars => NInv' /\ Succeeding'
<1> SUFFICES ASSUME TInv, Traces, QInv, CInv, Succeeding, NInv, [Next]_vars
             PROVE  NInv' /\ Succeeding'
  OBVIOUS
<1>1. world' = world => Succeeding'
  BY DEF Succeeding, Plain, StreamsAreSingle, Without, May
<1>2. ASSUME NEW v \in Videos, Body(v) PROVE NInv' /\ Succeeding'
  BY <1>1, <1>2, BodyN, BodyIsSeen DEF BodySeen
<1>3. CASE /\ SamePairs /\ world' = world
           /\ \/ \E v \in Videos : User(v) \/ ProcessSchedule(v)
              \/ PauseAll \/ ResumeAll \/ Notify
              \/ \E h \in DOMAIN pairs : TransferStep(h)
              \/ UNCHANGED vars
  <2>1. ASSUME NEW v \in Videos, ProcessSchedule(v) PROVE NInv'
    BY <2>1, ScheduleDoes, OthersN DEF Early
  <2>2. ASSUME NEW h \in DOMAIN pairs, TransferStep(h) PROVE NInv'
    <3>1. ~May("last-fails") /\ world.bittorrent = {}
      BY DEF Succeeding, Plain, Without, May
    <3>2. ASSUME NEW a \in AlertSet, alerts' = Push(alerts, <<a>>),
                 a.hr \in Failures => ~(a.v \in Playlists /\ a.k = ClipCount[a.v])
          PROVE  \A b \in Range(alerts') : b \in Range(alerts) \/ b.hr = "E_ABORT" \/ Early(b)
      <4>1. a.hr = "E_ABORT" \/ Early(a)
        BY <3>2 DEF AlertSet, Answers, Early
      <4> QED BY <3>2, <4>1, OneAlert
    <3>3. \A b \in Range(alerts') : b \in Range(alerts) \/ b.hr = "E_ABORT" \/ Early(b)
      <4>1. \/ alerts' = alerts
            \/ \E a \in AlertSet :
                  /\ alerts' = Push(alerts, <<a>>)
                  /\ a.hr \in Failures => ~(a.v \in Playlists /\ a.k = ClipCount[a.v])
        BY <2>2, <3>1, TransferHow DEF Failures
      <4> QED BY <3>2, <4>1
    <3> QED BY <2>2, <3>1, <3>3, TransferHow, OthersN
  <2>3. ASSUME PauseAll PROVE NInv'
    BY <2>3, PauseAllDoes, OthersN
  <2>4. ASSUME ResumeAll PROVE NInv'
    <3>1. /\ alerts' = alerts
          /\ \A c \in Range(calls') : c.do = "Resume" /\ c.hr = "S_OK"
          /\ calls' # <<>> => Head(calls') \in Range(calls')
      BY <2>4, ResumeCallsDo
    <3>2. \A c \in Range(calls') : Early(c)
      BY <3>1 DEF Early
    <3> QED BY <3>1, <3>2, OthersN DEF Doing
  <2>5. ASSUME UNCHANGED vars PROVE NInv'
    BY <2>5, OthersN DEF vars
  <2> QED BY <1>1, <1>3, <2>1, <2>2, <2>3, <2>4, <2>5, UserN, NotifyN
<1> QED BY <1>2, <1>3, OtherSteps

(* Whoever asks for the next clip of a video has one left to ask for:        *)
(* ATLASSERT(FALSE), "No more clips to queue" (FDownloadMgr.cpp:457), is not *)
(* reached, for videos that are what they claim to be and streams of one     *)
(* clip, unless a completed clip is fetched or refused again or the last     *)
(* clip of a playlist fails.                                                 *)
THEOREM ClipsAreLeft == Spec /\ Succeeding => ClipLeftToQueue
<1>1. Succeeding => Plain /\ Orderly
  BY DEF Succeeding, Plain, Orderly, Without, May
<1>2. NInv /\ [Next]_vars =>
         [\A v \in Videos : QueueNextDownloadItem(v) => item[v].cur < ClipCount[v]]_vars
  BY DEF NInv, HasNext, QueueNextDownloadItem
<1>3. Spec => []TInv
  BY TInit, TStep, PTL DEF Spec
<1>4. Spec => []Traces
  BY <1>3, TracesInit, TracesStep, PTL DEF Spec
<1>5. Spec /\ Orderly => []QInv
  BY <1>3, <1>4, QInit, QStep, PTL DEF Spec
<1>6. Spec /\ Orderly /\ Plain => []CInv
  BY <1>3, <1>4, <1>5, CInit, CStep, PTL DEF Spec
<1>7. Spec /\ Orderly /\ Plain /\ Succeeding => []NInv
  BY <1>3, <1>4, <1>5, <1>6, NInit, NStep, PTL DEF Spec
<1> QED BY <1>1, <1>2, <1>3, <1>7, PTL DEF Spec, ClipLeftToQueue
=============================================================================
