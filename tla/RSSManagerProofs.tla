--------------------------- MODULE RSSManagerProofs ---------------------------
(***************************************************************************)
(* Results on FRSSManager, its dispatcher and the videos of its feeds, for *)
(* any channels, any items, any number of requests the dispatcher holds    *)
(* and any order of calls, answers, restarts and crashes.                  *)
(***************************************************************************)
EXTENDS RSSManager, SequenceLemmas

FeedSet  == [listed : BOOLEAN, auto : BOOLEAN, refreshed : BOOLEAN, loaded : BOOLEAN,
             due : BOOLEAN, page : {None} \cup SUBSET Items]
Seen     == {"unseen", "old", "new"}
Answers  == [current : BOOLEAN, stale : Nat]
VideoSet == [at : {"absent", "live", "deleted"}, watched : BOOLEAN, conf : {"tmp", "xml"}]
Contents == {"none", "unwatched", "watched"}
FileSet  == [tmp : Contents, xml : Contents]
Index    == [feed : [Feeds -> FeedSet], recent : [Items -> Seen], history : SUBSET Items]

(* What a function of FRSSManager works on.                                  *)
States ==
    [feed : [Feeds -> FeedSet], recent : [Items -> Seen], transfers : [Feeds -> Answers],
     updates : Seq(Feeds), progress : [Feeds -> Nat], requests : Seq(Video),
     file : [Video -> FileSet], started : SUBSET Items, active : Nat, asks : BOOLEAN]

(* A feed that is loaded has a page.                                         *)
Paged(feeds) == \A f \in Feeds : feeds[f].loaded => feeds[f].page # None

TInv ==
    /\ feed \in [Feeds -> FeedSet] /\ Paged(feed)
    /\ recent \in [Items -> Seen]
    /\ transfers \in [Feeds -> Answers]
    /\ updates \in Seq(Feeds)
    /\ progress \in [Feeds -> Nat]
    /\ requests \in Seq(Video) /\ Len(requests) <= MaxRequests
    /\ fetching \in [Items -> Nat]
    /\ waiting \in {None} \cup Call
    /\ loading \in {None} \cup Task
    /\ video \in [Video -> VideoSet]
    /\ value \in [Feeds -> 0..MaxValue]
    /\ history \in SUBSET Items
    /\ file \in [Video -> FileSet]
    /\ saved \in Index
    /\ published \in SUBSET Items
    /\ started \in SUBSET Items
    /\ settled \in SUBSET Items
    /\ trash \in SUBSET Items
    /\ torn \in SUBSET Video

(* Where a video is between the request and the collection, and after.       *)
Fetching(v) == fetching[Item(v)] > 0 /\ v[2] = 1
Loading(v)  == loading # None /\ loading.do = "load" /\ loading.v = v

Around(s, v) ==
    \/ s.file[v] # NoFile
    \/ v \in Collection
    \/ v \in Range(s.requests)
    \/ Fetching(v) \/ Loading(v)

(* Where nothing is asked for twice, a request leads to one transfer or none,*)
(* that to one load, and that to the collection, and a metafile of its own   *)
(* is only there with the video, unless a crash left two of them.            *)
Neat == ~May("twice")

Other(conf) == IF conf = "tmp" THEN "xml" ELSE "tmp"

Single(s) ==
    /\ IsInjective(s.requests)
    /\ \A i \in Items : fetching[i] <= 1
    /\ \A v \in Range(s.requests) : ~Fetching(v) /\ ~Loading(v)
    /\ \A v \in Video : Fetching(v) => ~Loading(v)
    /\ \A v \in Collection :
          /\ v \notin Range(s.requests) /\ ~Fetching(v) /\ ~Loading(v)
          /\ v \notin torn => s.file[v][Other(video[v].conf)] = "none"
    /\ \A v \in Video \ torn : v \notin Collection /\ s.file[v].xml # "none" => Loading(v)
    /\ \A v \in Video : Item(v) \in trash =>
          /\ v \notin Range(s.requests) /\ ~Fetching(v) /\ ~Loading(v)
          /\ v \notin Collection /\ v \notin torn => s.file[v] = NoFile

(* Whatever is left of an item says that it was asked for or remembered.     *)
Claimed(s) ==
    /\ \A v \in Video : Around(s, v) => Item(v) \in s.started \cup history
    /\ \A i \in s.started : s.recent[i] = "old"
    /\ \A v \in Range(s.requests) : Kind[Item(v)] = "mtti" => v[2] = 1
    /\ ~May("twice") =>
          \A v, w \in Video : Around(s, v) /\ Around(s, w) /\ Item(v) = Item(w) => v = w
    /\ Neat => Single(s)

Remembered ==
    /\ \A v \in Collection : Item(v) \in history
    /\ trash \subseteq history
    /\ history = saved.history
    /\ \A i \in settled : \/ i \in history
                          \/ recent[i] = "old" /\ saved.recent[i] = "old"
    /\ waiting # None /\ waiting.do = "DownloadItem" =>
          /\ Kind[waiting.i] = "mtti"
          /\ May("twice") \/ waiting.i \notin started \cup history

(* The chain of updates, on the record too.                                  *)
Linked(s) ==
    /\ IsInjective(s.updates)
    /\ \A f \in Range(s.updates) :
          s.feed[f].listed /\ (s.progress[f] > 0 => s.transfers[f].current)
    /\ May("unsaved") \/ \A f \in Feeds :
          s.feed[f].listed /\ s.progress[f] > 0 => s.transfers[f].current

Going(s) ==
    s.updates # <<>> => \E f \in Feeds : s.transfers[f].current \/ s.transfers[f].stale > 0

Inv == TInv /\ Claimed(State) /\ Remembered /\ Linked(State) /\ Going(State)


-----------------------------------------------------------------------------
(* One call of FRSSManager.                                                  *)
Good(s) ==
    /\ s \in States
    /\ Len(s.requests) <= MaxRequests
    /\ Paged(s.feed)
    /\ Claimed(s)

(* The requests for an item.                                                 *)
Places(q, i) == {n \in DOMAIN q : Item(q[n]) = i}

(* What may change between two moments of it: nothing of the updates; an     *)
(* item that is old stays old and is not requested.                          *)
Follows(s, t) ==
    /\ t.transfers = s.transfers /\ t.updates = s.updates /\ t.progress = s.progress
    /\ \A f \in Feeds : t.feed[f].listed = s.feed[f].listed
    /\ \A i \in Items : s.recent[i] = "old" => t.recent[i] = "old"
    /\ \A i \in Items : s.recent[i] = "old" \/ i \in history =>
          Places(t.requests, i) = Places(s.requests, i)

LEMMA FollowsTrans ==
    ASSUME NEW s, NEW t, NEW u, Follows(s, t), Follows(t, u) PROVE Follows(s, u)
BY DEF Follows

LEMMA StateGood == ASSUME Inv PROVE Good(State)
BY DEF Inv, Good, TInv, State, States

LEMMA VideoIs ==
    /\ \A i \in Items, n \in 1..Copies :
          <<i, n>> \in Video /\ Item(<<i, n>>) = i /\ <<i, n>>[2] = n
    /\ \A v \in Video : Item(v) \in Items /\ v[2] \in 1..Copies /\ v = <<Item(v), v[2]>>
    /\ \A v \in Video : Feed(v) \in Feeds
    /\ 1 \in 1..Copies
BY RSSManagerAssumption DEF Video, Item, Feed

(* What DownloadItem does with a record.                                     *)
Aged(seen, i) == [seen EXCEPT ![i] = "old"]
Noted(files, v) == [files EXCEPT ![v].tmp = "unwatched"]

Taken(s, t, i) ==
    /\ t \in States /\ Len(t.requests) <= MaxRequests
    /\ t.feed = s.feed /\ t.transfers = s.transfers
    /\ t.updates = s.updates /\ t.progress = s.progress
    /\ \/ /\ t.recent = s.recent /\ t.started = s.started
          /\ t.requests = s.requests /\ t.file = s.file
       \/ /\ t.recent = Aged(s.recent, i)
          /\ t.started = s.started \cup ({i} \ history)
          /\ \E v \in Video :
                /\ Item(v) = i
                /\ Kind[i] = "mtti" => v[2] = 1
                /\ t.requests \in {s.requests, Append(s.requests, v)}
                /\ t.file \in {s.file, Noted(s.file, v)}

LEMMA StartedDoes ==
    ASSUME TInv, NEW s \in States, NEW i \in Items, NEW t, t = Started(s, i)
    PROVE  /\ t \in States
           /\ t.feed = s.feed /\ t.transfers = s.transfers
           /\ t.updates = s.updates /\ t.progress = s.progress
           /\ t.requests = s.requests /\ t.file = s.file
           /\ t.recent = Aged(s.recent, i)
           /\ t.started = s.started \cup ({i} \ history)
<1>1. PICK seen : seen = Aged(s.recent, i)
  OBVIOUS
<1>2. PICK begun : begun = s.started \cup ({i} \ history)
  OBVIOUS
<1>3. PICK n : n = s.active + 1
  OBVIOUS
<1>4. seen \in [Items -> Seen] /\ begun \in SUBSET Items /\ n \in Nat
  BY <1>1, <1>2, <1>3 DEF States, Seen, Aged
<1>5. t = [s EXCEPT !.recent = seen, !.active = n, !.started = begun]
  BY <1>1, <1>2, <1>3 DEF Started, States, Aged
<1>6. /\ t \in States
      /\ t.feed = s.feed /\ t.transfers = s.transfers
      /\ t.updates = s.updates /\ t.progress = s.progress
      /\ t.requests = s.requests /\ t.file = s.file
      /\ t.recent = seen
      /\ t.started = begun
  BY <1>4, <1>5 DEF States
<1> QED BY <1>1, <1>2, <1>6

LEMMA PushDoes ==
    ASSUME TInv, NEW s \in States, Len(s.requests) <= MaxRequests, NEW v \in Video,
           NEW t, t = Push(s, v)
    PROVE  /\ t \in States
           /\ t.feed = s.feed /\ t.transfers = s.transfers
           /\ t.updates = s.updates /\ t.progress = s.progress
           /\ t.recent = s.recent /\ t.started = s.started /\ t.file = s.file
           /\ t.requests \in {s.requests, Append(s.requests, v)}
           /\ Len(t.requests) <= MaxRequests
<1> DEFINE q == s.requests
           r == Append(q, v)
<1>1. q \in Seq(Video) /\ MaxRequests \in Nat
  BY RSSManagerAssumption DEF States
<1>2. r \in Seq(Video) /\ Len(r) = Len(q) + 1 /\ Len(q) \in Nat
  BY <1>1, AppendProperties, LenProperties
<1>3. CASE ~Fits(s)
  BY <1>3 DEF Push
<1>4. CASE Fits(s)
  <2> DEFINE u == [s EXCEPT !.requests = r]
  <2>1. t = u
    BY <1>4 DEF Push
  <2>2. Len(r) <= MaxRequests
    BY <1>1, <1>2, <1>4 DEF Fits
  <2> HIDE DEF r
  <2>3. u \in States
    BY <1>2 DEF States
  <2>4. /\ u.feed = s.feed /\ u.transfers = s.transfers
        /\ u.updates = s.updates /\ u.progress = s.progress
        /\ u.recent = s.recent /\ u.started = s.started /\ u.file = s.file
        /\ u.requests = r
    BY DEF States
  <2> QED BY <2>1, <2>2, <2>3, <2>4 DEF r
<1> QED BY <1>3, <1>4

LEMMA DownloadItemDoes ==
    ASSUME TInv, NEW s \in States, Len(s.requests) <= MaxRequests, NEW i \in Items,
           Kind[i] = "media" => FreeCopies(s, i) # {}, NEW t, t = DownloadItem(s, i)
    PROVE  Taken(s, t, i)
<1>0. Kind[i] \in {"mtti", "media", "feed"}
  BY RSSManagerAssumption
<1>1. CASE Kind[i] = "feed"
  <2>1. t = s
    BY <1>1 DEF DownloadItem
  <2> QED BY <2>1 DEF Taken
<1>2. CASE Kind[i] = "mtti"
  <2>1. PICK v : v = <<i, 1>>
    OBVIOUS
  <2>2. v \in Video /\ Item(v) = i /\ v[2] = 1
    BY <2>1, VideoIs
  <2>3. PICK a : a = [s EXCEPT !.asks = @ \/ May("ids")]
    OBVIOUS
  <2>4. /\ a \in States
        /\ a.feed = s.feed /\ a.transfers = s.transfers
        /\ a.updates = s.updates /\ a.progress = s.progress
        /\ a.recent = s.recent /\ a.started = s.started /\ a.file = s.file
        /\ a.requests = s.requests
    <3>1. (s.asks \/ May("ids")) \in BOOLEAN
      BY DEF May
    <3>2. PICK b \in BOOLEAN : b = (s.asks \/ May("ids"))
      BY <3>1
    <3>3. a = [s EXCEPT !.asks = b]
      BY <2>3, <3>2
    <3> QED BY <3>3 DEF States
  <2>5. t \in {a, Started(a, i), Started(Push(a, v), i)}
    BY <1>2, <2>1, <2>3 DEF DownloadItem, OpenMTTFromHTTP
  <2>6. CASE t = a
    BY <2>4, <2>6 DEF Taken
  <2>7. CASE t = Started(a, i)
    BY <2>2, <2>4, <2>7, StartedDoes DEF Taken
  <2>8. CASE t = Started(Push(a, v), i)
    <3>1. PICK b : b = Push(a, v)
      OBVIOUS
    <3>2. /\ b \in States
          /\ b.feed = a.feed /\ b.transfers = a.transfers
          /\ b.updates = a.updates /\ b.progress = a.progress
          /\ b.recent = a.recent /\ b.started = a.started /\ b.file = a.file
          /\ b.requests \in {a.requests, Append(a.requests, v)}
          /\ Len(b.requests) <= MaxRequests
      BY <2>2, <2>4, <3>1, PushDoes
    <3>3. /\ t \in States
          /\ t.feed = b.feed /\ t.transfers = b.transfers
          /\ t.updates = b.updates /\ t.progress = b.progress
          /\ t.requests = b.requests /\ t.file = b.file
          /\ t.recent = Aged(b.recent, i)
          /\ t.started = b.started \cup ({i} \ history)
    <4>1. t = Started(b, i)
      BY <2>8, <3>1
    <4> QED BY <3>2, <4>1, StartedDoes
    <3> QED BY <2>2, <2>4, <3>2, <3>3 DEF Taken
  <2> QED BY <2>5, <2>6, <2>7, <2>8
<1>3. CASE Kind[i] = "media"
  <2>1. PICK n \in 1..Copies : NewVideo(s, i) = <<i, n>>
    BY <1>3 DEF NewVideo, FreeCopies
  <2>2. PICK v : v = <<i, n>>
    OBVIOUS
  <2>3. v \in Video /\ Item(v) = i
    BY <2>2, VideoIs
  <2>4. PICK a : a = [s EXCEPT !.file[v].tmp = "unwatched"]
    OBVIOUS
  <2>5. /\ a \in States
        /\ a.feed = s.feed /\ a.transfers = s.transfers
        /\ a.updates = s.updates /\ a.progress = s.progress
        /\ a.recent = s.recent /\ a.started = s.started /\ a.requests = s.requests
        /\ a.file = Noted(s.file, v)
    BY <2>3, <2>4 DEF States, FileSet, Contents, Noted
  <2>6. PICK b : b = Push(a, v)
    OBVIOUS
  <2>7. /\ b \in States
        /\ b.feed = a.feed /\ b.transfers = a.transfers
        /\ b.updates = a.updates /\ b.progress = a.progress
        /\ b.recent = a.recent /\ b.started = a.started /\ b.file = a.file
        /\ b.requests \in {a.requests, Append(a.requests, v)}
        /\ Len(b.requests) <= MaxRequests
    BY <2>3, <2>5, <2>6, PushDoes
  <2>8. t = Started(b, i)
    BY <1>3, <2>1, <2>2, <2>4, <2>6 DEF DownloadItem
  <2>9. /\ t \in States
        /\ t.feed = b.feed /\ t.transfers = b.transfers
        /\ t.updates = b.updates /\ t.progress = b.progress
        /\ t.requests = b.requests /\ t.file = b.file
        /\ t.recent = Aged(b.recent, i)
        /\ t.started = b.started \cup ({i} \ history)
    BY <2>7, <2>8, StartedDoes
  <2> QED BY <1>3, <2>3, <2>5, <2>7, <2>9 DEF Taken
<1> QED BY <1>0, <1>1, <1>2, <1>3


LEMMA AgedIs ==
    ASSUME NEW r \in [Items -> Seen], NEW i \in Items
    PROVE  \A j \in Items : Aged(r, i)[j] = IF j = i THEN "old" ELSE r[j]
BY DEF Aged

LEMMA NotedIs ==
    ASSUME NEW files \in [Video -> FileSet], NEW v \in Video
    PROVE  /\ \A w \in Video : w # v => Noted(files, v)[w] = files[w]
           /\ \A w \in Video : Noted(files, v)[w].xml = files[w].xml
BY DEF Noted, FileSet

LEMMA PlacesAppended ==
    ASSUME NEW q \in Seq(Video), NEW v \in Video, NEW i, Item(v) # i
    PROVE  Places(Append(q, v), i) = Places(q, i)
<1>1. /\ Append(q, v) \in Seq(Video) /\ Len(Append(q, v)) = Len(q) + 1 /\ Len(q) \in Nat
      /\ \A n \in 1..Len(q) : Append(q, v)[n] = q[n]
      /\ Append(q, v)[Len(q) + 1] = v
  BY AppendProperties, LenProperties
<1>2. DOMAIN q = 1..Len(q) /\ DOMAIN Append(q, v) = 1..Len(q) + 1
  BY <1>1, SeqEntries
<1> QED BY <1>1, <1>2 DEF Places

(* A request for an item of which nothing is around yet.                     *)
LEMMA TakenGood ==
    ASSUME TInv, trash \subseteq history, NEW s, Good(s), NEW i \in Items,
           NEW t, Taken(s, t, i), May("twice") \/ i \notin s.started \cup history
    PROVE  Good(t)
<1> USE VideoIs
<1>1. CASE /\ t.recent = s.recent /\ t.started = s.started
           /\ t.requests = s.requests /\ t.file = s.file
  <2>1. \A v : Around(t, v) <=> Around(s, v)
    BY <1>1 DEF Around
  <2>2. Single(t) <=> Single(s)
    BY <1>1 DEF Single
  <2>3. Claimed(t)
    BY <1>1, <2>1, <2>2 DEF Good, Claimed
  <2> QED BY <2>3 DEF Good, Taken
<1>2. ASSUME t.recent = Aged(s.recent, i), t.started = s.started \cup ({i} \ history),
             NEW v \in Video, Item(v) = i, Kind[i] = "mtti" => v[2] = 1,
             t.requests \in {s.requests, Append(s.requests, v)},
             t.file \in {s.file, Noted(s.file, v)}
      PROVE  Good(t)
  <2>0. /\ s.requests \in Seq(Video) /\ t.requests \in Seq(Video)
        /\ s.file \in [Video -> FileSet] /\ s.recent \in [Items -> Seen]
    BY DEF Good, States, Taken
  <2>1. /\ Range(s.requests) \subseteq Range(t.requests)
        /\ Range(t.requests) \subseteq Range(s.requests) \cup {v}
        /\ v \notin Range(s.requests) /\ IsInjective(s.requests) => IsInjective(t.requests)
    <3>1. CASE t.requests = s.requests
      BY <3>1
    <3>2. CASE t.requests = Append(s.requests, v)
      <4>1. PICK q \in Seq(Video) : q = s.requests
        BY <2>0
      <4>2. /\ Range(Append(q, v)) = Range(q) \cup {v}
            /\ IsInjective(q) /\ v \notin Range(q) => IsInjective(Append(q, v))
        BY <1>2, Appended
      <4> QED BY <3>2, <4>1, <4>2
    <3> QED BY <1>2, <3>1, <3>2
  <2>2. /\ \A w \in Video : w # v => t.file[w] = s.file[w]
        /\ \A w \in Video : t.file[w].xml = s.file[w].xml
    <3>1. CASE t.file = s.file
      BY <3>1
    <3>2. CASE t.file = Noted(s.file, v)
      <4>1. PICK files \in [Video -> FileSet] : files = s.file
        BY <2>0
      <4>2. /\ \A w \in Video : w # v => Noted(files, v)[w] = files[w]
            /\ \A w \in Video : Noted(files, v)[w].xml = files[w].xml
        BY <1>2, NotedIs
      <4> QED BY <3>2, <4>1, <4>2
    <3> QED BY <1>2, <3>1, <3>2
  <2>3. \A w \in Video : Around(t, w) => w = v \/ Around(s, w)
    BY <2>1, <2>2 DEF Around
  <2>4. \A w \in Video : Around(t, w) => Item(w) \in t.started \cup history
    <3>1. \A w \in Video : Around(s, w) => Item(w) \in s.started \cup history
      BY DEF Good, Claimed
    <3> QED BY <1>2, <2>3, <3>1
  <2>5. \A j \in t.started : t.recent[j] = "old"
    <3>1. \A j \in s.started : j \in Items /\ s.recent[j] = "old"
      BY DEF Good, Claimed, States
    <3>2. PICK seen \in [Items -> Seen] : seen = s.recent
      BY <2>0
    <3>3. \A j \in Items : t.recent[j] = IF j = i THEN "old" ELSE s.recent[j]
      BY <1>2, <3>2, AgedIs
    <3>4. \A j \in t.started : j \in s.started \/ j = i
      BY <1>2
    <3> QED BY <3>1, <3>3, <3>4
  <2>6. \A w \in Range(t.requests) : Kind[Item(w)] = "mtti" => w[2] = 1
    BY <1>2, <2>1 DEF Good, Claimed
  <2>7. CASE May("twice")
    BY <2>4, <2>5, <2>6, <2>7 DEF Good, Claimed, Taken, Neat
  <2>8. CASE ~May("twice")
    <3>1. \A w \in Video : Item(w) = i => ~Around(s, w)
      BY <2>8 DEF Good, Claimed
    <3>2. \A u, w \in Video : Around(t, u) /\ Around(t, w) /\ Item(u) = Item(w) => u = w
      BY <1>2, <2>3, <2>8, <3>1 DEF Good, Claimed
    <3>3. ~Around(s, v)
      BY <1>2, <3>1
    <3>4. ASSUME Single(s) PROVE Single(t)
      <4>1. /\ v \notin Range(s.requests) /\ ~Fetching(v) /\ ~Loading(v)
            /\ v \notin Collection
        BY <3>3 DEF Around
      <4>2. IsInjective(t.requests)
        BY <2>1, <3>4, <4>1 DEF Single
      <4>3. \A w \in Range(t.requests) : ~Fetching(w) /\ ~Loading(w)
        BY <2>1, <3>4, <4>1 DEF Single
      <4>4. \A w \in Collection :
              /\ w \notin Range(t.requests) /\ ~Fetching(w) /\ ~Loading(w)
              /\ w \notin torn => t.file[w][Other(video[w].conf)] = "none"
        <5>1. \A w \in Collection : w # v /\ w \in Video
          BY <4>1 DEF Collection
        <5> QED BY <2>1, <2>2, <3>4, <5>1 DEF Single
      <4>5. \A w \in Video \ torn : w \notin Collection /\ t.file[w].xml # "none" => Loading(w)
        BY <2>2, <3>4 DEF Single
      <4>6. \A w \in Video : Item(w) \in trash =>
              /\ w \notin Range(t.requests) /\ ~Fetching(w) /\ ~Loading(w)
              /\ w \notin Collection /\ w \notin torn => t.file[w] = NoFile
        <5>1. \A w \in Video : Item(w) \in trash => w # v
          BY <1>2, <2>8
        <5> QED BY <2>1, <2>2, <3>4, <5>1 DEF Single
      <4> QED BY <3>4, <4>2, <4>3, <4>4, <4>5, <4>6 DEF Single
    <3>5. Neat => Single(s)
      BY DEF Good, Claimed
    <3> QED BY <2>4, <2>5, <2>6, <3>2, <3>4, <3>5 DEF Good, Claimed, Taken
  <2> QED BY <2>7, <2>8
<1> QED BY <1>1, <1>2 DEF Taken

LEMMA TakenFollows ==
    ASSUME NEW s, s \in States, NEW i \in Items, NEW t, Taken(s, t, i)
    PROVE  /\ t.transfers = s.transfers /\ t.updates = s.updates /\ t.progress = s.progress
           /\ t.feed = s.feed
           /\ \A j \in Items : s.recent[j] = "old" => t.recent[j] = "old"
           /\ \A j \in Items : j # i => Places(t.requests, j) = Places(s.requests, j)
<1>1. s.recent \in [Items -> Seen] /\ s.requests \in Seq(Video)
  BY DEF States
<1>2. \A j \in Items : s.recent[j] = "old" => t.recent[j] = "old"
  BY <1>1, AgedIs DEF Taken
<1>3. \A j \in Items : j # i => Places(t.requests, j) = Places(s.requests, j)
  BY <1>1, PlacesAppended DEF Taken
<1> QED BY <1>2, <1>3 DEF Taken

LEMMA VisitFollows ==
    ASSUME TInv, trash \subseteq history, NEW s, Good(s), NEW i \in Items,
           NEW t, t = Visit(s, i)
    PROVE  Good(t) /\ Follows(s, t)
<1>0. s \in States /\ Len(s.requests) <= MaxRequests
  BY DEF Good
<1>1. CASE t = s
  BY <1>1 DEF Follows
<1>2. CASE /\ s.recent[i] = "new" /\ i \notin history
           /\ t = DownloadItem(s, i)
  <2>1. i \notin s.started \cup history
    BY <1>2 DEF Good, Claimed
  <2>2. FreeCopies(s, i) # {}
    <3>1. <<i, 1>> \in Video /\ Item(<<i, 1>>) = i /\ 1 \in 1..Copies
      BY VideoIs
    <3>2. ~Around(s, <<i, 1>>)
      BY <2>1, <3>1 DEF Good, Claimed
    <3>3. s.file[<<i, 1>>] = NoFile /\ video[<<i, 1>>].at = "absent"
      BY <3>1, <3>2 DEF Around, Collection
    <3> QED BY <3>1, <3>3 DEF FreeCopies
  <2>3. Taken(s, t, i)
    BY <1>0, <1>2, <2>2, DownloadItemDoes
  <2>4. Good(t)
    BY <2>1, <2>3, TakenGood
  <2>5. s.recent[i] # "old"
    BY <1>2
  <2> QED BY <1>0, <1>2, <2>3, <2>4, <2>5, TakenFollows DEF Follows
<1> QED BY <1>1, <1>2 DEF Visit


(* The loop of OnFeedLoaded: there is a record after each item, and the last *)
(* is its result.                                                            *)
LEMMA VisitsRun ==
    ASSUME NEW s, NEW order, NEW n \in Nat, n = Len(order)
    PROVE  \E after :
              /\ after[0] = s
              /\ \A i \in 1..n : after[i] = Visit(after[i - 1], order[i])
              /\ Visits(s, order) = after[n]
<1> DEFINE Turn(f, i) == IF i = 0 THEN s
                         ELSE Visit(f[i - 1], order[i])
           Runs(f, m) == f = [i \in 0..m |-> Turn(f, i)]
           Stuck == {m \in Nat : ~\E f : Runs(f, m)}
<1>1. 0 \notin Stuck
  <2> DEFINE f == [i \in 0..0 |-> s]
  <2>1. Runs(f, 0)
    <3>1. \A i \in 0..0 : Turn(f, i) = s
      OBVIOUS
    <3> HIDE DEF Turn
    <3> QED BY <3>1
  <2> QED BY <2>1
<1>2. ASSUME NEW m \in Nat, NEW f, Runs(f, m) PROVE m + 1 \notin Stuck
  <2> DEFINE next == Visit(f[m], order[m + 1])
             g == [i \in 0..m + 1 |-> IF i <= m THEN f[i] ELSE next]
  <2>1. \A i \in 0..m : f[i] = Turn(f, i)
    BY <1>2
  <2>2. \A i \in 0..m : Turn(g, i) = Turn(f, i)
    <3> SUFFICES ASSUME NEW i \in 0..m, i # 0 PROVE g[i - 1] = f[i - 1]
      OBVIOUS
    <3>1. i - 1 \in 0..m + 1 /\ i - 1 <= m
      OBVIOUS
    <3> HIDE DEF next
    <3> QED BY <3>1
  <2>3. Turn(g, m + 1) = next
    <3>1. g[m] = f[m]
      <4> HIDE DEF next
      <4> QED OBVIOUS
    <3>2. m + 1 # 0 /\ (m + 1) - 1 = m
      OBVIOUS
    <3> HIDE DEF g
    <3> QED BY <3>1, <3>2
  <2>4. \A i \in 0..m + 1 : g[i] = Turn(g, i)
    <3> SUFFICES ASSUME NEW i \in 0..m + 1 PROVE g[i] = Turn(g, i)
      OBVIOUS
    <3> HIDE DEF next, Turn
    <3>1. CASE i <= m
      BY <2>1, <2>2, <3>1
    <3>2. CASE i = m + 1
      BY <2>3, <3>2
    <3> QED BY <3>1, <3>2
  <2>5. Runs(g, m + 1)
    <3>1. g = [i \in 0..m + 1 |-> g[i]]
      OBVIOUS
    <3> HIDE DEF g, Turn
    <3> QED BY <2>4, <3>1
  <2> QED BY <2>5
<1>3. Stuck = {}
  <2> SUFFICES ASSUME Stuck # {} PROVE FALSE
    OBVIOUS
  <2>1. PICK m \in Stuck : \A j \in Stuck : m <= j
    BY LeastNumber
  <2>2. m \in Nat /\ m # 0
    BY <1>1
  <2>3. m - 1 \in Nat /\ m - 1 \notin Stuck /\ (m - 1) + 1 = m
    <3>1. m - 1 \in Nat /\ (m - 1) + 1 = m /\ ~(m <= m - 1)
      BY <2>2
    <3> HIDE DEF Stuck
    <3> QED BY <2>1, <3>1
  <2>4. PICK f : Runs(f, m - 1)
    BY <2>3
  <2> HIDE DEF Runs, Stuck
  <2>5. (m - 1) + 1 \notin Stuck
    BY <1>2, <2>3, <2>4
  <2> QED BY <2>1, <2>3, <2>5
<1>4. \E f : Runs(f, n)
  BY <1>3
<1> DEFINE after == CHOOSE f : Runs(f, n)
<1>5. Runs(after, n)
  <2> HIDE DEF Runs
  <2> QED BY <1>4
<1>6. Visits(s, order) = after[n]
  BY DEF Visits
<1> HIDE DEF after
<1>7. \A i \in 0..n : after[i] = Turn(after, i)
  BY <1>5
<1>8. after[0] = s
  BY <1>7
<1>9. \A i \in 1..n : after[i] = Visit(after[i - 1], order[i])
  BY <1>7
<1> QED BY <1>6, <1>8, <1>9


LEMMA VisitsFollow ==
    ASSUME TInv, trash \subseteq history, NEW s, Good(s), NEW order \in Seq(Items),
           NEW t, t = Visits(s, order)
    PROVE  Good(t) /\ Follows(s, t)
<1> DEFINE n == Len(order)
<1>1. n \in Nat /\ \A k \in 1..n : order[k] \in Items
  BY LenProperties, ElementOfSeq
<1> HIDE DEF n
<1>2. PICK after :
        /\ after[0] = s
        /\ \A k \in 1..n : after[k] = Visit(after[k - 1], order[k])
        /\ Visits(s, order) = after[n]
  BY <1>1, VisitsRun DEF n
<1> DEFINE Bad == {k \in 0..n : ~(Good(after[k]) /\ Follows(s, after[k]))}
<1>3. 0 \notin Bad
  BY <1>2 DEF Follows
<1>4. ASSUME NEW k \in 1..n, k - 1 \notin Bad PROVE k \notin Bad
  <2>1. k - 1 \in 0..n /\ Good(after[k - 1]) /\ Follows(s, after[k - 1])
    BY <1>1, <1>4
  <2>2. PICK u : u = after[k - 1]
    OBVIOUS
  <2>3. PICK w : w = after[k]
    OBVIOUS
  <2>4. PICK i \in Items : i = order[k]
    BY <1>1
  <2>5. w = Visit(u, i)
    BY <1>2, <2>2, <2>3, <2>4
  <2>6. Good(u) /\ Follows(s, u)
    BY <2>1, <2>2
  <2>7. Good(w) /\ Follows(u, w)
    BY <2>5, <2>6, VisitFollows
  <2>8. Follows(s, w)
    BY <2>6, <2>7, FollowsTrans
  <2> QED BY <2>3, <2>7, <2>8
<1>5. Bad = {}
  <2> SUFFICES ASSUME Bad # {} PROVE FALSE
    OBVIOUS
  <2>1. Bad \in SUBSET Nat
    BY <1>1
  <2>2. PICK m \in Bad : \A j \in Bad : m <= j
    BY <2>1, LeastNumber
  <2>3. m \in 1..n
    BY <1>1, <1>3
  <2>4. m - 1 \notin Bad
    BY <2>1, <2>2
  <2> QED BY <1>4, <2>3, <2>4
<1>6. Good(after[n]) /\ Follows(s, after[n])
  BY <1>1, <1>5
<1> QED BY <1>2, <1>6

(* A record with the same requests, metafiles and started items.             *)
LEMMA SameClaims ==
    ASSUME NEW s, NEW t, Claimed(s), t.requests = s.requests, t.file = s.file,
           t.started = s.started, \A i \in s.started : t.recent[i] = "old"
    PROVE  Claimed(t)
<1>1. \A v : Around(t, v) <=> Around(s, v)
  BY DEF Around
<1>2. Single(t) <=> Single(s)
  BY DEF Single
<1> QED BY <1>1, <1>2 DEF Claimed

LEMMA OnFeedLoadedFollows ==
    ASSUME TInv, trash \subseteq history, NEW s, Good(s), NEW f \in Feeds,
           s.feed[f].page # None, NEW t, t = OnFeedLoaded(s, f)
    PROVE  Good(t) /\ Follows(s, t)
<1>0. s \in States
  BY DEF Good
<1>1. CASE ~s.feed[f].auto
  BY <1>1 DEF OnFeedLoaded, Follows
<1>2. CASE s.feed[f].auto
  <2>1. PICK page \in SUBSET Items : page = s.feed[f].page
    BY <1>0 DEF States, FeedSet
  <2>2. PICK order : order = SetToSeq(page)
    OBVIOUS
  <2>3. order \in Seq(Items)
    BY <2>2, RSSManagerAssumption, FS_Subset, SetToSeqEntries, WiderSeq
  <2>4. PICK n \in Nat : n = value[f]
    BY DEF TInv
  <2>5. PICK u : u = [s EXCEPT !.active = n]
    OBVIOUS
  <2>6. /\ u \in States
        /\ u.feed = s.feed /\ u.transfers = s.transfers
        /\ u.updates = s.updates /\ u.progress = s.progress
        /\ u.recent = s.recent /\ u.started = s.started
        /\ u.requests = s.requests /\ u.file = s.file
    BY <1>0, <2>5 DEF States
  <2>7. Claimed(u)
    <3>1. Claimed(s) /\ \A i \in s.started : u.recent[i] = "old"
      BY <2>6 DEF Good, Claimed
    <3> QED BY <2>6, <3>1, SameClaims
  <2>8. Good(u) /\ Follows(s, u)
    BY <2>6, <2>7 DEF Good, Follows
  <2>9. t = Visits(u, order)
    BY <1>2, <2>1, <2>2, <2>4, <2>5 DEF OnFeedLoaded
  <2>10. Good(t) /\ Follows(u, t)
    BY <2>3, <2>8, <2>9, VisitsFollow
  <2> QED BY <2>8, <2>10, FollowsTrans
<1> QED BY <1>1, <1>2

Refeed(s, seen, f, g) == [s EXCEPT !.recent = seen, !.feed[f] = g]

(* A feed that is replaced by another one with the same listed flag.         *)
LEMMA Refed ==
    ASSUME NEW s, Good(s), NEW f \in Feeds, NEW g \in FeedSet,
           g.loaded => g.page # None, g.listed = s.feed[f].listed,
           NEW seen \in [Items -> Seen],
           \A i \in Items : s.recent[i] = "old" => seen[i] = "old",
           NEW t, t = Refeed(s, seen, f, g)
    PROVE  /\ Good(t) /\ Follows(s, t) /\ t.feed[f] = g
           /\ t.recent = seen
<1>0. s \in States /\ Paged(s.feed) /\ Claimed(s) /\ Len(s.requests) <= MaxRequests
  BY DEF Good
<1>1. PICK feeds : feeds = [s.feed EXCEPT ![f] = g]
  OBVIOUS
<1>2. /\ feeds \in [Feeds -> FeedSet] /\ feeds[f] = g
      /\ \A h \in Feeds : h # f => feeds[h] = s.feed[h]
  BY <1>0, <1>1 DEF States
<1>3. t = [s EXCEPT !.recent = seen, !.feed = feeds]
  BY <1>0, <1>1 DEF States, Refeed
<1>4. /\ t \in States
      /\ t.feed = feeds /\ t.recent = seen /\ t.transfers = s.transfers
      /\ t.updates = s.updates /\ t.progress = s.progress
      /\ t.started = s.started /\ t.requests = s.requests /\ t.file = s.file
  BY <1>0, <1>2, <1>3 DEF States
<1>5. Paged(t.feed) /\ \A h \in Feeds : t.feed[h].listed = s.feed[h].listed
  BY <1>0, <1>2, <1>4 DEF Paged
<1>6. \A i \in s.started : i \in Items /\ s.recent[i] = "old"
  BY <1>0 DEF Claimed, States
<1>7. Claimed(t)
  <2>1. \A i \in s.started : t.recent[i] = "old"
    BY <1>4, <1>6
  <2> QED BY <1>0, <1>4, <2>1, SameClaims
<1> QED BY <1>0, <1>2, <1>4, <1>5, <1>7 DEF Good, Follows

LEMMA LoadRSSFollows ==
    ASSUME TInv, trash \subseteq history, NEW s, Good(s), NEW f \in Feeds,
           NEW t, t = LoadRSS(s, f)
    PROVE  Good(t) /\ Follows(s, t)
<1>0. s \in States
  BY DEF Good
<1>1. CASE s.feed[f].page = None
  BY <1>1 DEF LoadRSS, Follows
<1>2. CASE s.feed[f].page # None
  <2>1. PICK page : page = s.feed[f].page
    OBVIOUS
  <2>2. PICK seen : seen = [i \in Items |->
                   IF i \notin page \/ s.recent[i] # "unseen" THEN s.recent[i]
                   ELSE IF s.feed[f].refreshed THEN "new" ELSE "old"]
    OBVIOUS
  <2>3. /\ seen \in [Items -> Seen]
        /\ \A i \in Items : s.recent[i] = "old" => seen[i] = "old"
    BY <1>0, <2>2 DEF States, Seen
  <2>4. PICK g : g = [s.feed[f] EXCEPT !.loaded = TRUE, !.refreshed = TRUE]
    OBVIOUS
  <2>5. g \in FeedSet /\ g.page # None /\ g.listed = s.feed[f].listed
    BY <1>0, <1>2, <2>4 DEF States, FeedSet
  <2>6. PICK u : u = Refeed(s, seen, f, g)
    OBVIOUS
  <2>7. Good(u) /\ Follows(s, u) /\ u.feed[f] = g
    BY <2>3, <2>5, <2>6, Refed
  <2>8. u = [s EXCEPT !.recent = seen, !.feed[f].loaded = TRUE, !.feed[f].refreshed = TRUE]
    BY <1>0, <2>4, <2>6 DEF States, FeedSet, Refeed
  <2>9. t = OnFeedLoaded(u, f)
    BY <1>2, <2>1, <2>2, <2>8 DEF LoadRSS
  <2>10. Good(t) /\ Follows(u, t)
    BY <2>5, <2>7, <2>9, OnFeedLoadedFollows
  <2> QED BY <2>7, <2>10, FollowsTrans
<1> QED BY <1>1, <1>2

LEMMA ShownFollows ==
    ASSUME TInv, trash \subseteq history, NEW s, Good(s), NEW f \in Feeds,
           NEW t, t = Shown(s, f) \/ t = ShownIfIdle(s, f)
    PROVE  Good(t) /\ Follows(s, t)
<1>1. t = s \/ t = LoadRSS(s, f)
  BY DEF Shown, ShownIfIdle
<1>2. CASE t = s
  BY <1>2 DEF Follows
<1> QED BY <1>1, <1>2, LoadRSSFollows

(* The same of the loop of LockChannels.                                     *)
LEMMA AllShownRun ==
    ASSUME NEW s, NEW order, order = SetToSeq(Listed), NEW n \in Nat, n = Len(order)
    PROVE  \E after :
              /\ after[0] = s
              /\ \A i \in 1..n : after[i] = ShownIfIdle(after[i - 1], order[i])
              /\ AllShown(s) = after[n]
<1> DEFINE Turn(f, i) == IF i = 0 THEN s
                         ELSE ShownIfIdle(f[i - 1], order[i])
           Runs(f, m) == f = [i \in 0..m |-> Turn(f, i)]
           Stuck == {m \in Nat : ~\E f : Runs(f, m)}
<1>1. 0 \notin Stuck
  <2> DEFINE f == [i \in 0..0 |-> s]
  <2>1. Runs(f, 0)
    <3>1. \A i \in 0..0 : Turn(f, i) = s
      OBVIOUS
    <3> HIDE DEF Turn
    <3> QED BY <3>1
  <2> QED BY <2>1
<1>2. ASSUME NEW m \in Nat, NEW f, Runs(f, m) PROVE m + 1 \notin Stuck
  <2> DEFINE next == ShownIfIdle(f[m], order[m + 1])
             g == [i \in 0..m + 1 |-> IF i <= m THEN f[i] ELSE next]
  <2>1. \A i \in 0..m : f[i] = Turn(f, i)
    BY <1>2
  <2>2. \A i \in 0..m : Turn(g, i) = Turn(f, i)
    <3> SUFFICES ASSUME NEW i \in 0..m, i # 0 PROVE g[i - 1] = f[i - 1]
      OBVIOUS
    <3>1. i - 1 \in 0..m + 1 /\ i - 1 <= m
      OBVIOUS
    <3> HIDE DEF next
    <3> QED BY <3>1
  <2>3. Turn(g, m + 1) = next
    <3>1. g[m] = f[m]
      <4> HIDE DEF next
      <4> QED OBVIOUS
    <3>2. m + 1 # 0 /\ (m + 1) - 1 = m
      OBVIOUS
    <3> HIDE DEF g
    <3> QED BY <3>1, <3>2
  <2>4. \A i \in 0..m + 1 : g[i] = Turn(g, i)
    <3> SUFFICES ASSUME NEW i \in 0..m + 1 PROVE g[i] = Turn(g, i)
      OBVIOUS
    <3> HIDE DEF next, Turn
    <3>1. CASE i <= m
      BY <2>1, <2>2, <3>1
    <3>2. CASE i = m + 1
      BY <2>3, <3>2
    <3> QED BY <3>1, <3>2
  <2>5. Runs(g, m + 1)
    <3>1. g = [i \in 0..m + 1 |-> g[i]]
      OBVIOUS
    <3> HIDE DEF g, Turn
    <3> QED BY <2>4, <3>1
  <2> QED BY <2>5
<1>3. Stuck = {}
  <2> SUFFICES ASSUME Stuck # {} PROVE FALSE
    OBVIOUS
  <2>1. PICK m \in Stuck : \A j \in Stuck : m <= j
    BY LeastNumber
  <2>2. m \in Nat /\ m # 0
    BY <1>1
  <2>3. m - 1 \in Nat /\ m - 1 \notin Stuck /\ (m - 1) + 1 = m
    <3>1. m - 1 \in Nat /\ (m - 1) + 1 = m /\ ~(m <= m - 1)
      BY <2>2
    <3> HIDE DEF Stuck
    <3> QED BY <2>1, <3>1
  <2>4. PICK f : Runs(f, m - 1)
    BY <2>3
  <2> HIDE DEF Runs, Stuck
  <2>5. (m - 1) + 1 \notin Stuck
    BY <1>2, <2>3, <2>4
  <2> QED BY <2>1, <2>3, <2>5
<1>4. \E f : Runs(f, n)
  BY <1>3
<1> DEFINE after == CHOOSE f : Runs(f, n)
<1>5. Runs(after, n)
  <2> HIDE DEF Runs
  <2> QED BY <1>4
<1>6. AllShown(s) = after[n]
  BY DEF AllShown
<1> HIDE DEF after
<1>7. \A i \in 0..n : after[i] = Turn(after, i)
  BY <1>5
<1>8. after[0] = s
  BY <1>7
<1>9. \A i \in 1..n : after[i] = ShownIfIdle(after[i - 1], order[i])
  BY <1>7
<1> QED BY <1>6, <1>8, <1>9


LEMMA AllShownFollows ==
    ASSUME TInv, trash \subseteq history, NEW s, Good(s), NEW t, t = AllShown(s)
    PROVE  Good(t) /\ Follows(s, t)
<1>0. PICK order : order = SetToSeq(Listed)
  OBVIOUS
<1> DEFINE n == Len(order)
<1>1. n \in Nat /\ \A k \in 1..n : order[k] \in Feeds
  <2>1. order \in Seq(Feeds)
    BY <1>0, RSSManagerAssumption, FS_Subset, SetToSeqEntries, WiderSeq DEF Listed
  <2> QED BY <2>1, LenProperties, ElementOfSeq
<1> HIDE DEF n
<1>2. PICK after :
        /\ after[0] = s
        /\ \A k \in 1..n : after[k] = ShownIfIdle(after[k - 1], order[k])
        /\ AllShown(s) = after[n]
  BY <1>0, <1>1, AllShownRun DEF n
<1> DEFINE Bad == {k \in 0..n : ~(Good(after[k]) /\ Follows(s, after[k]))}
<1>3. 0 \notin Bad
  BY <1>2 DEF Follows
<1>4. ASSUME NEW k \in 1..n, k - 1 \notin Bad PROVE k \notin Bad
  <2>1. k - 1 \in 0..n /\ Good(after[k - 1]) /\ Follows(s, after[k - 1])
    BY <1>1, <1>4
  <2>2. PICK u : u = after[k - 1]
    OBVIOUS
  <2>3. PICK w : w = after[k]
    OBVIOUS
  <2>4. PICK f \in Feeds : f = order[k]
    BY <1>1
  <2>5. w = ShownIfIdle(u, f)
    BY <1>2, <2>2, <2>3, <2>4
  <2>6. Good(u) /\ Follows(s, u)
    BY <2>1, <2>2
  <2>7. Good(w) /\ Follows(u, w)
    BY <2>5, <2>6, ShownFollows
  <2>8. Follows(s, w)
    BY <2>6, <2>7, FollowsTrans
  <2> QED BY <2>3, <2>7, <2>8
<1>5. Bad = {}
  <2> SUFFICES ASSUME Bad # {} PROVE FALSE
    OBVIOUS
  <2>1. Bad \in SUBSET Nat
    BY <1>1
  <2>2. PICK m \in Bad : \A j \in Bad : m <= j
    BY <2>1, LeastNumber
  <2>3. m \in 1..n
    BY <1>1, <1>3
  <2>4. m - 1 \notin Bad
    BY <2>1, <2>2
  <2> QED BY <1>4, <2>3, <2>4
<1>6. Good(after[n]) /\ Follows(s, after[n])
  BY <1>1, <1>5
<1> QED BY <1>2, <1>6


-----------------------------------------------------------------------------
(* The updates.                                                              *)
Alike(s, t) ==
    /\ t \in States
    /\ t.feed = s.feed /\ t.recent = s.recent /\ t.started = s.started
    /\ t.requests = s.requests /\ t.file = s.file

LEMMA AlikeGood ==
    ASSUME NEW s, Good(s), NEW t, Alike(s, t) PROVE Good(t)
<1>1. Claimed(s) /\ \A i \in s.started : t.recent[i] = "old"
  BY DEF Good, Claimed, Alike
<1>2. Claimed(t)
  BY <1>1, SameClaims DEF Alike
<1> QED BY <1>2 DEF Good, Alike

LEMMA AnswerIs ==
    ASSUME NEW b \in BOOLEAN, NEW n \in Nat
    PROVE  [current |-> b, stale |-> n] \in Answers /\ [current |-> b, stale |-> n].current = b
BY DEF Answers

LEMMA UpdateFeedDoes ==
    ASSUME NEW s, s \in States, NEW f \in Feeds, NEW t, t = UpdateFeed(s, f)
    PROVE  /\ Alike(s, t) /\ t.updates = s.updates
           /\ t.transfers[f].current
           /\ \A g \in Feeds : g # f => /\ t.transfers[g] = s.transfers[g]
                                        /\ t.progress[g] = s.progress[g]
<1>0. s.transfers[f].stale \in Nat
  BY DEF States, Answers
<1>9. PICK n \in Nat : n = s.transfers[f].stale + (IF s.transfers[f].current THEN 1 ELSE 0)
  <2>1. (IF s.transfers[f].current THEN 1 ELSE 0) \in Nat
    OBVIOUS
  <2> QED BY <1>0, <2>1
<1> DEFINE b == TRUE
<1>10. b \in BOOLEAN /\ b
  OBVIOUS
<1>11. b = TRUE
  OBVIOUS
<1> HIDE DEF b
<1>1. PICK a \in Answers : a = [current |-> b, stale |-> n]
  BY <1>10, AnswerIs
<1>12. a.current
  <2>1. a.current = b
    BY <1>1, <1>10, AnswerIs
  <2>2. a.current = TRUE
    BY <1>11, <2>1, Zenon
  <2> QED BY <2>2
<1>2. PICK p \in [Feeds -> Nat] : p = [s.progress EXCEPT ![f] = s.progress[f] + 1]
  <2>1. s.progress \in [Feeds -> Nat] /\ s.progress[f] + 1 \in Nat
    BY DEF States
  <2> QED BY <2>1
<1>3. PICK r \in [Feeds -> Answers] : r = [s.transfers EXCEPT ![f] = a]
  BY DEF States
<1>4. t = [s EXCEPT !.progress = p, !.transfers = r]
  BY <1>1, <1>2, <1>3, <1>9, <1>11 DEF UpdateFeed, States
<1>5. Alike(s, t) /\ t.updates = s.updates /\ t.progress = p /\ t.transfers = r
  BY <1>4 DEF States, Alike
<1>6. p[f] = s.progress[f] + 1 /\ \A g \in Feeds : g # f => p[g] = s.progress[g]
  BY <1>2 DEF States
<1>7. r[f] = a /\ \A g \in Feeds : g # f => r[g] = s.transfers[g]
  BY <1>3 DEF States
<1> QED BY <1>12, <1>5, <1>6, <1>7

LEMMA UpdateFeedGoes ==
    ASSUME NEW s, s \in States, Linked(s), NEW f \in Feeds, NEW t, t = UpdateFeed(s, f)
    PROVE  Alike(s, t) /\ Linked(t) /\ Going(t) /\ t.updates = s.updates
<1>1. /\ Alike(s, t) /\ t.updates = s.updates
      /\ t.transfers[f].current
      /\ \A g \in Feeds : g # f => /\ t.transfers[g] = s.transfers[g]
                                   /\ t.progress[g] = s.progress[g]
  BY UpdateFeedDoes
<1>2. Range(s.updates) \subseteq Feeds
  BY SeqEntries DEF States
<1> QED BY <1>1, <1>2 DEF Linked, Going, Alike

LEMMA RefreshChannelGoes ==
    ASSUME NEW s, s \in States, Linked(s), NEW f \in Feeds, NEW t, t = RefreshChannel(s, f)
    PROVE  /\ Alike(s, t) /\ Linked(t) /\ t.updates = s.updates
           /\ s.feed[f].listed \/ Going(s) => Going(t)
<1>1. CASE s.feed[f].listed
  BY <1>1, UpdateFeedGoes DEF RefreshChannel
<1>2. CASE ~s.feed[f].listed
  BY <1>2 DEF RefreshChannel, Alike
<1> QED BY <1>1, <1>2

(* A channel taken out of m_UpdateQueue is one whose answer is to come, or   *)
(* one that is listed and is updated now.                                    *)
LEMMA UpdateNextFeedGoes ==
    ASSUME NEW s, s \in States, Linked(s), NEW t, t = UpdateNextFeed(s)
    PROVE  Alike(s, t) /\ Linked(t) /\ Going(t)
<1>0. s.updates \in Seq(Feeds)
  BY DEF States
<1>1. CASE s.updates = <<>>
  BY <1>1 DEF UpdateNextFeed, Alike, Going
<1>2. CASE s.updates # <<>>
  <2>1. PICK q \in Seq(Feeds) : q = Tail(s.updates)
    BY <1>0, <1>2, HeadAndTail
  <2>2. PICK f \in Feeds : f = Head(s.updates)
    BY <1>0, <1>2, HeadAndTail
  <2>3. f \in Range(s.updates) /\ Range(q) \subseteq Range(s.updates)
    BY <1>0, <1>2, <2>1, <2>2, HeadAndTail
  <2>4. IsInjective(q)
    BY <1>0, <1>2, <2>1, TailOfDistinct DEF Linked
  <2>5. PICK u : u = [s EXCEPT !.updates = q]
    OBVIOUS
  <2>6. /\ Alike(s, u) /\ u.updates = q
        /\ u.transfers = s.transfers /\ u.progress = s.progress
    BY <2>5 DEF States, Alike
  <2>7. Linked(u)
    BY <2>3, <2>4, <2>6 DEF Linked, Alike
  <2>8. t = IF IsInProgress(s, f) THEN u ELSE RefreshChannel(u, f)
    BY <1>2, <2>1, <2>2, <2>5 DEF UpdateNextFeed
  <2>9. CASE IsInProgress(s, f)
    <3>1. s.transfers[f].current
      BY <2>3, <2>9 DEF Linked, IsInProgress
    <3> QED BY <2>6, <2>7, <2>8, <2>9, <3>1 DEF Going
  <2>10. CASE ~IsInProgress(s, f)
    <3>1. t = RefreshChannel(u, f) /\ u.feed[f].listed /\ u \in States
      BY <2>3, <2>6, <2>8, <2>10 DEF Linked, Alike
    <3>2. Alike(u, t) /\ Linked(t) /\ Going(t)
      BY <2>7, <3>1, RefreshChannelGoes
    <3> QED BY <2>6, <3>2 DEF Alike
  <2> QED BY <2>9, <2>10
<1> QED BY <1>1, <1>2

(* What a call leaves of the updates for UpdateNextFeed.                     *)
LEMMA LinkedFollows ==
    ASSUME NEW s, NEW t, s \in States, Linked(s), Follows(s, t)
    PROVE  Linked(t) /\ (Going(s) => Going(t))
<1>1. Range(s.updates) \subseteq Feeds
  BY SeqEntries DEF States
<1> QED BY <1>1 DEF Linked, Going, Follows

(* The end of Notify.                                                        *)
Ended(s, f) ==
    [s EXCEPT !.feed[f].refreshed = TRUE, !.feed[f].due = FALSE,
              !.progress[f] = 0, !.transfers[f].current = FALSE]

LEMMA EndedDoes ==
    ASSUME NEW s, Good(s), Linked(s), NEW f \in Feeds, NEW t, t = Ended(s, f)
    PROVE  /\ Good(t) /\ Linked(t)
           /\ t.recent = s.recent /\ t.requests = s.requests
<1>0. s \in States /\ Paged(s.feed) /\ Len(s.requests) <= MaxRequests
  BY DEF Good
<1>1. PICK g \in FeedSet : g = [s.feed[f] EXCEPT !.refreshed = TRUE, !.due = FALSE]
  BY <1>0 DEF States, FeedSet
<1>2. g.listed = s.feed[f].listed /\ g.loaded = s.feed[f].loaded /\ g.page = s.feed[f].page
  BY <1>0, <1>1 DEF States, FeedSet
<1>3. PICK feeds \in [Feeds -> FeedSet] : feeds = [s.feed EXCEPT ![f] = g]
  BY <1>0 DEF States
<1>4. PICK p \in [Feeds -> Nat] : p = [s.progress EXCEPT ![f] = 0]
  BY <1>0 DEF States
<1>5. PICK a \in Answers : a = [s.transfers[f] EXCEPT !.current = FALSE]
  BY <1>0 DEF States, Answers
<1>6. PICK r \in [Feeds -> Answers] : r = [s.transfers EXCEPT ![f] = a]
  BY <1>0 DEF States
<1>7. t = [s EXCEPT !.feed = feeds, !.progress = p, !.transfers = r]
  <2>1. feeds = [s.feed EXCEPT ![f].refreshed = TRUE, ![f].due = FALSE]
    BY <1>0, <1>1, <1>3 DEF States, FeedSet
  <2>2. r = [s.transfers EXCEPT ![f].current = FALSE]
    BY <1>0, <1>5, <1>6 DEF States, Answers
  <2>3. t = [s EXCEPT !.feed = [s.feed EXCEPT ![f].refreshed = TRUE, ![f].due = FALSE],
                      !.progress = [s.progress EXCEPT ![f] = 0],
                      !.transfers = [s.transfers EXCEPT ![f].current = FALSE]]
    BY <1>0 DEF Ended, States
  <2> QED BY <1>4, <2>1, <2>2, <2>3
<1>8. /\ t \in States
      /\ t.feed = feeds /\ t.progress = p /\ t.transfers = r
      /\ t.recent = s.recent /\ t.updates = s.updates
      /\ t.started = s.started /\ t.requests = s.requests /\ t.file = s.file
  BY <1>0, <1>7 DEF States
<1>9. /\ feeds[f] = g /\ p[f] = 0
      /\ \A h \in Feeds : h # f => /\ feeds[h] = s.feed[h] /\ p[h] = s.progress[h]
                                   /\ r[h] = s.transfers[h]
  BY <1>0, <1>3, <1>4, <1>6 DEF States
<1>10. Good(t)
  <2>1. Paged(t.feed)
    BY <1>0, <1>2, <1>8, <1>9 DEF Paged
  <2>2. Claimed(s) /\ \A i \in s.started : t.recent[i] = "old"
    BY <1>8 DEF Good, Claimed
  <2>3. Claimed(t)
    BY <1>8, <2>2, SameClaims
  <2> QED BY <1>0, <1>8, <2>1, <2>3 DEF Good
<1>11. Linked(t)
  <2>1. Range(s.updates) \subseteq Feeds
    BY <1>0, SeqEntries DEF States
  <2>2. \A h \in Feeds : t.feed[h].listed = s.feed[h].listed
    BY <1>2, <1>8, <1>9
  <2>3. \A h \in Feeds : t.progress[h] > 0 =>
          h # f /\ t.progress[h] = s.progress[h] /\ t.transfers[h] = s.transfers[h]
    BY <1>8, <1>9
  <2> QED BY <1>8, <2>1, <2>2, <2>3 DEF Linked
<1> QED BY <1>8, <1>10, <1>11

LEMMA AnsweredGoes ==
    ASSUME Inv, NEW f \in Feeds, NEW ok \in BOOLEAN, NEW t, t = Answered(f, ok)
    PROVE  /\ Good(t) /\ Linked(t) /\ Going(t)
           /\ \A i \in Items : recent[i] = "old" => t.recent[i] = "old"
           /\ \A i \in Items : recent[i] = "old" \/ i \in history =>
                 Places(t.requests, i) = Places(requests, i)
<1>0. TInv /\ trash \subseteq history /\ Good(State) /\ Linked(State)
  BY StateGood DEF Inv, Remembered
<1>1. /\ State.recent = recent /\ State.requests = requests /\ State \in States
      /\ State.feed = feed
  BY <1>0 DEF State, Good
<1>2. \E u : /\ Good(u) /\ Follows(State, u)
             /\ t = UpdateNextFeed(Ended(u, f))
  <2>1. CASE ~ok
    BY <1>0, <2>1 DEF Answered, Ended, Follows
  <2>2. CASE ok
    <3>1. PICK page \in SUBSET Items : page = {i \in published : FeedOf[i] = f}
      BY <1>0 DEF TInv
    <3>2. PICK g \in FeedSet : g = [feed[f] EXCEPT !.page = page]
      BY <1>0 DEF TInv, FeedSet
    <3>3. g.loaded = feed[f].loaded /\ g.listed = feed[f].listed /\ g.page = page
      BY <1>0, <3>2 DEF TInv, FeedSet
    <3>4. g.page # None
      BY <3>3, NoneAssumption
    <3>5. PICK a : a = Refeed(State, recent, f, g)
      OBVIOUS
    <3>6. Good(a) /\ Follows(State, a)
      BY <1>0, <1>1, <3>3, <3>4, <3>5, Refed DEF TInv
    <3>7. PICK b : b = LoadRSS(a, f)
      OBVIOUS
    <3>8. Good(b) /\ Follows(a, b)
      BY <1>0, <3>6, <3>7, LoadRSSFollows
    <3>9. b \in States
      BY <3>8 DEF Good
    <3>10. PICK h \in FeedSet : h = [b.feed[f] EXCEPT !.loaded = FALSE]
      BY <3>9 DEF States, FeedSet
    <3>11. ~h.loaded /\ h.listed = b.feed[f].listed /\ b.recent \in [Items -> Seen]
      BY <3>9, <3>10 DEF States, FeedSet
    <3>12. PICK c : c = Refeed(b, b.recent, f, h)
      OBVIOUS
    <3>13. Good(c) /\ Follows(b, c)
      BY <3>8, <3>11, <3>12, Refed
    <3>14. a = [State EXCEPT !.feed[f].page = page]
      BY <1>1, <3>2, <3>5 DEF Refeed, State
    <3>15. c = [b EXCEPT !.feed[f].loaded = FALSE]
      BY <3>9, <3>10, <3>12 DEF Refeed, States
    <3>16. t = UpdateNextFeed(Ended(c, f))
      BY <2>2, <3>1, <3>7, <3>14, <3>15 DEF Answered, Ended
    <3>17. Follows(State, c)
      BY <3>6, <3>8, <3>13, FollowsTrans
    <3> QED BY <3>13, <3>16, <3>17
  <2> QED BY <2>1, <2>2
<1>3. PICK u : /\ Good(u) /\ Follows(State, u)
               /\ t = UpdateNextFeed(Ended(u, f))
  BY <1>2
<1>4. Linked(u)
  BY <1>0, <1>1, <1>3, LinkedFollows
<1>5. PICK e : e = Ended(u, f)
  OBVIOUS
<1>6. Good(e) /\ Linked(e) /\ e.recent = u.recent /\ e.requests = u.requests
  BY <1>3, <1>4, <1>5, EndedDoes
<1>7. Alike(e, t) /\ Linked(t) /\ Going(t)
  BY <1>3, <1>5, <1>6, UpdateNextFeedGoes DEF Good
<1>8. Good(t) /\ t.recent = u.recent /\ t.requests = u.requests
  BY <1>6, <1>7, AlikeGood DEF Alike
<1> QED BY <1>1, <1>3, <1>7, <1>8 DEF Follows


-----------------------------------------------------------------------------
(* The calls that may download an item.                                      *)
LEMMA CallIs ==
    ASSUME NEW c \in Call
    PROVE  /\ c.do \in {"Notify", "LockChannel", "SetChannelOptions", "LockChannels",
                        "DownloadItem"}
           /\ c.do \in {"Notify", "LockChannel", "SetChannelOptions"} => c.f \in Feeds
           /\ c.do = "DownloadItem" => c.i \in Items
           /\ c # None
BY NoneAssumption DEF Call

(* The items such a call does not ask for.                                   *)
Spared(c) == {i \in Items : /\ c.do = "DownloadItem" => i # c.i
                            /\ recent[i] = "old" \/ i \in history}

LEMMA AfterGoes ==
    ASSUME Inv, NEW c \in Call, waiting = c \/ Called(c), NEW t, t = After(c)
    PROVE  /\ Good(t) /\ Linked(t) /\ Going(t)
           /\ \A i \in Items : recent[i] = "old" => t.recent[i] = "old"
           /\ \A i \in Spared(c) : Places(t.requests, i) = Places(requests, i)
<1>0. TInv /\ trash \subseteq history /\ Good(State) /\ Linked(State) /\ Going(State)
  BY StateGood DEF Inv, Remembered
<1>1. State.recent = recent /\ State.requests = requests /\ State \in States
      /\ State.started = started
  BY <1>0 DEF State, Good
<1>2. CASE c.do = "Notify"
  <2>1. c.f \in Feeds
    BY <1>2, CallIs
  <2>2. t = Answered(c.f, TRUE)
    BY <1>2 DEF After
  <2>3. /\ Good(t) /\ Linked(t) /\ Going(t)
        /\ \A i \in Items : recent[i] = "old" => t.recent[i] = "old"
        /\ \A i \in Items : recent[i] = "old" \/ i \in history =>
              Places(t.requests, i) = Places(requests, i)
    BY <2>1, <2>2, AnsweredGoes
  <2> QED BY <2>3 DEF Spared
<1>3. ASSUME Good(t), Follows(State, t)
      PROVE  /\ Good(t) /\ Linked(t) /\ Going(t)
             /\ \A i \in Items : recent[i] = "old" => t.recent[i] = "old"
             /\ \A i \in Spared(c) : Places(t.requests, i) = Places(requests, i)
  BY <1>0, <1>1, <1>3, LinkedFollows DEF Follows, Spared
<1>4. CASE c.do = "LockChannel"
  BY <1>0, <1>3, <1>4, CallIs, ShownFollows DEF After
<1>5. CASE c.do = "LockChannels"
  BY <1>0, <1>3, <1>5, AllShownFollows DEF After
<1>6. CASE c.do = "SetChannelOptions"
  BY <1>0, <1>3, <1>6, CallIs, LoadRSSFollows DEF After
<1>7. CASE c.do = "DownloadItem"
  <2>1. PICK i \in Items : i = c.i
    BY <1>7, CallIs
  <2>2. /\ May("twice") \/ i \notin started \cup history
        /\ Kind[i] = "media" => FreeCopies(State, i) # {}
    <3>1. CASE waiting = c
      BY <1>7, <2>1, <3>1, CallIs DEF Inv, Remembered
    <3>2. CASE Called(c)
      <4>1. /\ May("twice") \/ i \notin started \cup history
            /\ Kind[i] = "media" => Cardinality(FreeCopies(State, i)) > 1
        BY <1>7, <2>1, <3>2 DEF Called
      <4>2. ~(0 > 1)
        OBVIOUS
      <4> QED BY <4>1, <4>2, FS_EmptySet
    <3> QED BY <3>1, <3>2
  <2>3. t = DownloadItem(State, i)
    BY <1>7, <2>1 DEF After
  <2>4. Taken(State, t, i)
    BY <1>0, <1>1, <2>2, <2>3, DownloadItemDoes DEF Good
  <2>5. Good(t)
    BY <1>0, <1>1, <2>2, <2>4, TakenGood
  <2>6. /\ t.transfers = State.transfers /\ t.updates = State.updates
        /\ t.progress = State.progress /\ t.feed = State.feed
        /\ \A j \in Items : recent[j] = "old" => t.recent[j] = "old"
        /\ \A j \in Items : j # i => Places(t.requests, j) = Places(requests, j)
    BY <1>1, <2>4, TakenFollows
  <2>7. Linked(t) /\ Going(t)
    BY <1>0, <2>6 DEF Linked, Going
  <2> QED BY <1>7, <2>1, <2>5, <2>6, <2>7 DEF Spared
<1> QED BY <1>2, <1>4, <1>5, <1>6, <1>7, CallIs

-----------------------------------------------------------------------------
(* The steps.                                                                *)
LEMMA CommitGoes ==
    ASSUME NEW s, Commit(s), world' = world, Linked(s), Going(s)
    PROVE  Linked(State)' /\ Going(State)'
<1>1. /\ State.feed' = s.feed /\ State.updates' = s.updates
      /\ State.progress' = s.progress /\ State.transfers' = s.transfers
  BY DEF State, Commit
<1> QED BY <1>1 DEF Linked, Going, May

LEMMA CommitClaims ==
    ASSUME NEW s, Claimed(s), Commit(s), trash' \subseteq trash,
           UNCHANGED <<fetching, loading, video, history, world, torn>>
    PROVE  Claimed(State)'
<1>1. /\ State.file' = s.file /\ State.requests' = s.requests
      /\ State.started' = s.started /\ State.recent' = s.recent
  BY DEF State, Commit
<1>2. /\ \A v : Fetching(v)' <=> Fetching(v)
      /\ \A v : Loading(v)' <=> Loading(v)
      /\ Collection' = Collection
      /\ \A liberty : May(liberty)' <=> May(liberty)
  BY DEF Fetching, Loading, Collection, May
<1>3. \A v : Around(State, v)' <=> Around(s, v)
  BY <1>1, <1>2 DEF Around
<1>4. Single(s) => Single(State)'
  BY <1>1, <1>2 DEF Single
<1>5. Neat' <=> Neat
  BY <1>2 DEF Neat
<1>6. \A v \in Video : Around(State, v)' => Item(v) \in State.started' \cup history'
  BY <1>1, <1>3 DEF Claimed
<1>7. /\ \A i \in State.started' : State.recent'[i] = "old"
      /\ \A v \in Range(State.requests') : Kind[Item(v)] = "mtti" => v[2] = 1
  BY <1>1 DEF Claimed
<1>8. ~May("twice")' => \A v, w \in Video :
          Around(State, v)' /\ Around(State, w)' /\ Item(v) = Item(w) => v = w
  BY <1>2, <1>3 DEF Claimed
<1> QED BY <1>4, <1>5, <1>6, <1>7, <1>8 DEF Claimed

LEMMA SaveIndexDoes ==
    ASSUME NEW files \in Index, NEW feeds \in [Feeds -> FeedSet],
           NEW seen \in [Items -> Seen], NEW ok \in Written,
           NEW t, t = SaveIndex(files, feeds, seen, ok)
    PROVE  /\ t \in Index /\ t.history = files.history
           /\ t.recent = IF ok.uid THEN seen ELSE files.recent
           /\ ok.ini \/ May("unsaved")
<1>1. PICK a \in [Items -> Seen] : a = IF ok.uid THEN seen ELSE files.recent
  BY DEF Index
<1>2. PICK b \in [Feeds -> FeedSet] : b = IF ok.ini THEN feeds ELSE files.feed
  BY DEF Index
<1>3. t = [files EXCEPT !.recent = a, !.feed = b]
  BY <1>1, <1>2 DEF SaveIndex, Index
<1>4. t \in Index /\ t.history = files.history /\ t.recent = a
  BY <1>3 DEF Index
<1>5. ok.ini \/ May("unsaved")
  BY DEF Written
<1> QED BY <1>1, <1>4, <1>5


(* A step of the feeds: it leaves the videos and the requests alone.         *)
LEMMA FeedsStep ==
    ASSUME Inv,
           UNCHANGED <<fetching, loading, mgr, requests, file, started, published, world>>,
           UNCHANGED <<trash, torn>>,
           waiting' = waiting,
           feed' \in [Feeds -> FeedSet], Paged(feed'),
           recent' \in [Items -> Seen], \A i \in Items : recent[i] = "old" => recent'[i] = "old",
           transfers' \in [Feeds -> Answers], updates' \in Seq(Feeds), progress' \in [Feeds -> Nat],
           saved' \in Index, saved'.history = saved.history,
           \A i \in Items :
              recent[i] = "old" /\ saved.recent[i] = "old" => saved'.recent[i] = "old",
           settled' \in SUBSET Items,
           \A i \in settled' :
              i \in settled \/ (recent'[i] = "old" /\ saved'.recent[i] = "old"),
           Linked(State)', Going(State)'
    PROVE  Inv'
<1>1. TInv'
  BY DEF Inv, TInv, mgr
<1>2. Claimed(State)'
  <2>1. /\ State.file' = State.file /\ State.requests' = State.requests
        /\ State.started' = State.started
        /\ State.recent' = recent' /\ State.recent = recent /\ State.started = started
    BY DEF State
  <2>2. /\ \A v : Fetching(v)' <=> Fetching(v)
        /\ \A v : Loading(v)' <=> Loading(v)
        /\ Collection' = Collection
        /\ \A liberty : May(liberty)' <=> May(liberty)
    BY DEF Fetching, Loading, Collection, May, mgr
  <2>3. \A v : Around(State, v)' <=> Around(State, v)
    BY <2>1, <2>2 DEF Around
  <2>4. Single(State)' <=> Single(State)
    BY <2>1, <2>2 DEF Single, mgr
  <2>5. Neat' <=> Neat
    BY <2>2 DEF Neat
  <2>6. history' = history /\ Claimed(State)
    BY DEF Inv, mgr
  <2>7. \A i \in State.started' : State.recent'[i] = "old"
    <3>1. started \subseteq Items
      BY DEF Inv, TInv
    <3> QED BY <2>1, <2>6, <3>1 DEF Claimed
  <2>8. \A v \in Video : Around(State, v)' => Item(v) \in State.started' \cup history'
    BY <2>1, <2>3, <2>6 DEF Claimed
  <2>9. \A v \in Range(State.requests') : Kind[Item(v)] = "mtti" => v[2] = 1
    BY <2>1, <2>6 DEF Claimed
  <2>10. ~May("twice")' => \A v, w \in Video :
            Around(State, v)' /\ Around(State, w)' /\ Item(v) = Item(w) => v = w
    BY <2>2, <2>3, <2>6 DEF Claimed
  <2> QED BY <2>4, <2>5, <2>6, <2>7, <2>8, <2>9, <2>10 DEF Claimed
<1>3. Remembered'
  <2>1. Remembered /\ settled' \subseteq Items
    BY DEF Inv
  <2>2. Collection' = Collection /\ history' = history /\ (May("twice")' <=> May("twice"))
    BY DEF Collection, mgr, May
  <2>3. \A i \in settled' : \/ i \in history'
                            \/ recent'[i] = "old" /\ saved'.recent[i] = "old"
    BY <2>1, <2>2 DEF Remembered
  <2> QED BY <2>1, <2>2, <2>3 DEF Remembered
<1> QED BY <1>1, <1>2, <1>3 DEF Inv

(* The same for a step that commits a record.                                *)
LEMMA CommitStep ==
    ASSUME Inv, NEW s, s \in States, Commit(s), Paged(s.feed), Linked(s), Going(s),
           s.requests = requests, s.file = file, s.started = started, s.recent = recent,
           UNCHANGED <<fetching, waiting, loading, mgr, published, world, settled, trash, torn>>,
           saved' \in Index, saved'.history = saved.history,
           \A i \in Items : recent[i] = "old" /\ saved.recent[i] = "old" => saved'.recent[i] = "old"
    PROVE  Inv' /\ requests' = requests
<1>1. Linked(State)' /\ Going(State)'
  BY CommitGoes
<1>2. /\ feed' = s.feed /\ recent' = s.recent /\ transfers' = s.transfers
      /\ updates' = s.updates /\ progress' = s.progress
      /\ requests' = requests /\ file' = file /\ started' = started
  BY DEF Commit
<1>3. /\ feed' \in [Feeds -> FeedSet] /\ recent' \in [Items -> Seen]
      /\ transfers' \in [Feeds -> Answers] /\ updates' \in Seq(Feeds)
      /\ progress' \in [Feeds -> Nat]
  BY <1>2 DEF States
<1>4. settled' \in SUBSET Items
  BY DEF Inv, TInv
<1> QED BY <1>1, <1>2, <1>3, <1>4, FeedsStep

LEMMA SavedTyped ==
    ASSUME Inv PROVE /\ saved \in Index /\ feed \in [Feeds -> FeedSet]
                     /\ recent \in [Items -> Seen] /\ Paged(feed)
                     /\ State.feed = feed /\ State.recent = recent
                     /\ State.requests = requests /\ State.file = file
                     /\ State.started = started /\ State.updates = updates
                     /\ State.transfers = transfers /\ State.progress = progress
                     /\ State \in States
BY StateGood DEF Inv, TInv, State, Good

LEMMA NewFeedTyped ==
    /\ NewFeed \in FeedSet /\ ~NewFeed.loaded /\ NewFeed.listed
    /\ NoFeed \in FeedSet /\ ~NoFeed.loaded /\ ~NoFeed.listed
BY DEF NewFeed, NoFeed, FeedSet

-----------------------------------------------------------------------------
(* The steps of the user and of the servers on the feeds.                    *)
LEMMA KeptIndex ==
    ASSUME NEW ok \in Written, NEW files \in Index, NEW feeds \in [Feeds -> FeedSet],
           NEW seen \in [Items -> Seen], \A i \in Items : recent[i] = "old" => seen[i] = "old",
           saved' = SaveIndex(files, feeds, seen, ok)
    PROVE  /\ saved' \in Index /\ saved'.history = files.history
           /\ \A i \in Items : recent[i] = "old" /\ files.recent[i] = "old"
                               => saved'.recent[i] = "old"
           /\ ok.uid => saved'.recent = seen
           /\ ok.ini \/ May("unsaved")
BY SaveIndexDoes

LEMMA AddFeedKeeps ==
    ASSUME Inv, NEW f \in Feeds, AddFeed(f)
    PROVE  Inv' /\ requests' = requests
<1>0. Linked(State) /\ Going(State)
  BY DEF Inv
<1>1. PICK s : s = [State EXCEPT !.feed[f] = NewFeed]
  OBVIOUS
<1>2. PICK ok \in Written : /\ saved' = SaveIndex(saved, s.feed, recent, ok)
                            /\ Commit(IF ok.ini THEN UpdateFeed(s, f) ELSE s)
  BY <1>1 DEF AddFeed
<1>3. PICK feeds : feeds = [feed EXCEPT ![f] = NewFeed]
  OBVIOUS
<1>4. /\ feeds \in [Feeds -> FeedSet] /\ feeds[f] = NewFeed
      /\ \A g \in Feeds : g # f => feeds[g] = feed[g]
  BY <1>3, SavedTyped, NewFeedTyped
<1>5. s = [State EXCEPT !.feed = feeds]
  BY <1>1, <1>3, SavedTyped
<1>6. /\ s \in States /\ s.feed = feeds /\ s.requests = requests /\ s.file = file
      /\ s.started = started /\ s.recent = recent /\ s.updates = updates
      /\ s.transfers = transfers /\ s.progress = progress
  BY <1>4, <1>5, SavedTyped DEF States
<1>7. Paged(feeds)
  BY <1>4, SavedTyped, NewFeedTyped DEF Paged
<1>8. /\ saved' \in Index /\ saved'.history = saved.history
      /\ \A i \in Items : recent[i] = "old" /\ saved.recent[i] = "old" => saved'.recent[i] = "old"
      /\ ok.ini \/ May("unsaved")
  BY <1>2, <1>4, <1>6, SavedTyped, KeptIndex
<1>9. Range(updates) \subseteq Feeds /\ f \notin Range(updates)
  <2>1. Range(updates) \subseteq Feeds
    BY SeqEntries DEF Inv, TInv
  <2>2. ~feed[f].listed
    BY DEF AddFeed, Listed
  <2> QED BY <1>0, <2>1, <2>2, SavedTyped DEF Linked
<1>10. PICK t : t = IF ok.ini THEN UpdateFeed(s, f) ELSE s
  OBVIOUS
<1>11. Alike(s, t) /\ Linked(t) /\ Going(t)
  <2>1. CASE ok.ini
    <3>1. t = UpdateFeed(s, f)
      BY <1>10, <2>1
    <3>2. /\ Alike(s, t) /\ t.updates = s.updates /\ t.transfers[f].current
          /\ \A g \in Feeds : g # f => /\ t.transfers[g] = s.transfers[g]
                                       /\ t.progress[g] = s.progress[g]
      BY <1>6, <3>1, UpdateFeedDoes
    <3>3. t.feed = feeds
      BY <1>6, <3>2 DEF Alike
    <3> QED BY <1>0, <1>4, <1>6, <1>9, <3>2, <3>3, SavedTyped DEF Linked, Going
  <2>2. CASE ~ok.ini
    BY <1>0, <1>4, <1>6, <1>8, <1>9, <1>10, <2>2, SavedTyped DEF Linked, Going, Alike
  <2> QED BY <2>1, <2>2
<1>12. Commit(t)
  BY <1>2, <1>10
<1>13. /\ t \in States /\ t.feed = feeds /\ t.requests = requests /\ t.file = file
       /\ t.started = started /\ t.recent = recent
  BY <1>6, <1>11 DEF Alike
<1>14. UNCHANGED <<fetching, waiting, loading, mgr, published, world, settled, trash, torn>>
  BY DEF AddFeed, Else
<1> QED BY <1>7, <1>8, <1>11, <1>12, <1>13, <1>14, CommitStep

LEMMA RssKept ==
    ASSUME Inv, UNCHANGED <<rss, world>> PROVE Linked(State)' /\ Going(State)'
<1>1. /\ State.feed' = State.feed /\ State.updates' = State.updates
      /\ State.progress' = State.progress /\ State.transfers' = State.transfers
  BY DEF State, rss
<1> QED BY <1>1 DEF Inv, Linked, Going, May

LEMMA NameFeedKeeps ==
    ASSUME Inv, NEW f \in Feeds, NameFeed(f)
    PROVE  Inv' /\ requests' = requests
<1>1. PICK ok \in Written : saved' = SaveIndex(saved, feed, recent, ok)
  BY DEF NameFeed
<1>2. /\ saved' \in Index /\ saved'.history = saved.history
      /\ \A i \in Items : recent[i] = "old" /\ saved.recent[i] = "old" => saved'.recent[i] = "old"
  BY <1>1, SavedTyped, KeptIndex
<1>3. /\ UNCHANGED <<rss, fetching, loading, mgr, requests, file, started, published, world>>
      /\ UNCHANGED <<trash, torn>>
      /\ waiting' = waiting /\ settled' = settled
  BY DEF NameFeed, Else
<1>4. Linked(State)' /\ Going(State)'
  BY <1>3, RssKept
<1>5. /\ feed' \in [Feeds -> FeedSet] /\ Paged(feed') /\ recent' \in [Items -> Seen]
      /\ transfers' \in [Feeds -> Answers] /\ updates' \in Seq(Feeds)
      /\ progress' \in [Feeds -> Nat] /\ settled' \in SUBSET Items /\ recent' = recent
  BY <1>3 DEF rss, Inv, TInv
<1> QED BY <1>2, <1>3, <1>4, <1>5, FeedsStep

LEMMA RefreshKeeps ==
    ASSUME Inv, NEW f \in Feeds, Refresh(f)
    PROVE  Inv' /\ requests' = requests
<1>1. PICK t : t = RefreshChannel(State, f)
  OBVIOUS
<1>2. Alike(State, t) /\ Linked(t) /\ Going(t)
  BY <1>1, SavedTyped, RefreshChannelGoes DEF Inv
<1>3. /\ Commit(t) /\ saved' = saved
      /\ UNCHANGED <<fetching, waiting, loading, mgr, published, world, settled, trash, torn>>
  BY <1>1 DEF Refresh, Else
<1> QED BY <1>2, <1>3, SavedTyped, CommitStep DEF Alike

LEMMA NotifyFailedKeeps ==
    ASSUME Inv, NEW f \in Feeds, NotifyFailed(f)
    PROVE  Inv' /\ requests' = requests
<1> DEFINE b == FALSE
<1>0. b \in BOOLEAN
  OBVIOUS
<1>1. PICK t : t = UpdateNextFeed(Ended(State, f))
  OBVIOUS
<1>2. Commit(t)
  BY <1>1 DEF NotifyFailed, Answered, Ended
<1>3. PICK e : e = Ended(State, f)
  OBVIOUS
<1>4. /\ Good(e) /\ Linked(e) /\ e.recent = recent /\ e.requests = requests
  BY <1>3, SavedTyped, StateGood, EndedDoes DEF Inv
<1>5. Alike(e, t) /\ Linked(t) /\ Going(t)
  BY <1>1, <1>3, <1>4, UpdateNextFeedGoes DEF Good
<1>6. e.file = file /\ e.started = started /\ Paged(e.feed)
  BY <1>3, <1>4, SavedTyped DEF Ended, States, Good
<1>7. /\ saved' = saved
      /\ UNCHANGED <<fetching, waiting, loading, mgr, published, world, settled, trash, torn>>
  BY DEF NotifyFailed, Else
<1> QED BY <1>2, <1>4, <1>5, <1>6, <1>7, SavedTyped, CommitStep DEF Alike

LEMMA RemoveChannelKeeps ==
    ASSUME Inv, NEW f \in Feeds, RemoveChannel(f)
    PROVE  Inv' /\ requests' = requests
<1>0. Linked(State) /\ Going(State)
  BY DEF Inv
<1>1. PICK feeds : feeds = [feed EXCEPT ![f] = NoFeed]
  OBVIOUS
<1>2. /\ feeds \in [Feeds -> FeedSet] /\ feeds[f] = NoFeed
      /\ \A g \in Feeds : g # f => feeds[g] = feed[g]
  BY <1>1, SavedTyped, NewFeedTyped
<1>3. PICK q \in Seq(Feeds) : q = RemoveFirst(updates, f)
  BY RemovedFirst DEF Inv, TInv
<1>4. IsInjective(q) /\ Range(q) = Range(updates) \ {f} /\ Range(updates) \subseteq Feeds
  BY <1>0, <1>3, SavedTyped, RemovedFirst, SeqEntries DEF Inv, TInv, Linked
<1>5. PICK n \in Nat : n = transfers[f].stale + (IF transfers[f].current THEN 1 ELSE 0)
  <2>1. (IF transfers[f].current THEN 1 ELSE 0) \in Nat
    OBVIOUS
  <2>2. transfers[f].stale \in Nat
    BY DEF Inv, TInv, Answers
  <2> QED BY <2>1, <2>2
<1> DEFINE b == FALSE
<1>6. b \in BOOLEAN /\ b = FALSE
  OBVIOUS
<1> HIDE DEF b
<1>7. PICK a \in Answers : a = [current |-> b, stale |-> n]
  BY <1>6, AnswerIs
<1>8. PICK r \in [Feeds -> Answers] : r = [transfers EXCEPT ![f] = a]
  BY DEF Inv, TInv
<1>9. r[f].stale = n /\ \A g \in Feeds : g # f => r[g] = transfers[g]
  BY <1>7, <1>8 DEF Inv, TInv
<1>10. PICK s : s = [State EXCEPT !.feed = feeds, !.updates = q, !.transfers = r]
  OBVIOUS
<1>11. /\ s \in States /\ s.feed = feeds /\ s.requests = requests /\ s.file = file
       /\ s.started = started /\ s.recent = recent /\ s.updates = q
       /\ s.transfers = r /\ s.progress = progress
  BY <1>2, <1>10, SavedTyped DEF States
<1>12. Commit(s) /\ \E ok \in Written : saved' = SaveIndex(saved, s.feed, recent, ok)
  <2>1. r = [transfers EXCEPT ![f] = [current |-> FALSE, stale |-> n]]
    BY <1>6, <1>7, <1>8
  <2>2. s = [State EXCEPT
                   !.feed[f] = NoFeed,
                   !.updates = RemoveFirst(@, f),
                   !.transfers[f] = [current |-> FALSE,
                        stale |-> transfers[f].stale
                                  + (IF transfers[f].current THEN 1 ELSE 0)]]
    BY <1>1, <1>3, <1>5, <1>10, <2>1, SavedTyped
  <2> QED BY <2>2 DEF RemoveChannel
<1>13. Paged(feeds)
  BY <1>2, SavedTyped, NewFeedTyped DEF Paged
<1>14. Linked(s)
  <2>1. ~feeds[f].listed
    BY <1>2, NewFeedTyped
  <2> QED BY <1>0, <1>2, <1>4, <1>9, <1>11, <2>1, SavedTyped DEF Linked
<1>15. Going(s)
  <2>1. ASSUME q # <<>>
        PROVE  \E g \in Feeds : r[g].current \/ r[g].stale > 0
    <3>1. updates # <<>>
      <4>1. Range(q) # {}
        <5>1. Head(q) \in Range(q)
          BY <2>1, HeadAndTail
        <5> QED BY <5>1
      <4>2. Range(updates) # {}
        BY <1>4, <4>1
      <4> QED BY <4>2, NoEntries
    <3>2. PICK g \in Feeds : transfers[g].current \/ transfers[g].stale > 0
      BY <1>0, <3>1, SavedTyped DEF Going
    <3>3. CASE g # f
      BY <1>9, <3>2, <3>3
    <3>4. CASE g = f
      <4>1. transfers[f].stale \in Nat
        BY DEF Inv, TInv, Answers
      <4>2. n > 0
        BY <1>5, <3>2, <3>4, <4>1
      <4> QED BY <1>9, <4>2
    <3> QED BY <3>3, <3>4
  <2> QED BY <1>11, <2>1 DEF Going
<1>16. /\ saved' \in Index /\ saved'.history = saved.history
       /\ \A i \in Items : recent[i] = "old" /\ saved.recent[i] = "old" => saved'.recent[i] = "old"
  BY <1>2, <1>11, <1>12, SavedTyped, KeptIndex
<1>17. UNCHANGED <<fetching, waiting, loading, mgr, published, world, settled, trash, torn>>
  BY DEF RemoveChannel, Else
<1> QED BY <1>11, <1>12, <1>13, <1>14, <1>15, <1>16, <1>17, CommitStep

LEMMA NotifyStaleKeeps ==
    ASSUME Inv, NEW f \in Feeds, NotifyStale(f)
    PROVE  Inv' /\ requests' = requests
<1>1. PICK n \in Nat : n = transfers[f].stale - 1
  BY DEF NotifyStale, Inv, TInv, Answers
<1>2. PICK a \in Answers : a = [transfers[f] EXCEPT !.stale = n]
  BY DEF Inv, TInv, Answers
<1>3. PICK r \in [Feeds -> Answers] : r = [transfers EXCEPT ![f] = a]
  BY DEF Inv, TInv
<1>4. \A g \in Feeds : r[g].current = transfers[g].current
  BY <1>2, <1>3 DEF Inv, TInv, Answers
<1>5. PICK s : s = [State EXCEPT !.transfers = r]
  OBVIOUS
<1>6. /\ s \in States /\ s.feed = feed /\ s.requests = requests /\ s.file = file
      /\ s.started = started /\ s.recent = recent /\ s.updates = updates
      /\ s.transfers = r /\ s.progress = progress
  BY <1>5, SavedTyped DEF States
<1>7. s = [State EXCEPT !.transfers[f].stale = @ - 1]
  BY <1>1, <1>2, <1>3, <1>5, SavedTyped
<1>8. Linked(s)
  BY <1>4, <1>6, SavedTyped, SeqEntries DEF Linked, Inv, TInv
<1>9. PICK t : t = UpdateNextFeed(s)
  OBVIOUS
<1>10. Alike(s, t) /\ Linked(t) /\ Going(t)
  BY <1>6, <1>8, <1>9, UpdateNextFeedGoes
<1>11. /\ Commit(t) /\ saved' = saved
       /\ UNCHANGED <<fetching, waiting, loading, mgr, published, world, settled, trash, torn>>
  BY <1>7, <1>9 DEF NotifyStale, Else
<1> QED BY <1>6, <1>10, <1>11, SavedTyped, CommitStep DEF Alike

LEMMA CheckForUpdatesKeeps ==
    ASSUME Inv, CheckForUpdates
    PROVE  Inv' /\ requests' = requests
<1> DEFINE Late(f) == /\ feed[f].due
                      /\ ~Contains(updates, f)
                      /\ ~IsInProgress(State, f)
<1>1. PICK T : T = {f \in Listed : Late(f)}
  OBVIOUS
<1>2. /\ T \subseteq Feeds /\ IsFiniteSet(T)
      /\ \A f \in T : feed[f].listed /\ f \notin Range(updates) /\ ~(progress[f] > 0)
  <2>1. T \subseteq Feeds
    BY <1>1 DEF Listed
  <2>2. IsFiniteSet(T)
    BY <2>1, RSSManagerAssumption, FS_Subset
  <2>3. Range(updates) = {updates[i] : i \in 1..Len(updates)}
    BY SeqEntries DEF Inv, TInv
  <2> QED BY <1>1, <2>1, <2>2, <2>3, SavedTyped DEF Listed, Contains, IsInProgress
<1>3. PICK u : u = SetToSeq(T)
  OBVIOUS
<1>4. u \in Seq(Feeds) /\ Range(u) = T /\ IsInjective(u)
  BY <1>2, <1>3, SetToSeqEntries, WiderSeq
<1>5. updates \in Seq(Feeds) /\ IsInjective(updates)
  BY SavedTyped DEF Inv, TInv, Linked
<1>6. PICK q \in Seq(Feeds) : q = updates \o u
  BY <1>4, <1>5, Joined
<1>7. Range(q) = Range(updates) \cup T /\ IsInjective(q)
  <2>1. Range(updates) \cap Range(u) = {}
    BY <1>2, <1>4
  <2> QED BY <1>4, <1>5, <1>6, <2>1, Joined, JoinedDistinct
<1>8. PICK s : s = [State EXCEPT !.updates = q]
  OBVIOUS
<1>9. /\ s \in States /\ s.feed = feed /\ s.requests = requests /\ s.file = file
      /\ s.started = started /\ s.recent = recent /\ s.updates = q
      /\ s.transfers = transfers /\ s.progress = progress
  BY <1>8, SavedTyped DEF States
<1>10. Linked(s)
  BY <1>2, <1>7, <1>9, SavedTyped DEF Linked, Inv
<1>11. PICK t : t = UpdateNextFeed(s)
  OBVIOUS
<1>12. Alike(s, t) /\ Linked(t) /\ Going(t)
  BY <1>9, <1>10, <1>11, UpdateNextFeedGoes
<1>13. /\ Commit(t) /\ saved' = saved
       /\ UNCHANGED <<fetching, waiting, loading, mgr, published, world, settled, trash, torn>>
  BY <1>1, <1>3, <1>6, <1>8, <1>11, SavedTyped DEF CheckForUpdates, Else
<1> QED BY <1>9, <1>12, <1>13, SavedTyped, CommitStep DEF Alike

LEMMA RestKept ==
    ASSUME Inv,
           UNCHANGED <<transfers, updates, progress, world>>,
           feed' \in [Feeds -> FeedSet],
           \A f \in Feeds : feed'[f].listed = feed[f].listed
    PROVE  Linked(State)' /\ Going(State)'
<1>1. /\ State.feed' = feed' /\ State.updates' = State.updates
      /\ State.progress' = State.progress /\ State.transfers' = State.transfers
  BY DEF State
<1>2. Range(State.updates) \subseteq Feeds
  BY SavedTyped, SeqEntries DEF Inv, TInv
<1>3. \A f \in Feeds : State.feed'[f].listed = State.feed[f].listed
  BY <1>1, SavedTyped
<1> QED BY <1>1, <1>2, <1>3 DEF Inv, Linked, Going, May

LEMMA FeedsTyped ==
    ASSUME Inv PROVE /\ transfers \in [Feeds -> Answers] /\ updates \in Seq(Feeds)
                     /\ progress \in [Feeds -> Nat] /\ settled \in SUBSET Items
BY DEF Inv, TInv

(* What is marked is an item, and marked for good once the index is saved.   *)
LEMMA ViewedTyped ==
    ASSUME Inv, NEW fs \in SUBSET Feeds
    PROVE  /\ Marked(fs) \in SUBSET Items
           /\ Viewed(fs) \in [Items -> Seen]
           /\ \A i \in Items : recent[i] = "old" => Viewed(fs)[i] = "old"
           /\ \A i \in Marked(fs) : Viewed(fs)[i] = "old"
<1>1. \A f \in fs : feed[f].loaded => feed[f].page \in SUBSET Items
  BY SavedTyped DEF Paged, FeedSet
<1>2. Marked(fs) \in SUBSET Items
  BY <1>1 DEF Marked
<1>3. \A i \in Items : Viewed(fs)[i] = IF i \in Marked(fs) THEN "old" ELSE recent[i]
  BY DEF Viewed
<1>4. Viewed(fs) \in [Items -> Seen]
  BY SavedTyped DEF Viewed, Seen
<1> QED BY <1>2, <1>3, <1>4

LEMMA MarkAsViewedKeeps == ASSUME Inv, NEW fs \in SUBSET Feeds, MarkAsViewed(fs) PROVE Inv'
<1>1. PICK ok \in Written : /\ saved' = SaveIndex(saved, feed, recent', ok)
                            /\ settled' = IF ok.uid THEN settled \cup Marked(fs) ELSE settled
  BY DEF MarkAsViewed
<1>2. /\ recent' \in [Items -> Seen] /\ Marked(fs) \in SUBSET Items
      /\ \A i \in Items : recent[i] = "old" => recent'[i] = "old"
      /\ \A i \in Marked(fs) : recent'[i] = "old"
  BY ViewedTyped DEF MarkAsViewed
<1>3. /\ saved' \in Index /\ saved'.history = saved.history
      /\ \A i \in Items : recent[i] = "old" /\ saved.recent[i] = "old" => saved'.recent[i] = "old"
      /\ ok.uid => saved'.recent = recent'
  BY <1>1, <1>2, SavedTyped, KeptIndex
<1>4. /\ settled' \in SUBSET Items
      /\ \A i \in settled' : i \in settled \/ (recent'[i] = "old" /\ saved'.recent[i] = "old")
  BY <1>1, <1>2, <1>3, FeedsTyped
<1>5. /\ UNCHANGED <<feed, transfers, updates, progress, fetching, loading, mgr, requests, file,
                     started, published, world, trash, torn>>
      /\ waiting' = waiting
  BY DEF MarkAsViewed, Else
<1>6. Linked(State)' /\ Going(State)'
  BY <1>5, SavedTyped, RestKept
<1> QED BY <1>2, <1>3, <1>4, <1>5, <1>6, SavedTyped, FeedsTyped, FeedsStep

LEMMA SetChannelAutoDownloadKeeps ==
    ASSUME Inv, NEW f \in Feeds, SetChannelAutoDownload(f) PROVE Inv'
<1>1. PICK marked \in Written, turned \in Written :
          /\ saved' = SaveIndex(SaveIndex(saved, feed, recent', marked), feed', recent', turned)
          /\ settled' = IF marked.uid \/ turned.uid THEN settled \cup Marked({f}) ELSE settled
  BY DEF SetChannelAutoDownload
<1>2. /\ recent' \in [Items -> Seen] /\ Marked({f}) \in SUBSET Items
      /\ \A i \in Items : recent[i] = "old" => recent'[i] = "old"
      /\ \A i \in Marked({f}) : recent'[i] = "old"
  BY ViewedTyped DEF SetChannelAutoDownload
<1>3. PICK g \in FeedSet : g = [feed[f] EXCEPT !.auto = ~@]
  BY SavedTyped DEF FeedSet
<1>4. g.loaded = feed[f].loaded /\ g.listed = feed[f].listed /\ g.page = feed[f].page
  BY <1>3, SavedTyped DEF FeedSet
<1>5. feed' = [feed EXCEPT ![f] = g]
  BY <1>3 DEF SetChannelAutoDownload
<1>6. /\ feed' \in [Feeds -> FeedSet] /\ feed'[f] = g
      /\ \A h \in Feeds : h # f => feed'[h] = feed[h]
  BY <1>5, SavedTyped
<1>7. Paged(feed') /\ \A h \in Feeds : feed'[h].listed = feed[h].listed
  BY <1>4, <1>6, SavedTyped DEF Paged
<1>8. PICK files : files = SaveIndex(saved, feed, recent', marked)
  OBVIOUS
<1>9. /\ files \in Index /\ files.history = saved.history
      /\ files.recent = IF marked.uid THEN recent' ELSE saved.recent
  BY <1>2, <1>8, SavedTyped, SaveIndexDoes
<1>10. saved' = SaveIndex(files, feed', recent', turned)
  BY <1>1, <1>8
<1>11. /\ saved' \in Index /\ saved'.history = saved.history
       /\ saved'.recent = IF turned.uid THEN recent' ELSE files.recent
  BY <1>2, <1>6, <1>9, <1>10, SaveIndexDoes
<1>12. \A i \in Items : recent[i] = "old" /\ saved.recent[i] = "old" => saved'.recent[i] = "old"
  BY <1>2, <1>9, <1>11
<1>13. /\ settled' \in SUBSET Items
       /\ \A i \in settled' : i \in settled \/ (recent'[i] = "old" /\ saved'.recent[i] = "old")
  BY <1>1, <1>2, <1>9, <1>11, FeedsTyped
<1>14. /\ UNCHANGED <<transfers, updates, progress, fetching, loading, mgr, requests, file,
                      started, published, world, trash, torn>>
       /\ waiting' = waiting
  BY DEF SetChannelAutoDownload, Else
<1>15. Linked(State)' /\ Going(State)'
  BY <1>6, <1>7, <1>14, RestKept
<1> QED BY <1>2, <1>6, <1>7, <1>11, <1>12, <1>13, <1>14, <1>15, FeedsTyped, FeedsStep

LEMMA ClearChannelsKeeps == ASSUME Inv, ClearChannels PROVE Inv'
<1>1. \A f \in Feeds : feed'[f] = [feed[f] EXCEPT !.loaded = FALSE]
  BY DEF ClearChannels
<1>2. \A f \in Feeds : /\ feed'[f] \in FeedSet /\ feed'[f].listed = feed[f].listed
                       /\ ~feed'[f].loaded
  <2> TAKE f \in Feeds
  <2>1. feed[f] \in FeedSet
    BY SavedTyped
  <2> QED BY <1>1, <2>1 DEF FeedSet
<1>3. feed' \in [Feeds -> FeedSet] /\ Paged(feed')
  <2>1. feed' = [f \in Feeds |-> feed'[f]]
    BY DEF ClearChannels
  <2> QED BY <1>2, <2>1 DEF Paged
<1>4. /\ UNCHANGED <<recent, transfers, updates, progress, fetching, loading, mgr, requests, file,
                     started, published, world, trash, torn>>
      /\ waiting' = waiting /\ saved' = saved /\ settled' = settled
  BY DEF ClearChannels, Else, ghosts
<1>5. Linked(State)' /\ Going(State)'
  BY <1>2, <1>3, <1>4, RestKept
<1> QED BY <1>3, <1>4, <1>5, SavedTyped, FeedsTyped, FeedsStep

LEMMA HourPassesKeeps == ASSUME Inv, NEW f \in Feeds, HourPasses(f) PROVE Inv'
<1>1. PICK g \in FeedSet : g = [feed[f] EXCEPT !.due = TRUE]
  BY SavedTyped DEF FeedSet
<1>2. g.loaded = feed[f].loaded /\ g.listed = feed[f].listed /\ g.page = feed[f].page
  BY <1>1, SavedTyped DEF FeedSet
<1>3. feed' = [feed EXCEPT ![f] = g]
  BY <1>1 DEF HourPasses
<1>4. /\ feed' \in [Feeds -> FeedSet] /\ feed'[f] = g
      /\ \A h \in Feeds : h # f => feed'[h] = feed[h]
  BY <1>3, SavedTyped
<1>5. Paged(feed') /\ \A h \in Feeds : feed'[h].listed = feed[h].listed
  BY <1>2, <1>4, SavedTyped DEF Paged
<1>6. /\ UNCHANGED <<recent, transfers, updates, progress, fetching, loading, mgr, requests, file,
                     started, published, world, trash, torn>>
      /\ waiting' = waiting /\ saved' = saved /\ settled' = settled
  BY DEF HourPasses, asked, ghosts
<1>7. Linked(State)' /\ Going(State)'
  BY <1>4, <1>5, <1>6, RestKept
<1> QED BY <1>4, <1>5, <1>6, <1>7, SavedTyped, FeedsTyped, FeedsStep

LEMMA RunKeeps == ASSUME Inv, NEW c \in Call, Run(c) PROVE Inv'
<1>1. PICK s : s = After(c)
  OBVIOUS
<1>2. waiting = c \/ Called(c)
  BY DEF Run
<1>3. /\ Good(s) /\ Linked(s) /\ Going(s)
      /\ \A i \in Items : recent[i] = "old" => s.recent[i] = "old"
  BY <1>1, <1>2, AfterGoes
<1>4. /\ Commit(s) /\ waiting' = None
      /\ UNCHANGED <<fetching, loading, mgr, published, world, torn>>
      /\ trash' \subseteq trash /\ settled' \subseteq settled
  BY <1>1 DEF Run
<1>5. Linked(State)' /\ Going(State)'
  BY <1>3, <1>4, CommitGoes
<1>6. Claimed(State)'
  BY <1>3, <1>4, CommitClaims DEF Good, mgr
<1>7. /\ feed' = s.feed /\ recent' = s.recent /\ transfers' = s.transfers
      /\ updates' = s.updates /\ progress' = s.progress
      /\ requests' = s.requests /\ file' = s.file /\ started' = s.started
  BY <1>4 DEF Commit
<1>8. /\ feed' \in [Feeds -> FeedSet] /\ recent' \in [Items -> Seen]
      /\ transfers' \in [Feeds -> Answers] /\ updates' \in Seq(Feeds)
      /\ progress' \in [Feeds -> Nat] /\ requests' \in Seq(Video)
      /\ file' \in [Video -> FileSet] /\ started' \in SUBSET Items
      /\ Len(requests') <= MaxRequests /\ Paged(feed')
  BY <1>3, <1>7 DEF Good, States
<1>9. /\ saved' \in Index /\ saved'.history = saved.history
      /\ \A i \in Items : recent[i] = "old" /\ saved.recent[i] = "old" => saved'.recent[i] = "old"
  <2>1. CASE c.do = "SetChannelOptions"
    <3>1. PICK ok \in Written : saved' = SaveIndex(saved, feed', recent', ok)
      BY <2>1 DEF Run
    <3> QED BY <1>3, <1>7, <1>8, <3>1, SavedTyped, KeptIndex
  <2>2. CASE c.do # "SetChannelOptions"
    BY <2>2, SavedTyped DEF Run
  <2> QED BY <2>1, <2>2
<1>10. TInv'
  BY <1>4, <1>8, <1>9 DEF Inv, TInv, mgr
<1>11. Remembered'
  <2>1. Remembered /\ settled \subseteq Items
    BY DEF Inv, TInv
  <2>2. Collection' = Collection /\ history' = history
    BY <1>4 DEF Collection, mgr
  <2>3. \A i \in settled' : \/ i \in history'
                            \/ recent'[i] = "old" /\ saved'.recent[i] = "old"
    BY <1>3, <1>4, <1>7, <1>9, <2>1, <2>2 DEF Remembered
  <2> QED BY <1>4, <1>9, <2>1, <2>2, <2>3 DEF Remembered
<1> QED BY <1>5, <1>6, <1>10, <1>11 DEF Inv

(* Only the question whether a metafile is there already makes a call wait.  *)
LEMMA AsksOnlyForMetafiles ==
    ASSUME TInv, NEW s \in States, ~s.asks, Len(s.requests) <= MaxRequests, NEW i \in Items,
           Kind[i] # "mtti"
    PROVE  ~DownloadItem(s, i).asks
<1>0. Kind[i] \in {"mtti", "media", "feed"}
  BY RSSManagerAssumption
<1>1. CASE Kind[i] = "feed"
  BY <1>1 DEF DownloadItem
<1>2. CASE Kind[i] = "media"
  <2>1. PICK v : v = NewVideo(s, i)
    OBVIOUS
  <2>2. PICK a : a = [s EXCEPT !.file[v].tmp = "unwatched"]
    OBVIOUS
  <2>3. a.asks = s.asks
    BY <2>2 DEF States
  <2>4. PICK b : b = Push(a, v)
    OBVIOUS
  <2>5. b.asks = a.asks
    BY <2>2, <2>4 DEF Push, States
  <2>6. DownloadItem(s, i) = Started(b, i)
    BY <1>2, <2>1, <2>2, <2>4 DEF DownloadItem
  <2>7. Started(b, i).asks = b.asks
    BY <2>2, <2>4 DEF Started, Push, States
  <2> QED BY <2>3, <2>5, <2>6, <2>7
<1> QED BY <1>0, <1>1, <1>2

LEMMA WaitKeeps == ASSUME Inv, NEW c \in Call, Wait(c) PROVE Inv'
<1>0. TInv /\ State \in States /\ ~State.asks /\ Len(State.requests) <= MaxRequests
  BY SavedTyped DEF Inv, TInv, State
<1>1. /\ UNCHANGED <<rss, requests, fetching, loading, mgr, file, saved, published, world, ghosts>>
      /\ waiting' = c
  BY DEF Wait, asked
<1>2. Commit(State)
  BY <1>1 DEF Commit, State, rss, ghosts
<1>3. Linked(State)' /\ Going(State)'
  BY <1>1, RssKept
<1>4. Claimed(State)'
  BY <1>1, <1>2, CommitClaims DEF Inv, mgr, ghosts
<1>5. TInv'
  BY <1>1 DEF Inv, TInv, rss, mgr, ghosts
<1>6. c.do = "DownloadItem" => /\ Kind[c.i] = "mtti"
                               /\ May("twice") \/ c.i \notin started \cup history
  <2> SUFFICES ASSUME c.do = "DownloadItem"
               PROVE  /\ Kind[c.i] = "mtti"
                      /\ May("twice") \/ c.i \notin started \cup history
    OBVIOUS
  <2>1. PICK i \in Items : i = c.i
    BY CallIs
  <2>2. After(c) = DownloadItem(State, i)
    BY <2>1 DEF After
  <2>3. Kind[i] = "mtti"
    BY <1>0, <2>2, AsksOnlyForMetafiles DEF Wait
  <2> QED BY <2>1, <2>3 DEF Wait, Called
<1>7. Remembered'
  <2>1. Remembered
    BY DEF Inv
  <2>2. /\ Collection' = Collection /\ history' = history /\ saved' = saved /\ recent' = recent
        /\ started' = started /\ settled' = settled /\ trash' = trash
        /\ (May("twice")' <=> May("twice"))
    BY <1>1 DEF Collection, mgr, May, rss, ghosts
  <2> QED BY <1>1, <1>6, <2>1, <2>2 DEF Remembered
<1> QED BY <1>3, <1>4, <1>5, <1>7 DEF Inv

-----------------------------------------------------------------------------
(* The steps of the dispatcher and of the manager of downloads.              *)
LEMMA VideosStep ==
    ASSUME Inv, UNCHANGED <<rss, waiting, published, world, torn>>,
           requests' \in Seq(Video), Len(requests') <= MaxRequests,
           Range(requests') \subseteq Range(requests),
           fetching' \in [Items -> Nat], loading' \in {None} \cup Task,
           video' \in [Video -> VideoSet], value' \in [Feeds -> 0..MaxValue],
           file' \in [Video -> FileSet], saved' \in Index,
           history' \in SUBSET Items, started' \in SUBSET started,
           trash' \in SUBSET history', settled' \in SUBSET (settled \cup history'),
           history \subseteq history', history' = saved'.history,
           saved'.recent = saved.recent, waiting # None => history' = history,
           \A v \in Collection' : Item(v) \in history',
           \A v \in Video : Around(State, v)' => /\ Around(State, v)
                                                 /\ Item(v) \in started' \cup history',
           Neat => Single(State)'
    PROVE  Inv'
<1>1. Inv /\ TInv /\ Remembered /\ Claimed(State)
  BY DEF Inv
<1>2. Linked(State)' /\ Going(State)'
  BY RssKept
<1>3. TInv'
  BY <1>1 DEF TInv, rss
<1>4. \A liberty : May(liberty)' <=> May(liberty)
  BY DEF May
<1>5. Remembered'
  <2>1. \A i \in settled' : \/ i \in history'
                            \/ recent'[i] = "old" /\ saved'.recent[i] = "old"
    BY <1>1 DEF Remembered, rss
  <2>2. waiting' # None /\ waiting'.do = "DownloadItem" =>
          /\ Kind[waiting'.i] = "mtti"
          /\ May("twice") \/ waiting'.i \notin started' \cup history'
    BY <1>1 DEF Remembered
  <2> QED BY <1>4, <2>1, <2>2 DEF Remembered
<1>6. Claimed(State)'
  <2>1. /\ State.started' = started' /\ State.recent' = recent' /\ State.requests' = requests'
        /\ State.started = started /\ State.recent = recent /\ State.requests = requests
    BY DEF State
  <2>2. \A i \in State.started' : State.recent'[i] = "old"
    BY <1>1, <2>1 DEF Claimed, rss
  <2>3. \A v \in Range(State.requests') : Kind[Item(v)] = "mtti" => v[2] = 1
    BY <1>1, <2>1 DEF Claimed
  <2>4. ~May("twice")' =>
          \A v, w \in Video : Around(State, v)' /\ Around(State, w)' /\ Item(v) = Item(w) => v = w
    BY <1>1, <1>4 DEF Claimed
  <2>5. Neat' => Single(State)'
    BY <1>4 DEF Neat
  <2>6. \A v \in Video : Around(State, v)' => Item(v) \in State.started' \cup history'
    BY <2>1
  <2> QED BY <2>2, <2>3, <2>4, <2>5, <2>6 DEF Claimed
<1> QED BY <1>2, <1>3, <1>5, <1>6 DEF Inv

(* What the invariant says of the videos, to hand.                           *)
LEMMA InvSays ==
    ASSUME Inv
    PROVE  /\ TInv
           /\ Neat => Single(State)
           /\ State.file = file /\ State.requests = requests
           /\ \A v \in Video : Around(State, v) => Item(v) \in started \cup history
           /\ \A v \in Range(requests) : Kind[Item(v)] = "mtti" => v[2] = 1
           /\ ~May("twice") =>
                 \A v, w \in Video : Around(State, v) /\ Around(State, w) /\ Item(v) = Item(w)
                                     => v = w
           /\ \A v \in Collection : Item(v) \in history
           /\ trash \subseteq history /\ history = saved.history
           /\ Range(requests) \subseteq Video
<1>1. State.file = file /\ State.requests = requests /\ State.started = started
  BY DEF State
<1>2. Range(requests) \subseteq Video
  BY SeqEntries DEF Inv, TInv
<1> QED BY <1>1, <1>2 DEF Inv, Claimed, Remembered

LEMMA FetchKeeps == ASSUME Inv, Fetch PROVE Inv'
<1> USE VideoIs
<1>0. torn' = torn
  BY DEF Fetch, ghosts
<1>1. PICK v : v = Last(requests)
  OBVIOUS
<1>2. PICK i : i = Item(v)
  OBVIOUS
<1>3. requests \in Seq(Video) /\ requests # <<>>
  BY InvSays DEF TInv, Fetch
<1>4. /\ v \in Range(requests) /\ v \in Video /\ i \in Items /\ v[2] = 1
  BY <1>1, <1>2, <1>3, InvSays, FrontAndLast DEF Fetch
<1>5. /\ requests' \in Seq(Video) /\ Len(requests') = Len(requests) - 1
      /\ Range(requests') \subseteq Range(requests)
      /\ IsInjective(requests) => IsInjective(requests') /\ v \notin Range(requests')
  BY <1>1, <1>3, FrontAndLast, FrontEntries DEF Fetch
<1>6. Len(requests) \in Nat /\ Len(requests) <= MaxRequests /\ MaxRequests \in Nat
  BY <1>3, SeqEntries, RSSManagerAssumption, InvSays DEF TInv
<1>7. /\ fetching' \in [Items -> Nat] /\ fetching'[i] = fetching[i] + 1
      /\ \A j \in Items : j # i => fetching'[j] = fetching[j]
      /\ fetching \in [Items -> Nat]
  BY <1>1, <1>2, <1>4, InvSays DEF Fetch, TInv
<1>8. UNCHANGED <<rss, waiting, loading, mgr, file, saved, published, world, ghosts>>
  BY DEF Fetch
<1>9. /\ Collection' = Collection /\ State.file' = file /\ State.requests' = requests'
      /\ \A w : Loading(w)' <=> Loading(w)
  BY <1>8 DEF Collection, State, Loading, mgr
<1>10. \A w \in Video : Fetching(w)' <=> Fetching(w) \/ w = v
  BY <1>2, <1>4, <1>7 DEF Fetching
<1>11. \A w \in Video : Around(State, w)' => Around(State, w)
  BY <1>4, <1>5, <1>9, <1>10, InvSays DEF Around
<1>12. Neat => Single(State)'
  <2> SUFFICES ASSUME Neat PROVE Single(State)'
    OBVIOUS
  <2>1. Single(State) /\ Range(requests) \subseteq Video
    BY InvSays
  <2>2. ~Fetching(v) /\ ~Loading(v) /\ v \notin Collection /\ i \notin trash
    BY <1>2, <1>4, <2>1, InvSays DEF Single
  <2>3. \A j \in Items : fetching'[j] <= 1
    BY <1>2, <1>4, <1>7, <2>1, <2>2 DEF Single, Fetching
  <2>4. IsInjective(requests') /\ v \notin Range(requests')
    BY <1>5, <2>1, InvSays DEF Single
  <2>5. \A w \in Range(requests') : ~Fetching(w)' /\ ~Loading(w)'
    BY <1>5, <1>9, <1>10, <2>1, <2>4, InvSays DEF Single
  <2>6. \A w \in Video : Fetching(w)' => ~Loading(w)'
    BY <1>9, <1>10, <2>1, <2>2 DEF Single
  <2>7. \A w \in Collection' :
          /\ w \notin Range(requests') /\ ~Fetching(w)' /\ ~Loading(w)'
          /\ w \notin torn' => State.file'[w][Other(video[w].conf)'] = "none"
    BY <1>0, <1>5, <1>8, <1>9, <1>10, <2>1, <2>2, InvSays DEF Single, Collection, mgr
  <2>8. \A w \in Video \ torn' : w \notin Collection' /\ State.file'[w].xml # "none" => Loading(w)'
    BY <1>0, <1>9, <2>1, InvSays DEF Single
  <2>9. \A w \in Video : Item(w) \in trash' =>
          /\ w \notin Range(requests') /\ ~Fetching(w)' /\ ~Loading(w)'
          /\ w \notin Collection' /\ w \notin torn' => State.file'[w] = NoFile
    BY <1>0, <1>2, <1>5, <1>8, <1>9, <1>10, <2>1, <2>2, InvSays DEF Single, ghosts
  <2> QED BY <1>9, <2>3, <2>4, <2>5, <2>6, <2>7, <2>8, <2>9 DEF Single
<1>13. /\ fetching' \in [Items -> Nat] /\ loading' \in {None} \cup Task
       /\ video' \in [Video -> VideoSet] /\ value' \in [Feeds -> 0..MaxValue]
       /\ file' \in [Video -> FileSet] /\ saved' \in Index /\ saved' = saved
       /\ history' = history /\ history' \in SUBSET Items /\ history' = saved'.history
       /\ started' \in SUBSET started /\ trash' \in SUBSET history'
       /\ settled' \in SUBSET (settled \cup history')
  BY <1>7, <1>8, InvSays DEF TInv, mgr, ghosts
<1>14. \A w \in Collection' : Item(w) \in history'
  BY <1>8, <1>9, <1>11, <1>13, InvSays
<1>15. \A w \in Video : Around(State, w)' => /\ Around(State, w)
                                               /\ Item(w) \in started' \cup history'
  BY <1>8, <1>9, <1>11, <1>13, InvSays DEF ghosts
<1> QED BY <1>0, <1>5, <1>6, <1>8, <1>12, <1>13, <1>14, <1>15, VideosStep
LEMMA TaskIs ==
    /\ \A v \in Video : /\ [do |-> "load", v |-> v] \in Task
                        /\ [do |-> "remove", v |-> v] \in Task
    /\ \A t \in Task : /\ t.do \in {"load", "remove"} /\ t.v \in Video /\ t # None
BY NoneAssumption DEF Task

(* The metafile of a video is written, or a temporary one deleted.           *)
LEMMA XmlWritten ==
    ASSUME NEW files \in [Video -> FileSet], NEW v \in Video, NEW c \in Contents,
           NEW t, t = [files EXCEPT ![v].xml = c]
    PROVE  /\ t \in [Video -> FileSet] /\ t[v].xml = c /\ t[v].tmp = files[v].tmp
           /\ \A w \in Video : w # v => t[w] = files[w]
<1>1. PICK x \in FileSet : x = [files[v] EXCEPT !.xml = c]
  BY DEF FileSet
<1>2. x.xml = c /\ x.tmp = files[v].tmp
  BY <1>1 DEF FileSet
<1>3. t = [files EXCEPT ![v] = x]
  BY <1>1
<1> QED BY <1>2, <1>3

LEMMA TmpWritten ==
    ASSUME NEW files \in [Video -> FileSet], NEW v \in Video, NEW c \in Contents,
           NEW t, t = [files EXCEPT ![v].tmp = c]
    PROVE  /\ t \in [Video -> FileSet] /\ t[v].tmp = c
           /\ \A w \in Video : t[w].xml = files[w].xml
           /\ \A w \in Video : w # v => t[w] = files[w]
<1>1. PICK x \in FileSet : x = [files[v] EXCEPT !.tmp = c]
  BY DEF FileSet
<1>2. x.tmp = c /\ x.xml = files[v].xml
  BY <1>1 DEF FileSet
<1>3. t = [files EXCEPT ![v] = x]
  BY <1>1
<1> QED BY <1>2, <1>3

LEMMA ContentsAre == "none" \in Contents /\ "unwatched" \in Contents /\ "watched" \in Contents
BY DEF Contents

LEMMA FileIs == \A x \in FileSet : x = NoFile <=> x.tmp = "none" /\ x.xml = "none"
BY DEF FileSet, NoFile, Contents

LEMMA LoadKeeps == ASSUME Inv, Load PROVE Inv'
<1> USE VideoIs
<1>0. torn' = torn
  BY DEF Load, ghosts
<1>1. PICK v : v = Last(requests)
  OBVIOUS
<1>2. PICK i : i = Item(v)
  OBVIOUS
<1>3. requests \in Seq(Video) /\ requests # <<>>
  BY InvSays DEF TInv, Load
<1>4. /\ v \in Range(requests) /\ v \in Video /\ i \in Items
  BY <1>1, <1>2, <1>3, InvSays, FrontAndLast
<1>5. /\ requests' \in Seq(Video) /\ Len(requests') = Len(requests) - 1
      /\ Range(requests') \subseteq Range(requests)
      /\ IsInjective(requests) => IsInjective(requests') /\ v \notin Range(requests')
  BY <1>1, <1>3, FrontAndLast, FrontEntries DEF Load
<1>6. Len(requests) \in Nat /\ Len(requests) <= MaxRequests /\ MaxRequests \in Nat
  BY <1>3, SeqEntries, RSSManagerAssumption, InvSays DEF TInv
<1>7. UNCHANGED <<rss, waiting, fetching, mgr, saved, published, world, ghosts>>
  BY DEF Load
<1>8. /\ loading = None /\ loading' = [do |-> "load", v |-> v]
      /\ file' = [file EXCEPT ![v].xml = "unwatched"]
  BY <1>1 DEF Load, ConvertAndLoad
<1>9. /\ file' \in [Video -> FileSet]
      /\ \A w \in Video : w # v => file'[w] = file[w]
  BY <1>4, <1>8, InvSays, ContentsAre, XmlWritten DEF TInv
<1>10. /\ loading' \in {None} \cup Task
       /\ \A w : Loading(w)' <=> w = v
       /\ \A w : ~Loading(w)
  BY <1>4, <1>8, TaskIs DEF Loading
<1>11. /\ Collection' = Collection /\ State.file' = file' /\ State.requests' = requests'
       /\ \A w : Fetching(w)' <=> Fetching(w)
  BY <1>7 DEF Collection, State, Fetching, mgr
<1>12. \A w \in Video : Around(State, w)' => Around(State, w)
  BY <1>4, <1>5, <1>9, <1>10, <1>11, InvSays DEF Around
<1>13. Neat => Single(State)'
  <2> SUFFICES ASSUME Neat PROVE Single(State)'
    OBVIOUS
  <2>1. Single(State) /\ Range(requests) \subseteq Video
    BY InvSays
  <2>2. ~Fetching(v) /\ v \notin Collection /\ i \notin trash
    BY <1>2, <1>4, <2>1, InvSays DEF Single
  <2>3. \A j \in Items : fetching'[j] <= 1
    BY <1>7, <2>1 DEF Single
  <2>4. IsInjective(requests') /\ v \notin Range(requests')
    BY <1>5, <2>1, InvSays DEF Single
  <2>5. \A w \in Range(requests') : ~Fetching(w)' /\ ~Loading(w)'
    BY <1>5, <1>10, <1>11, <2>1, <2>4, InvSays DEF Single
  <2>6. \A w \in Video : Fetching(w)' => ~Loading(w)'
    BY <1>10, <1>11, <2>2
  <2>7. \A w \in Collection' :
          /\ w \notin Range(requests') /\ ~Fetching(w)' /\ ~Loading(w)'
          /\ w \notin torn' => State.file'[w][Other(video[w].conf)'] = "none"
    BY <1>0, <1>5, <1>7, <1>9, <1>10, <1>11, <2>1, <2>2, InvSays DEF Single, Collection, mgr
  <2>8. \A w \in Video \ torn' : w \notin Collection' /\ State.file'[w].xml # "none" => Loading(w)'
    BY <1>0, <1>9, <1>10, <1>11, <2>1, InvSays DEF Single
  <2>9. \A w \in Video : Item(w) \in trash' =>
          /\ w \notin Range(requests') /\ ~Fetching(w)' /\ ~Loading(w)'
          /\ w \notin Collection' /\ w \notin torn' => State.file'[w] = NoFile
    BY <1>0, <1>2, <1>5, <1>7, <1>9, <1>10, <1>11, <2>1, <2>2, InvSays DEF Single, ghosts
  <2> QED BY <1>11, <2>3, <2>4, <2>5, <2>6, <2>7, <2>8, <2>9 DEF Single
<1>14. /\ fetching' \in [Items -> Nat] /\ loading' \in {None} \cup Task
       /\ video' \in [Video -> VideoSet] /\ value' \in [Feeds -> 0..MaxValue]
       /\ file' \in [Video -> FileSet] /\ saved' \in Index /\ saved' = saved
       /\ history' = history /\ history' \in SUBSET Items /\ history' = saved'.history
       /\ started' \in SUBSET started /\ trash' \in SUBSET history'
       /\ settled' \in SUBSET (settled \cup history')
  BY <1>7, <1>9, <1>10, InvSays DEF TInv, mgr, ghosts
<1>15. \A w \in Collection' : Item(w) \in history'
  BY <1>7, <1>11, <1>12, <1>14, InvSays
<1>16. \A w \in Video : Around(State, w)' => /\ Around(State, w)
                                               /\ Item(w) \in started' \cup history'
  BY <1>7, <1>11, <1>12, <1>14, InvSays DEF ghosts
<1> QED BY <1>0, <1>5, <1>6, <1>7, <1>13, <1>14, <1>15, <1>16, VideosStep
LEMMA CancelKeeps == ASSUME Inv, Cancel PROVE Inv'
<1> USE VideoIs
<1>0. torn' = torn
  BY DEF Cancel, ghosts
<1>1. PICK v : v = Last(requests)
  OBVIOUS
<1>2. PICK i : i = Item(v)
  OBVIOUS
<1>3. requests \in Seq(Video) /\ requests # <<>>
  BY InvSays DEF TInv, Cancel
<1>4. /\ v \in Range(requests) /\ v \in Video /\ i \in Items
  BY <1>1, <1>2, <1>3, InvSays, FrontAndLast
<1>5. /\ requests' \in Seq(Video) /\ Len(requests') = Len(requests) - 1
      /\ Range(requests') \subseteq Range(requests)
      /\ IsInjective(requests) => IsInjective(requests') /\ v \notin Range(requests')
  BY <1>1, <1>3, FrontAndLast, FrontEntries DEF Cancel
<1>6. Len(requests) \in Nat /\ Len(requests) <= MaxRequests /\ MaxRequests \in Nat
  BY <1>3, SeqEntries, RSSManagerAssumption, InvSays DEF TInv
<1>7. UNCHANGED <<rss, waiting, loading, fetching, mgr, saved, published, world, ghosts>>
  BY DEF Cancel
<1>8. file' = [file EXCEPT ![v].tmp = "none"]
  BY <1>1 DEF Cancel
<1>9. /\ file' \in [Video -> FileSet]
      /\ \A w \in Video : w # v => file'[w] = file[w]
      /\ \A w \in Video : file'[w].xml = file[w].xml
  <2>1. file \in [Video -> FileSet] /\ "none" \in Contents
    BY InvSays, ContentsAre DEF TInv
  <2>2. PICK t : t = file'
    OBVIOUS
  <2>3. t = [file EXCEPT ![v].tmp = "none"]
    BY <1>8, <2>2
  <2>4. /\ t \in [Video -> FileSet] /\ \A w \in Video : t[w].xml = file[w].xml
        /\ \A w \in Video : w # v => t[w] = file[w]
    BY <1>4, <2>1, <2>3, TmpWritten
  <2> QED BY <2>2, <2>4
<1>10. /\ \A w : Loading(w)' <=> Loading(w)
  BY <1>7 DEF Loading
<1>11. /\ Collection' = Collection /\ State.file' = file' /\ State.requests' = requests'
       /\ \A w : Fetching(w)' <=> Fetching(w)
  BY <1>7 DEF Collection, State, Fetching, mgr
<1>12. \A w \in Video : Around(State, w)' => Around(State, w)
  BY <1>4, <1>5, <1>9, <1>10, <1>11, InvSays DEF Around
<1>13. Neat => Single(State)'
  <2> SUFFICES ASSUME Neat PROVE Single(State)'
    OBVIOUS
  <2>1. Single(State) /\ Range(requests) \subseteq Video
    BY InvSays
  <2>2. ~Fetching(v) /\ ~Loading(v) /\ v \notin Collection /\ i \notin trash
    BY <1>2, <1>4, <2>1, InvSays DEF Single
  <2>3. \A j \in Items : fetching'[j] <= 1
    BY <1>7, <2>1 DEF Single
  <2>4. IsInjective(requests')
    BY <1>5, <2>1, InvSays DEF Single
  <2>5. \A w \in Range(requests') : ~Fetching(w)' /\ ~Loading(w)'
    BY <1>5, <1>10, <1>11, <2>1, InvSays DEF Single
  <2>6. \A w \in Video : Fetching(w)' => ~Loading(w)'
    BY <1>10, <1>11, <2>1 DEF Single
  <2>7. \A w \in Collection' :
          /\ w \notin Range(requests') /\ ~Fetching(w)' /\ ~Loading(w)'
          /\ w \notin torn' => State.file'[w][Other(video[w].conf)'] = "none"
    BY <1>0, <1>5, <1>7, <1>9, <1>10, <1>11, <2>1, <2>2, InvSays DEF Single, Collection, mgr
  <2>8. \A w \in Video \ torn' : w \notin Collection' /\ State.file'[w].xml # "none" => Loading(w)'
    BY <1>0, <1>9, <1>10, <1>11, <2>1, InvSays DEF Single
  <2>9. \A w \in Video : Item(w) \in trash' =>
          /\ w \notin Range(requests') /\ ~Fetching(w)' /\ ~Loading(w)'
          /\ w \notin Collection' /\ w \notin torn' => State.file'[w] = NoFile
    BY <1>0, <1>2, <1>5, <1>7, <1>9, <1>10, <1>11, <2>1, <2>2, InvSays DEF Single, ghosts
  <2> QED BY <1>11, <2>3, <2>4, <2>5, <2>6, <2>7, <2>8, <2>9 DEF Single
<1>14. /\ fetching' \in [Items -> Nat] /\ loading' \in {None} \cup Task
       /\ video' \in [Video -> VideoSet] /\ value' \in [Feeds -> 0..MaxValue]
       /\ file' \in [Video -> FileSet] /\ saved' \in Index /\ saved' = saved
       /\ history' = history /\ history' \in SUBSET Items /\ history' = saved'.history
       /\ started' \in SUBSET started /\ trash' \in SUBSET history'
       /\ settled' \in SUBSET (settled \cup history')
  BY <1>7, <1>9, <1>10, InvSays DEF TInv, mgr, ghosts
<1>15. \A w \in Collection' : Item(w) \in history'
  BY <1>7, <1>11, <1>12, <1>14, InvSays
<1>16. \A w \in Video : Around(State, w)' => /\ Around(State, w)
                                               /\ Item(w) \in started' \cup history'
  BY <1>7, <1>11, <1>12, <1>14, InvSays DEF ghosts
<1> QED BY <1>0, <1>5, <1>6, <1>7, <1>13, <1>14, <1>15, <1>16, VideosStep
LEMMA FetchFailedKeeps == ASSUME Inv, NEW i \in Items, FetchFailed(i) PROVE Inv'
<1> USE VideoIs
<1>0. torn' = torn
  BY DEF FetchFailed, ghosts
<1>1. /\ fetching' \in [Items -> Nat] /\ fetching'[i] = fetching[i] - 1
      /\ \A j \in Items : j # i => fetching'[j] = fetching[j]
      /\ fetching \in [Items -> Nat] /\ fetching[i] > 0
  BY InvSays DEF FetchFailed, TInv
<1>2. UNCHANGED <<rss, waiting, loading, requests, mgr, file, saved, published, world, ghosts>>
  BY DEF FetchFailed
<1>3. /\ Collection' = Collection /\ State.file' = file /\ State.requests' = requests
      /\ \A w : Loading(w)' <=> Loading(w)
  BY <1>2 DEF Collection, State, Loading, mgr
<1>4. \A w \in Video : Fetching(w)' => Fetching(w)
  BY <1>1 DEF Fetching
<1>5. \A w \in Video : Around(State, w)' => Around(State, w)
  BY <1>3, <1>4, InvSays DEF Around
<1>6. Neat => Single(State)'
  <2> SUFFICES ASSUME Neat PROVE Single(State)'
    OBVIOUS
  <2>1. Single(State) /\ Range(requests) \subseteq Video
    BY InvSays
  <2>2. \A j \in Items : fetching'[j] <= 1
    BY <1>1, <2>1 DEF Single
  <2>3. IsInjective(requests)
    BY <2>1, InvSays DEF Single
  <2>4. \A w \in Range(requests) : ~Fetching(w)' /\ ~Loading(w)'
    BY <1>3, <1>4, <2>1, InvSays DEF Single
  <2>5. \A w \in Video : Fetching(w)' => ~Loading(w)'
    BY <1>3, <1>4, <2>1 DEF Single
  <2>6. \A w \in Collection' :
          /\ w \notin Range(requests) /\ ~Fetching(w)' /\ ~Loading(w)'
          /\ w \notin torn' => State.file'[w][Other(video[w].conf)'] = "none"
    BY <1>0, <1>2, <1>3, <1>4, <2>1, InvSays DEF Single, Collection, mgr
  <2>7. \A w \in Video \ torn' : w \notin Collection' /\ State.file'[w].xml # "none" => Loading(w)'
    BY <1>0, <1>3, <2>1, InvSays DEF Single
  <2>8. \A w \in Video : Item(w) \in trash' =>
          /\ w \notin Range(requests) /\ ~Fetching(w)' /\ ~Loading(w)'
          /\ w \notin Collection' /\ w \notin torn' => State.file'[w] = NoFile
    BY <1>0, <1>2, <1>3, <1>4, <2>1, InvSays DEF Single, ghosts
  <2> QED BY <1>3, <2>2, <2>3, <2>4, <2>5, <2>6, <2>7, <2>8 DEF Single
<1> QED BY <1>0, <1>1, <1>2, <1>3, <1>5, <1>6, InvSays, VideosStep DEF TInv, mgr, ghosts

LEMMA FetchedKeeps == ASSUME Inv, NEW i \in Items, Fetched(i) PROVE Inv'
<1> USE VideoIs
<1>0. torn' = torn
  BY DEF Fetched, ghosts
<1>1. /\ fetching' \in [Items -> Nat] /\ fetching'[i] = fetching[i] - 1
      /\ \A j \in Items : j # i => fetching'[j] = fetching[j]
      /\ fetching \in [Items -> Nat] /\ fetching[i] > 0
  BY InvSays DEF Fetched, TInv
<1>2. UNCHANGED <<rss, waiting, requests, mgr, saved, published, world, ghosts>>
  BY DEF Fetched
<1>3. PICK v \in Video : v = <<i, 1>>
  OBVIOUS
<1>4. Item(v) = i /\ Fetching(v)
  BY <1>1, <1>3 DEF Fetching
<1>5. /\ loading = None /\ loading' = [do |-> "load", v |-> v]
      /\ file' = [file EXCEPT ![v].xml = "unwatched"]
  BY <1>3 DEF Fetched, ConvertAndLoad
<1>6. /\ file' \in [Video -> FileSet]
      /\ \A w \in Video : w # v => file'[w] = file[w]
  BY <1>5, InvSays, ContentsAre, XmlWritten DEF TInv
<1>7. /\ loading' \in {None} \cup Task
      /\ \A w : Loading(w)' <=> w = v
      /\ \A w : ~Loading(w)
  BY <1>5, TaskIs DEF Loading
<1>8. /\ Collection' = Collection /\ State.file' = file' /\ State.requests' = requests
  BY <1>2 DEF Collection, State, mgr
<1>9. \A w \in Video : Fetching(w)' => Fetching(w)
  BY <1>1 DEF Fetching
<1>10. \A w \in Video : Around(State, w)' => Around(State, w)
  BY <1>4, <1>6, <1>7, <1>8, <1>9, InvSays DEF Around
<1>11. Neat => Single(State)'
  <2> SUFFICES ASSUME Neat PROVE Single(State)'
    OBVIOUS
  <2>1. Single(State) /\ Range(requests) \subseteq Video
    BY InvSays
  <2>2. v \notin Range(requests) /\ v \notin Collection /\ i \notin trash
    BY <1>4, <2>1, InvSays DEF Single
  <2>3. \A j \in Items : fetching'[j] <= 1
    BY <1>1, <2>1 DEF Single
  <2>4. ~Fetching(v)'
    <3>1. fetching'[i] <= 0
      BY <1>1, <2>1 DEF Single
    <3> QED BY <1>4, <3>1, <1>1 DEF Fetching
  <2>5. IsInjective(requests)
    BY <2>1, InvSays DEF Single
  <2>6. \A w \in Range(requests) : ~Fetching(w)' /\ ~Loading(w)'
    BY <1>7, <1>9, <2>1, <2>2, InvSays DEF Single
  <2>7. \A w \in Video : Fetching(w)' => ~Loading(w)'
    BY <1>7, <2>4
  <2>8. \A w \in Collection' :
          /\ w \notin Range(requests) /\ ~Fetching(w)' /\ ~Loading(w)'
          /\ w \notin torn' => State.file'[w][Other(video[w].conf)'] = "none"
    BY <1>0, <1>2, <1>6, <1>7, <1>8, <1>9, <2>1, <2>2, InvSays DEF Single, Collection, mgr
  <2>9. \A w \in Video \ torn' : w \notin Collection' /\ State.file'[w].xml # "none" => Loading(w)'
    BY <1>0, <1>6, <1>7, <1>8, <2>1, InvSays DEF Single
  <2>10. \A w \in Video : Item(w) \in trash' =>
          /\ w \notin Range(requests) /\ ~Fetching(w)' /\ ~Loading(w)'
          /\ w \notin Collection' /\ w \notin torn' => State.file'[w] = NoFile
    BY <1>0, <1>2, <1>4, <1>6, <1>7, <1>8, <1>9, <2>1, <2>2, InvSays DEF Single, ghosts
  <2> QED BY <1>8, <2>3, <2>5, <2>6, <2>7, <2>8, <2>9, <2>10 DEF Single
<1> QED BY <1>0, <1>1, <1>2, <1>6, <1>7, <1>8, <1>10, <1>11, InvSays, VideosStep DEF TInv, mgr, ghosts

LEMMA Modulo ==
    ASSUME NEW x \in Nat, NEW m \in Nat PROVE x % (m + 1) \in 0..m
OBVIOUS

LEMMA ValueTyped ==
    ASSUME TInv, NEW f \in Feeds
    PROVE  /\ Plus(f) \in [Feeds -> 0..MaxValue]
           /\ Minus(f) \in [Feeds -> 0..MaxValue]
           /\ Uncounted(f) \in [Feeds -> 0..MaxValue]
<1>1. MaxValue \in Nat /\ value \in [Feeds -> 0..MaxValue] /\ value[f] \in Nat
  BY RSSManagerAssumption DEF TInv
<1>2. /\ (value[f] + 1) % (MaxValue + 1) \in 0..MaxValue
      /\ (value[f] + MaxValue) % (MaxValue + 1) \in 0..MaxValue
  <2>1. value[f] + 1 \in Nat /\ value[f] + MaxValue \in Nat
    BY <1>1
  <2> QED BY <1>1, <2>1, Modulo
<1>3. PICK n \in 0..MaxValue : n = (value[f] + 1) % (MaxValue + 1)
  BY <1>2
<1>4. PICK m \in 0..MaxValue : m = (value[f] + MaxValue) % (MaxValue + 1)
  BY <1>2
<1>5. Plus(f) = [value EXCEPT ![f] = n]
  BY <1>1, <1>3 DEF Plus
<1>6. Minus(f) = [value EXCEPT ![f] = m]
  BY <1>1, <1>4 DEF Minus
<1>7. Plus(f) \in [Feeds -> 0..MaxValue] /\ Minus(f) \in [Feeds -> 0..MaxValue]
  BY <1>1, <1>5, <1>6
<1> QED BY <1>1, <1>7 DEF Uncounted

LEMMA VideoSetIs ==
    /\ NoVideo \in VideoSet /\ NoVideo.at = "absent" /\ NoVideo.conf = "xml" /\ ~NoVideo.watched
    /\ [NoVideo EXCEPT !.at = "live"] \in VideoSet
    /\ [NoVideo EXCEPT !.at = "live"].at = "live"
    /\ [NoVideo EXCEPT !.at = "live"].conf = "xml"
    /\ ~[NoVideo EXCEPT !.at = "live"].watched
BY DEF NoVideo, VideoSet

LEMMA LoadedKeeps == ASSUME Inv, Loaded PROVE Inv'
<1> USE VideoIs
<1>0. torn' = torn
  BY DEF Loaded, ghosts
<1>1. PICK v \in Video : v = loading.v
  BY InvSays, TaskIs DEF Loaded, TInv
<1>2. PICK i \in Items : i = Item(v)
  OBVIOUS
<1>3. /\ loading # None /\ loading.do = "load" /\ loading' = None
      /\ file' = [file EXCEPT ![v].tmp = "none"]
      /\ started' = started \ {i}
      /\ UNCHANGED <<rss, asked, waiting, published, world, trash, torn>>
  BY <1>1, <1>2 DEF Loaded, Converted
<1>4. /\ file' \in [Video -> FileSet] /\ file'[v].tmp = "none"
      /\ \A w \in Video : w # v => file'[w] = file[w]
      /\ \A w \in Video : file'[w].xml = file[w].xml
      /\ file \in [Video -> FileSet]
  <2>1. file \in [Video -> FileSet] /\ "none" \in Contents
    BY InvSays, ContentsAre DEF TInv
  <2>2. PICK t : t = file'
    OBVIOUS
  <2>3. t = [file EXCEPT ![v].tmp = "none"]
    BY <1>3, <2>2
  <2>4. /\ t \in [Video -> FileSet] /\ \A w \in Video : t[w].xml = file[w].xml
        /\ \A w \in Video : w # v => t[w] = file[w]
        /\ t[v].tmp = "none"
    BY <2>1, <2>3, TmpWritten
  <2> QED BY <2>1, <2>2, <2>4
<1>5. /\ \A w : Loading(w) <=> w = v
      /\ \A w : ~Loading(w)'
  BY <1>1, <1>3 DEF Loading
<1>6. /\ State.file' = file' /\ State.requests' = requests /\ requests' = requests
      /\ \A w : Fetching(w)' <=> Fetching(w)
      /\ fetching' = fetching
  BY <1>3 DEF State, Fetching, asked
<1>7. Around(State, v)
  BY <1>5 DEF Around
<1>8. /\ requests \in Seq(Video) /\ Len(requests) <= MaxRequests
      /\ fetching \in [Items -> Nat] /\ video \in [Video -> VideoSet]
      /\ value \in [Feeds -> 0..MaxValue] /\ saved \in Index
      /\ history \in SUBSET Items /\ started \in SUBSET Items
      /\ trash \in SUBSET Items /\ settled \in SUBSET Items
  BY InvSays DEF TInv
<1>9. ASSUME Known(i), UNCHANGED <<mgr, saved, settled>> PROVE Inv'
  <2>1. Collection' = Collection /\ history' = history
    BY <1>9 DEF Collection, mgr
  <2>2. i \in history
    BY <1>9, InvSays DEF Known, Collection
  <2>3. \A w \in Video : Around(State, w)' => Around(State, w)
    BY <1>4, <1>5, <1>6, <1>7, <2>1, InvSays DEF Around
  <2>4. \A w \in Video : Around(State, w)' => Item(w) \in started' \cup history'
    BY <1>3, <2>1, <2>2, <2>3, InvSays
  <2>5. ~Neat
    <3> SUFFICES ASSUME Neat PROVE FALSE
      OBVIOUS
    <3>1. PICK u \in Collection : Item(u) = i
      BY <1>9 DEF Known
    <3>2. u \in Video /\ Around(State, u)
      BY <3>1 DEF Collection, Around
    <3>3. u = v
      BY <1>2, <1>7, <3>1, <3>2, InvSays DEF Neat
    <3> QED BY <1>5, <3>1, <3>3, InvSays DEF Single
  <2> QED BY <1>0, <1>3, <1>4, <1>6, <1>8, <1>9, <2>1, <2>3, <2>4, <2>5, InvSays, VideosStep
          DEF mgr
<1>10. ASSUME ~Known(i), Free, value' = Plus(Feed(v)),
              video' = [video EXCEPT ![v] = [NoVideo EXCEPT !.at = "live"]],
              history' = history \cup {i}, saved' = [saved EXCEPT !.history = history'],
              settled' = settled \cup {i}
       PROVE  Inv'
  <2>1. PICK new \in VideoSet : new = [NoVideo EXCEPT !.at = "live"]
    BY VideoSetIs
  <2>2. new.at = "live" /\ new.conf = "xml"
    BY <2>1, VideoSetIs
  <2>3. video' = [video EXCEPT ![v] = new]
    BY <1>10, <2>1
  <2>4. /\ video' \in [Video -> VideoSet] /\ video'[v] = new
        /\ \A w \in Video : w # v => video'[w] = video[w]
    BY <1>8, <2>3
  <2>5. Collection' = Collection \cup {v}
    BY <2>2, <2>4 DEF Collection
  <2>6. value' \in [Feeds -> 0..MaxValue]
    BY <1>10, ValueTyped, InvSays
  <2>7. history' \in SUBSET Items
    BY <1>8, <1>10
  <2>8. saved' \in Index /\ saved'.history = history' /\ saved'.recent = saved.recent
    <3>1. PICK h \in SUBSET Items : h = history'
      BY <2>7
    <3>2. PICK t : t = saved'
      OBVIOUS
    <3>3. t = [saved EXCEPT !.history = h]
      BY <1>10, <3>1, <3>2
    <3>4. saved \in Index
      BY <1>8
    <3>5. t \in Index /\ t.history = h /\ t.recent = saved.recent
      BY <3>3, <3>4 DEF Index
    <3> QED BY <3>1, <3>2, <3>5
  <2>9. waiting = None
    BY <1>10 DEF Free
  <2>10. \A w \in Video : Around(State, w)' => Around(State, w)
    BY <1>4, <1>5, <1>6, <1>7, <2>5, InvSays DEF Around
  <2>11. \A w \in Video : Around(State, w)' => Item(w) \in started' \cup history'
    BY <1>3, <1>10, <2>10, InvSays
  <2>12. \A w \in Collection' : Item(w) \in history'
    BY <1>2, <1>10, <2>5, InvSays
  <2>13. Neat => Single(State)'
    <3> SUFFICES ASSUME Neat PROVE Single(State)'
      OBVIOUS
    <3>1. Single(State) /\ Range(requests) \subseteq Video /\ Collection \subseteq Video
      BY InvSays DEF Collection
    <3>2. v \notin Range(requests) /\ ~Fetching(v) /\ v \notin Collection /\ i \notin trash
      BY <1>2, <1>5, <3>1, InvSays DEF Single
    <3>3. IsInjective(requests) /\ \A j \in Items : fetching[j] <= 1
      BY <3>1, InvSays DEF Single
    <3>4. \A w \in Range(requests) : ~Fetching(w)' /\ ~Loading(w)'
      BY <1>5, <1>6, <3>1, InvSays DEF Single
    <3>5. \A w \in Collection' :
            /\ w \notin Range(requests) /\ ~Fetching(w)' /\ ~Loading(w)'
            /\ w \notin torn' => State.file'[w][Other(video[w].conf)'] = "none"
      <4> TAKE w \in Collection'
      <4>1. CASE w = v
        <5>1. Other(video[w].conf)' = "tmp"
          BY <2>2, <2>4, <4>1 DEF Other
        <5> QED BY <1>4, <1>5, <1>6, <3>2, <4>1, <5>1
      <4>2. CASE w # v
        <5>1. w \in Collection /\ w \in Video
          BY <2>5, <3>1, <4>2
        <5>2. video'[w] = video[w] /\ file'[w] = file[w]
          BY <1>4, <2>4, <4>2, <5>1
        <5> QED BY <1>0, <1>5, <1>6, <3>1, <5>1, <5>2, InvSays DEF Single
      <4> QED BY <4>1, <4>2
    <3>6. \A w \in Video \ torn' :
            w \notin Collection' /\ State.file'[w].xml # "none" => Loading(w)'
      BY <1>0, <1>4, <1>5, <1>6, <2>5, <3>1, InvSays DEF Single
    <3>7. \A w \in Video : Item(w) \in trash' =>
            /\ w \notin Range(requests) /\ ~Fetching(w)' /\ ~Loading(w)'
            /\ w \notin Collection' /\ w \notin torn' => State.file'[w] = NoFile
      BY <1>0, <1>2, <1>3, <1>4, <1>5, <1>6, <2>5, <3>1, <3>2, InvSays DEF Single
    <3> QED BY <1>5, <1>6, <3>3, <3>4, <3>5, <3>6, <3>7 DEF Single
  <2> QED BY <1>0, <1>3, <1>4, <1>6, <1>8, <1>10, <2>4, <2>6, <2>7, <2>8, <2>9, <2>10, <2>11,
             <2>12, <2>13, InvSays, VideosStep
<1> QED BY <1>1, <1>2, <1>9, <1>10 DEF Loaded, Remember

LEMMA RemovedKeeps == ASSUME Inv, Removed PROVE Inv'
<1> USE VideoIs
<1>0. torn' = torn
  BY DEF Removed, ghosts
<1>1. PICK v \in Video : v = loading.v
  BY InvSays, TaskIs DEF Removed, TInv
<1>2. /\ loading.do = "remove" /\ loading' = None
      /\ value' = Uncounted(Feed(v))
      /\ UNCHANGED <<rss, asked, waiting, video, history, file, saved, published, world, ghosts>>
  BY <1>1 DEF Removed
<1>3. value' \in [Feeds -> 0..MaxValue]
  BY <1>2, ValueTyped, InvSays
<1>4. /\ \A w : ~Loading(w)
      /\ \A w : ~Loading(w)'
  BY <1>2 DEF Loading
<1>5. /\ State.file' = file /\ State.requests' = requests /\ requests' = requests
      /\ \A w : Fetching(w)' <=> Fetching(w)
      /\ fetching' = fetching /\ Collection' = Collection
  BY <1>2 DEF State, Fetching, asked, Collection
<1>6. \A w \in Video : Around(State, w)' => Around(State, w)
  BY <1>4, <1>5, InvSays DEF Around
<1>7. Neat => Single(State)'
  <2> SUFFICES ASSUME Neat PROVE Single(State)'
    OBVIOUS
  <2>1. Single(State)
    BY InvSays
  <2>2. trash' = trash /\ video' = video
    BY <1>2 DEF ghosts
  <2> QED BY <1>0, <1>4, <1>5, <2>1, <2>2, InvSays DEF Single
<1> QED BY <1>0, <1>2, <1>3, <1>5, <1>6, <1>7, InvSays, VideosStep DEF TInv, ghosts

(* A video that is erased leaves its other metafile, if there is one.        *)
LEMMA EraseDoes ==
    ASSUME Inv, NEW v \in Collection, Erase(v)
    PROVE  /\ video' \in [Video -> VideoSet] /\ file' \in [Video -> FileSet]
           /\ Collection' = Collection \ {v}
           /\ \A w \in Video : w # v => file'[w] = file[w] /\ video'[w] = video[w]
           /\ file[v][Other(video[v].conf)] = "none" => file'[v] = NoFile
<1>1. /\ video \in [Video -> VideoSet] /\ file \in [Video -> FileSet] /\ v \in Video
  BY InvSays DEF TInv, Collection
<1>2. PICK new \in VideoSet : new = NoVideo /\ new.at = "absent"
  BY VideoSetIs
<1>3. video' = [video EXCEPT ![v] = new]
  BY <1>2 DEF Erase
<1>4. /\ video' \in [Video -> VideoSet] /\ video'[v].at = "absent"
      /\ \A w \in Video : w # v => video'[w] = video[w]
  BY <1>1, <1>2, <1>3
<1>5. Collection' = Collection \ {v}
  BY <1>4 DEF Collection
<1>6. PICK conf \in {"tmp", "xml"} : conf = video[v].conf
  BY <1>1 DEF VideoSet
<1>7. PICK t : t = file'
  OBVIOUS
<1>8. t = [file EXCEPT ![v][conf] = "none"]
  BY <1>6, <1>7 DEF Erase
<1>9. /\ t \in [Video -> FileSet] /\ t[v][conf] = "none"
      /\ t[v][Other(conf)] = file[v][Other(conf)]
      /\ \A w \in Video : w # v => t[w] = file[w]
  <2>1. file[v] \in FileSet
    BY <1>1
  <2>2. PICK x \in FileSet : x = [file[v] EXCEPT ![conf] = "none"]
    BY <2>1 DEF FileSet, Contents
  <2>3. x[conf] = "none" /\ x[Other(conf)] = file[v][Other(conf)]
    BY <2>1, <2>2 DEF FileSet, Other
  <2>4. t = [file EXCEPT ![v] = x]
    BY <1>1, <1>8, <2>2
  <2> QED BY <1>1, <2>3, <2>4
<1>10. file[v][Other(conf)] = "none" => t[v] = NoFile
  BY <1>1, <1>9, FileIs DEF Other
<1> QED BY <1>4, <1>5, <1>6, <1>7, <1>9, <1>10

LEMMA ItemRemovedKeeps == ASSUME Inv, NEW v \in Video, ItemRemoved(v) PROVE Inv'
<1> USE VideoIs
<1>0. torn' = torn
  BY DEF ItemRemoved, ghosts
<1>1. /\ UNCHANGED <<rss, asked, waiting, loading, value, history, saved, published, world, ghosts>>
      /\ Erase(v) /\ v \in Collection
  BY DEF ItemRemoved, Collection
<1>2. /\ video' \in [Video -> VideoSet] /\ file' \in [Video -> FileSet]
      /\ Collection' = Collection \ {v}
      /\ \A w \in Video : w # v => file'[w] = file[w] /\ video'[w] = video[w]
      /\ file[v][Other(video[v].conf)] = "none" => file'[v] = NoFile
  BY <1>1, EraseDoes
<1>3. /\ State.file' = file' /\ State.requests' = requests /\ requests' = requests
      /\ \A w : Fetching(w)' <=> Fetching(w)
      /\ \A w : Loading(w)' <=> Loading(w)
      /\ fetching' = fetching
  BY <1>1 DEF State, Fetching, Loading, asked
<1>4. \A w \in Video : Around(State, w)' => Around(State, w)
  BY <1>1, <1>2, <1>3, InvSays DEF Around
<1>5. Neat => Single(State)'
  <2> SUFFICES ASSUME Neat PROVE Single(State)'
    OBVIOUS
  <2>1. Single(State) /\ Range(requests) \subseteq Video /\ Collection \subseteq Video
    BY InvSays DEF Collection
  <2>2. v \notin torn => file'[v] = NoFile
    BY <1>1, <1>2, <2>1, InvSays DEF Single
  <2>3. IsInjective(requests) /\ \A j \in Items : fetching[j] <= 1
    BY <2>1, InvSays DEF Single
  <2>4. \A w \in Range(requests) : ~Fetching(w)' /\ ~Loading(w)'
    BY <1>3, <2>1, InvSays DEF Single
  <2>5. \A w \in Collection' :
          /\ w \notin Range(requests) /\ ~Fetching(w)' /\ ~Loading(w)'
          /\ w \notin torn' => State.file'[w][Other(video[w].conf)'] = "none"
    BY <1>0, <1>2, <1>3, <2>1, InvSays DEF Single
  <2>6. \A w \in Video \ torn' : w \notin Collection' /\ State.file'[w].xml # "none" => Loading(w)'
    BY <1>0, <1>2, <1>3, <2>1, <2>2, InvSays DEF Single, NoFile
  <2>7. \A w \in Video : Item(w) \in trash' =>
          /\ w \notin Range(requests) /\ ~Fetching(w)' /\ ~Loading(w)'
          /\ w \notin Collection' /\ w \notin torn' => State.file'[w] = NoFile
    BY <1>0, <1>1, <1>2, <1>3, <2>1, <2>2, InvSays DEF Single, ghosts
  <2>8. \A w \in Video : Fetching(w)' => ~Loading(w)'
    BY <1>3, <2>1 DEF Single
  <2> QED BY <1>3, <2>3, <2>4, <2>5, <2>6, <2>7, <2>8 DEF Single
<1> QED BY <1>0, <1>1, <1>2, <1>3, <1>4, <1>5, InvSays, VideosStep DEF TInv, ghosts

LEMMA RemoveDownloadKeeps == ASSUME Inv, NEW v \in Video, RemoveDownload(v) PROVE Inv'
<1> USE VideoIs
<1>0. torn' = torn
  BY DEF RemoveDownload, ghosts
<1>1. /\ UNCHANGED <<rss, asked, waiting, value, history, saved, published, world,
                     started, settled, torn>>
      /\ loading = None /\ loading' = [do |-> "remove", v |-> v]
      /\ v \in Collection
      /\ trash' = trash \cup {Item(v)}
  BY DEF RemoveDownload
<1>2. loading' \in {None} \cup Task /\ \A w : ~Loading(w) /\ ~Loading(w)'
  BY <1>1, TaskIs DEF Loading
<1>3. /\ video' \in [Video -> VideoSet] /\ file' \in [Video -> FileSet]
      /\ v \in Collection' => file' = file
      /\ Collection' \in {Collection, Collection \ {v}}
      /\ \A w \in Video : video'[w].conf = video[w].conf \/ (w = v /\ v \notin Collection')
      /\ \A w \in Video : w # v => file'[w] = file[w]
      /\ file[v][Other(video[v].conf)] = "none" /\ v \notin Collection' => file'[v] = NoFile
  <2>1. CASE Erase(v)
    BY <1>1, <2>1, EraseDoes
  <2>2. CASE video' = [video EXCEPT ![v].at = "deleted"] /\ file' = file
    <3>1. video \in [Video -> VideoSet] /\ file \in [Video -> FileSet]
      BY InvSays DEF TInv
    <3>0. video[v] \in VideoSet
      BY <3>1
    <3>2. PICK new \in VideoSet : new = [video[v] EXCEPT !.at = "deleted"]
      BY <3>0 DEF VideoSet
    <3>3. new.at = "deleted" /\ new.conf = video[v].conf
      BY <3>1, <3>2 DEF VideoSet
    <3>4. video' = [video EXCEPT ![v] = new]
      BY <2>2, <3>2
    <3>5. /\ video' \in [Video -> VideoSet] /\ video'[v] = new
          /\ \A w \in Video : w # v => video'[w] = video[w]
      BY <3>1, <3>4
    <3>6. Collection' = Collection
      BY <1>1, <3>3, <3>5 DEF Collection
    <3>7. \A w \in Video : video'[w].conf = video[w].conf
      BY <3>3, <3>5
    <3> QED BY <1>1, <2>2, <3>1, <3>5, <3>6, <3>7
  <2> QED BY <2>1, <2>2 DEF RemoveDownload
<1>4. /\ State.file' = file' /\ State.requests' = requests /\ requests' = requests
      /\ \A w : Fetching(w)' <=> Fetching(w)
      /\ fetching' = fetching
  BY <1>1 DEF State, Fetching, asked
<1>5. \A w \in Video : Around(State, w)' => Around(State, w)
  BY <1>1, <1>2, <1>3, <1>4, InvSays DEF Around
<1>6. Neat => Single(State)'
  <2> SUFFICES ASSUME Neat PROVE Single(State)'
    OBVIOUS
  <2>1. Single(State) /\ Range(requests) \subseteq Video /\ Collection \subseteq Video
    BY InvSays DEF Collection
  <2>2. v \notin Collection' /\ v \notin torn => file'[v] = NoFile
    BY <1>1, <1>3, <2>1, InvSays DEF Single
  <2>3. IsInjective(requests) /\ \A j \in Items : fetching[j] <= 1
    BY <2>1, InvSays DEF Single
  <2>4. \A w \in Range(requests) : ~Fetching(w)' /\ ~Loading(w)'
    BY <1>2, <1>4, <2>1, InvSays DEF Single
  <2>5. \A w \in Collection' :
          /\ w \notin Range(requests) /\ ~Fetching(w)' /\ ~Loading(w)'
          /\ w \notin torn' => State.file'[w][Other(video[w].conf)'] = "none"
    BY <1>0, <1>2, <1>3, <1>4, <2>1, InvSays DEF Single
  <2>6. \A w \in Video \ torn' : w \notin Collection' /\ State.file'[w].xml # "none" => Loading(w)'
    BY <1>0, <1>3, <1>4, <2>1, <2>2, <1>2, InvSays DEF Single, NoFile
  <2>7. \A w \in Video : Item(w) \in trash' =>
          /\ w \notin Range(requests) /\ ~Fetching(w)' /\ ~Loading(w)'
          /\ w \notin Collection' /\ w \notin torn' => State.file'[w] = NoFile
    <3> SUFFICES ASSUME NEW w \in Video, Item(w) \in trash'
                 PROVE  /\ w \notin Range(requests) /\ ~Fetching(w)' /\ ~Loading(w)'
                        /\ w \notin Collection' /\ w \notin torn' => State.file'[w] = NoFile
      OBVIOUS
    <3>1. CASE w = v
      BY <1>0, <1>1, <1>2, <1>4, <2>1, <2>2, <3>1, InvSays DEF Single
    <3>2. CASE w # v /\ Item(w) = Item(v)
      <4>1. ~Around(State, w)
        BY <1>1, <2>1, <3>2, InvSays DEF Neat, Around
      <4> QED BY <1>2, <1>3, <1>4, <3>2, <4>1, InvSays DEF Around
    <3>3. CASE w # v /\ Item(w) # Item(v)
      BY <1>0, <1>1, <1>2, <1>3, <1>4, <2>1, <3>3, InvSays DEF Single
    <3> QED BY <3>1, <3>2, <3>3
  <2>8. \A w \in Video : Fetching(w)' => ~Loading(w)'
    BY <1>2
  <2> QED BY <1>4, <2>3, <2>4, <2>5, <2>6, <2>7, <2>8 DEF Single
<1>7. trash' \in SUBSET history'
  BY <1>1, InvSays
<1> QED BY <1>0, <1>1, <1>2, <1>3, <1>4, <1>5, <1>6, <1>7, InvSays, VideosStep DEF TInv

LEMMA SaveVideoDetailsKeeps ==
    ASSUME Inv, NEW v \in Video, NEW watched \in BOOLEAN, SaveVideoDetails(v, watched)
    PROVE  Inv'
<1> USE VideoIs
<1>0. torn' = torn
  BY DEF SaveVideoDetails, ghosts
<1>1. /\ UNCHANGED <<rss, asked, waiting, loading, history, saved, published, world, ghosts>>
      /\ v \in Collection
      /\ video' = [video EXCEPT ![v].watched = watched]
      /\ value' = IF watched /\ ~video[v].watched THEN Minus(Feed(v)) ELSE value
  BY DEF SaveVideoDetails
<1>2. /\ video \in [Video -> VideoSet] /\ file \in [Video -> FileSet]
      /\ video[v] \in VideoSet /\ file[v] \in FileSet /\ value \in [Feeds -> 0..MaxValue]
  BY InvSays DEF TInv
<1>3. PICK new \in VideoSet : new = [video[v] EXCEPT !.watched = watched]
  BY <1>2 DEF VideoSet
<1>4. new.at = video[v].at /\ new.conf = video[v].conf
  BY <1>2, <1>3 DEF VideoSet
<1>5. video' = [video EXCEPT ![v] = new]
  BY <1>1, <1>3
<1>6. /\ video' \in [Video -> VideoSet]
      /\ \A w \in Video : video'[w].at = video[w].at /\ video'[w].conf = video[w].conf
  BY <1>2, <1>4, <1>5
<1>7. Collection' = Collection
  BY <1>6 DEF Collection
<1>8. PICK conf \in {"tmp", "xml"} : conf = video[v].conf
  BY <1>2 DEF VideoSet
<1>9. PICK c \in Contents : c = IF watched THEN "watched" ELSE "unwatched"
  BY DEF Contents
<1>10. PICK x \in FileSet : x = [file[v] EXCEPT ![conf] = c]
  BY <1>2 DEF FileSet, Contents
<1>11. x[Other(conf)] = file[v][Other(conf)]
  BY <1>2, <1>10 DEF FileSet, Other
<1>12. file' = [file EXCEPT ![v] = x]
  BY <1>8, <1>9, <1>10 DEF SaveVideoDetails
<1>13. /\ file' \in [Video -> FileSet] /\ file'[v] = x
       /\ \A w \in Video : w # v => file'[w] = file[w]
  BY <1>2, <1>12
<1>14. value' \in [Feeds -> 0..MaxValue]
  BY <1>1, <1>2, ValueTyped, InvSays
<1>15. /\ State.file' = file' /\ State.requests' = requests /\ requests' = requests
       /\ \A w : Fetching(w)' <=> Fetching(w)
       /\ \A w : Loading(w)' <=> Loading(w)
       /\ fetching' = fetching
  BY <1>1 DEF State, Fetching, Loading, asked
<1>16. \A w \in Video : Around(State, w)' => Around(State, w)
  BY <1>1, <1>7, <1>13, <1>15, InvSays DEF Around
<1>17. Neat => Single(State)'
  <2> SUFFICES ASSUME Neat PROVE Single(State)'
    OBVIOUS
  <2>1. Single(State) /\ Range(requests) \subseteq Video /\ Collection \subseteq Video
    BY InvSays DEF Collection
  <2>2. IsInjective(requests) /\ \A j \in Items : fetching[j] <= 1
    BY <2>1, InvSays DEF Single
  <2>3. \A w \in Range(requests) : ~Fetching(w)' /\ ~Loading(w)'
    BY <1>15, <2>1, InvSays DEF Single
  <2>4. \A w \in Collection' :
          /\ w \notin Range(requests) /\ ~Fetching(w)' /\ ~Loading(w)'
          /\ w \notin torn' => State.file'[w][Other(video[w].conf)'] = "none"
    <3> TAKE w \in Collection'
    <3>1. /\ w \in Collection /\ w \in Video
          /\ w \notin Range(requests) /\ ~Fetching(w) /\ ~Loading(w)
          /\ w \notin torn => file[w][Other(video[w].conf)] = "none"
      BY <1>7, <2>1, InvSays DEF Single
    <3>2. Other(video[w].conf)' = Other(video[w].conf)
      BY <1>6, <3>1 DEF Other
    <3>3. w \notin torn => file'[w][Other(video[w].conf)] = "none"
      BY <1>8, <1>11, <1>13, <3>1
    <3> QED BY <1>0, <1>15, <3>1, <3>2, <3>3
  <2>5. \A w \in Video \ torn' : w \notin Collection' /\ State.file'[w].xml # "none" => Loading(w)'
    BY <1>0, <1>1, <1>7, <1>13, <1>15, <2>1, InvSays DEF Single
  <2>6. \A w \in Video : Item(w) \in trash' =>
          /\ w \notin Range(requests) /\ ~Fetching(w)' /\ ~Loading(w)'
          /\ w \notin Collection' /\ w \notin torn' => State.file'[w] = NoFile
    BY <1>0, <1>1, <1>7, <1>13, <1>15, <2>1, InvSays DEF Single, ghosts
  <2>7. \A w \in Video : Fetching(w)' => ~Loading(w)'
    BY <1>15, <2>1 DEF Single
  <2> QED BY <1>15, <2>2, <2>3, <2>4, <2>5, <2>6, <2>7 DEF Single
<1> QED BY <1>0, <1>1, <1>6, <1>7, <1>13, <1>14, <1>15, <1>16, <1>17, InvSays, VideosStep
        DEF TInv, ghosts

LEMMA PublishKeeps == ASSUME Inv, NEW i \in Items, Publish(i) PROVE Inv'
<1>1. /\ UNCHANGED <<rss, asked, waiting, loading, mgr, file, saved, world, ghosts>>
      /\ published' = published \cup {i}
  BY DEF Publish
<1>2. TInv'
  BY <1>1 DEF Inv, TInv, rss, asked, mgr, ghosts
<1>3. Commit(State)
  BY <1>1 DEF Commit, State, rss, asked, ghosts
<1>4. Claimed(State)'
  BY <1>1, <1>3, CommitClaims DEF Inv, asked, mgr, ghosts
<1>5. Linked(State)' /\ Going(State)'
  BY <1>1, RssKept
<1>6. Remembered'
  <2>1. Remembered
    BY DEF Inv
  <2>2. Collection' = Collection /\ (May("twice")' <=> May("twice"))
    BY <1>1 DEF Collection, mgr, May
  <2> QED BY <1>1, <2>1, <2>2 DEF Remembered, rss, mgr, ghosts
<1> QED BY <1>2, <1>4, <1>5, <1>6 DEF Inv

LEMMA SubsetSize ==
    ASSUME NEW S, IsFiniteSet(S), NEW T \in SUBSET S
    PROVE  IsFiniteSet(T) /\ Cardinality(T) \in Nat /\ Cardinality(T) <= Cardinality(S)
BY FS_Subset, FS_CardinalityType

LEMMA VideoFinite == IsFiniteSet(Video)
<1>1. IsFiniteSet(Items) /\ IsFiniteSet(1..Copies)
  BY RSSManagerAssumption, FS_Interval
<1> QED BY <1>1, FS_Product DEF Video

(* What is known after a restart is what the saved index or the managers     *)
(* knew, and what is on disk.                                                *)
LEMMA RestartKeeps == ASSUME Inv, NEW crash \in BOOLEAN, Restart(crash) PROVE Inv'
<1> USE VideoIs
<1>0. TInv /\ Remembered
  BY DEF Inv
<1>1. PICK old : old = IF crash THEN saved
                       ELSE [feed |-> feed, recent |-> recent, history |-> history]
  OBVIOUS
<1>2. old \in Index /\ old.history = history
  <2>1. saved \in Index /\ history = saved.history
    BY <1>0, InvSays DEF TInv
  <2>2. CASE crash
    BY <1>1, <2>1, <2>2
  <2>3. CASE ~crash
    <3>1. old = [feed |-> feed, recent |-> recent, history |-> history]
      BY <1>1, <2>3
    <3>2. /\ feed \in [Feeds -> FeedSet] /\ recent \in [Items -> Seen]
          /\ history \in SUBSET Items
      BY <1>0 DEF TInv
    <3> QED BY <3>1, <3>2 DEF Index
  <2> QED BY <2>2, <2>3
<1>3. \A i \in Items : recent[i] = "old" /\ saved.recent[i] = "old" => old.recent[i] = "old"
  <2>1. CASE crash
    BY <1>1, <2>1
  <2>2. CASE ~crash
    <3>1. old.recent = recent
      BY <1>1, <2>2
    <3> QED BY <3>1
  <2> QED BY <2>1, <2>2
<1>4. PICK found \in SUBSET Video : found = OnDisk /\ found = {v \in Video : file[v] # NoFile}
  BY DEF OnDisk
<1>5. PICK now \in SUBSET Items : now = history \cup {Item(v) : v \in found}
  <2>1. \A v \in found : Item(v) \in Items
    BY VideoIs
  <2>2. history \in SUBSET Items
    BY <1>0 DEF TInv
  <2> QED BY <2>1, <2>2
<1>6. /\ feed' = [f \in Feeds |-> [old.feed[f] EXCEPT !.loaded = FALSE, !.page = feed[f].page]]
      /\ recent' = old.recent
      /\ history' = now /\ saved' = [old EXCEPT !.history = now]
      /\ settled' = settled \cup {Item(v) : v \in found}
      /\ value' = [f \in Feeds |->
                 Cardinality({v \in found : Feed(v) = f /\ ~video'[v].watched})
                     % (MaxValue + 1)]
  BY <1>1, <1>2, <1>4, <1>5 DEF Restart
<1>7. PICK conf \in [found -> {"tmp", "xml"}] :
          /\ \A v \in found : file[v][conf[v]] # "none"
          /\ video' = [v \in Video |->
                IF v \in found THEN [at |-> "live", conf |-> conf[v],
                                     watched |-> file[v][conf[v]] = "watched"]
                ELSE NoVideo]
  <2>1. PICK conf \in [OnDisk -> {"tmp", "xml"}] :
            /\ \A v \in OnDisk : file[v][conf[v]] # "none"
            /\ video' = LoadedFrom(conf)
    BY DEF Restart
  <2> QED BY <1>4, <2>1 DEF LoadedFrom
<1>8. /\ transfers' = [f \in Feeds |-> [current |-> FALSE, stale |-> 0]]
      /\ updates' = <<>> /\ progress' = [f \in Feeds |-> 0]
      /\ requests' = <<>> /\ fetching' = [i \in Items |-> 0]
      /\ waiting' = None /\ loading' = None /\ started' = {}
      /\ torn' = IF crash THEN torn \cup TwoMetafiles ELSE torn
      /\ UNCHANGED <<file, published, world, trash>>
      /\ crash => May("crash")
      /\ crash \/ loading = None
  BY DEF Restart
<1>9. feed' \in [Feeds -> FeedSet] /\ Paged(feed')
  <2>1. \A f \in Feeds : /\ [old.feed[f] EXCEPT !.loaded = FALSE, !.page = feed[f].page] \in FeedSet
                         /\ ~[old.feed[f] EXCEPT !.loaded = FALSE, !.page = feed[f].page].loaded
    <3> TAKE f \in Feeds
    <3>1. old.feed[f] \in FeedSet
      BY <1>2 DEF Index
    <3>2. feed[f].page \in {None} \cup SUBSET Items
      BY <1>0 DEF TInv, FeedSet
    <3> QED BY <3>1, <3>2 DEF FeedSet
  <2> QED BY <1>6, <2>1 DEF Paged
<1>10. saved' \in Index /\ saved'.history = now /\ saved'.recent = old.recent
  BY <1>2, <1>6 DEF Index
<1>11. recent' \in [Items -> Seen]
  BY <1>2, <1>6 DEF Index
<1>12. \A v \in Video : /\ v \in found => video'[v].at = "live" /\ video'[v].conf = conf[v]
                        /\ v \notin found => video'[v] = NoVideo
  BY <1>7
<1>13. video' \in [Video -> VideoSet]
  <2>1. \A v \in found : [at |-> "live", conf |-> conf[v],
                          watched |-> file[v][conf[v]] = "watched"] \in VideoSet
    BY <1>7 DEF VideoSet
  <2> QED BY <1>7, <2>1, VideoSetIs
<1>14. Collection' = found
  BY <1>12, VideoSetIs DEF Collection
<1>15. value' \in [Feeds -> 0..MaxValue]
  <2>1. MaxValue \in Nat
    BY RSSManagerAssumption
  <2>2. \A f \in Feeds : Cardinality({v \in found : Feed(v) = f /\ ~video'[v].watched}) \in Nat
    BY VideoFinite, SubsetSize
  <2>3. \A f \in Feeds : Cardinality({v \in found : Feed(v) = f /\ ~video'[v].watched})
                             % (MaxValue + 1) \in 0..MaxValue
    BY <2>1, <2>2, Modulo
  <2> QED BY <1>6, <2>3
<1>16. TInv'
  <2>1. transfers' \in [Feeds -> Answers]
    BY <1>8 DEF Answers
  <2>2. updates' \in Seq(Feeds) /\ requests' \in Seq(Video) /\ Len(requests') <= MaxRequests
    BY <1>8, RSSManagerAssumption
  <2>3. progress' \in [Feeds -> Nat] /\ fetching' \in [Items -> Nat]
    BY <1>8
  <2>5. torn' \in SUBSET Video
    BY <1>0, <1>8 DEF TInv, TwoMetafiles
  <2>4. settled' \in SUBSET Items
    <3>1. settled \in SUBSET Items /\ {Item(v) : v \in found} \subseteq now
      BY <1>0, <1>5 DEF TInv
    <3> QED BY <1>5, <1>6, <3>1
  <2> QED BY <1>0, <1>5, <1>6, <1>8, <1>9, <1>10, <1>11, <1>13, <1>15, <2>1, <2>2, <2>3, <2>4, <2>5
          DEF TInv
<1>17. /\ State.file' = file /\ State.requests' = <<>> /\ State.started' = {}
       /\ State.updates' = <<>> /\ State.progress' = progress' /\ State.feed' = feed'
       /\ State.transfers' = transfers'
       /\ \A v : ~Fetching(v)' \/ v \notin Video
       /\ \A v : ~Loading(v)'
       /\ \A liberty : May(liberty)' <=> May(liberty)
  BY <1>8 DEF State, Fetching, Loading, May
<1>18. \A v \in Video : Around(State, v)' <=> v \in found
  BY <1>4, <1>14, <1>17, NoEntries DEF Around
<1>19. \A v \in found : Around(State, v)
  BY <1>4, InvSays DEF Around
<1>20. Remembered'
  <2>1. \A v \in Collection' : Item(v) \in history'
    BY <1>5, <1>6, <1>14
  <2>2. trash' \subseteq history' /\ history' = saved'.history
    BY <1>2, <1>5, <1>6, <1>8, <1>10, InvSays
  <2>3. \A i \in settled' : i \in history' \/ (recent'[i] = "old" /\ saved'.recent[i] = "old")
    <3> SUFFICES ASSUME NEW i \in settled, i \notin history'
                 PROVE  recent'[i] = "old" /\ saved'.recent[i] = "old"
      BY <1>5, <1>6
    <3>1. i \notin history /\ i \in Items
      BY <1>0, <1>5, <1>6 DEF TInv
    <3>2. recent[i] = "old" /\ saved.recent[i] = "old"
      BY <1>0, <3>1 DEF Remembered
    <3> QED BY <1>3, <1>6, <1>10, <3>1, <3>2
  <2> QED BY <1>8, <2>1, <2>2, <2>3 DEF Remembered
<1>21. Claimed(State)'
  <2>1. \A v \in Video : Around(State, v)' => Item(v) \in State.started' \cup history'
    BY <1>5, <1>6, <1>18
  <2>2. \A i \in State.started' : State.recent'[i] = "old"
    BY <1>17
  <2>3. \A v \in Range(State.requests') : Kind[Item(v)] = "mtti" => v[2] = 1
    BY <1>17, NoEntries
  <2>4. ~May("twice")' =>
          \A v, w \in Video : Around(State, v)' /\ Around(State, w)' /\ Item(v) = Item(w) => v = w
    BY <1>17, <1>18, <1>19, InvSays
  <2>5. Neat' => Single(State)'
    <3> SUFFICES ASSUME Neat PROVE Single(State)'
      BY <1>17 DEF Neat
    <3>1. Single(State)
      BY InvSays
    <3>2. \A w \in found : w \notin torn' => file[w][Other(conf[w])] = "none"
      <4> SUFFICES ASSUME NEW w \in found, w \notin torn'
                   PROVE  file[w][Other(conf[w])] = "none"
        OBVIOUS
      <4>0. w \in Video /\ file[w] # NoFile
        BY <1>4
      <4>1. file[w] \in FileSet /\ file[w][conf[w]] # "none" /\ conf[w] \in {"tmp", "xml"}
        BY <1>0, <1>7 DEF TInv
      <4>2. CASE crash
        <5>1. w \notin TwoMetafiles
          BY <1>8, <4>2
        <5>2. file[w].tmp = "none" \/ file[w].xml = "none"
          BY <4>0, <5>1 DEF TwoMetafiles
        <5> QED BY <4>1, <5>2 DEF Other
      <4>3. CASE ~crash /\ w \in Collection
        <5>1. file[w][Other(video[w].conf)] = "none" /\ video[w].conf \in {"tmp", "xml"}
          BY <1>0, <1>8, <3>1, <4>3, InvSays DEF Single, TInv, VideoSet
        <5> QED BY <4>1, <5>1 DEF Other
      <4>4. CASE ~crash /\ w \notin Collection
        <5>1. file[w].xml = "none"
          BY <1>8, <3>1, <4>0, <4>4, InvSays DEF Single, Loading
        <5> QED BY <4>1, <5>1 DEF Other
      <4> QED BY <4>2, <4>3, <4>4
    <3>3. \A w \in Collection' :
            /\ w \notin Range(State.requests') /\ ~Fetching(w)' /\ ~Loading(w)'
            /\ w \notin torn' => State.file'[w][Other(video[w].conf)'] = "none"
      <4> TAKE w \in Collection'
      <4>1. w \in found /\ Other(video[w].conf)' = Other(conf[w])
        BY <1>12, <1>14 DEF Other
      <4> QED BY <1>17, <3>2, <4>1, NoEntries
    <3>4. \A w \in Video : w \notin Collection' => State.file'[w] = NoFile
      BY <1>4, <1>14, <1>17
    <3>5. IsInjective(State.requests')
      BY <1>17, NoEntries
    <3>6. \A i \in Items : fetching'[i] <= 1
      BY <1>8
    <3>7. Range(State.requests') = {} /\ NoFile.xml = "none"
      BY <1>17, NoEntries DEF NoFile
    <3>8. \A w \in Video : ~Fetching(w)' /\ ~Loading(w)'
      BY <1>17
    <3> QED BY <3>3, <3>4, <3>5, <3>6, <3>7, <3>8 DEF Single
  <2> QED BY <2>1, <2>2, <2>3, <2>4, <2>5 DEF Claimed
<1>22. Linked(State)' /\ Going(State)'
  <2>1. \A f \in Feeds : ~(progress'[f] > 0)
    BY <1>8
  <2> QED BY <1>17, <2>1, NoEntries DEF Linked, Going
<1> QED BY <1>16, <1>20, <1>21, <1>22 DEF Inv

-----------------------------------------------------------------------------
(* The invariant.                                                            *)
LEMMA InitInv == ASSUME Init PROVE Inv
<1> USE VideoIs
<1> DEFINE Known0 == [NewFeed EXCEPT !.auto = TRUE, !.refreshed = TRUE, !.due = FALSE, !.page = {}]
<1>1. Known0 \in FeedSet /\ ~Known0.loaded
  BY DEF NewFeed, FeedSet
<1>2. feed = [f \in Feeds |-> IF f \in world.known THEN Known0 ELSE NoFeed]
  BY DEF Init
<1> HIDE DEF Known0
<1>3. feed \in [Feeds -> FeedSet] /\ \A f \in Feeds : ~feed[f].loaded
  BY <1>1, <1>2, NewFeedTyped
<1>4. recent \in [Items -> Seen]
  BY DEF Init, Seen
<1>5. saved \in Index /\ saved.history = {}
  BY <1>3, <1>4 DEF Init, Index
<1>6. TInv
  <2>1. transfers \in [Feeds -> Answers]
    BY DEF Init, Answers
  <2>2. updates \in Seq(Feeds) /\ requests \in Seq(Video) /\ Len(requests) <= MaxRequests
    BY RSSManagerAssumption DEF Init
  <2>3. progress \in [Feeds -> Nat] /\ fetching \in [Items -> Nat]
    BY DEF Init
  <2>4. video \in [Video -> VideoSet]
    BY VideoSetIs DEF Init
  <2>5. file \in [Video -> FileSet]
    BY DEF Init, NoFile, FileSet, Contents
  <2>6. value \in [Feeds -> 0..MaxValue]
    BY RSSManagerAssumption DEF Init
  <2> QED BY <1>3, <1>4, <1>5, <2>1, <2>2, <2>3, <2>4, <2>5, <2>6 DEF TInv, Init, Paged
<1>7. Collection = {}
  BY VideoSetIs DEF Init, Collection
<1>8. \A v \in Video : ~Around(State, v) /\ file[v] = NoFile
  BY <1>7, NoEntries DEF Init, Around, State, Fetching, Loading
<1>9. Claimed(State)
  <2>1. /\ State.requests = <<>> /\ State.started = {} /\ State.file = file
    BY DEF Init, State
  <2>2. Single(State)
    BY <1>7, <1>8, <2>1, NoEntries DEF Single, Init, Fetching, Loading, NoFile
  <2> QED BY <1>8, <2>1, <2>2, NoEntries DEF Claimed
<1>10. Remembered
  BY <1>5, <1>7 DEF Remembered, Init
<1>11. Linked(State) /\ Going(State)
  BY NoEntries DEF Init, State, Linked, Going
<1> QED BY <1>6, <1>9, <1>10, <1>11 DEF Inv

LEMMA UnchangedInv == ASSUME Inv, UNCHANGED vars PROVE Inv'
<1>1. /\ UNCHANGED <<rss, asked, waiting, loading, mgr, file, saved, published, world, ghosts>>
  BY DEF vars
<1>2. TInv'
  BY <1>1 DEF Inv, TInv, rss, asked, mgr, ghosts
<1>3. Commit(State)
  BY <1>1 DEF Commit, State, rss, asked, ghosts
<1>4. Claimed(State)'
  BY <1>1, <1>3, CommitClaims DEF Inv, asked, mgr, ghosts
<1>5. Linked(State)' /\ Going(State)'
  BY <1>1, RssKept
<1>6. Remembered'
  <2>1. Remembered
    BY DEF Inv
  <2>2. Collection' = Collection /\ (May("twice")' <=> May("twice"))
    BY <1>1 DEF Collection, mgr, May
  <2> QED BY <1>1, <2>1, <2>2 DEF Remembered, rss, mgr, ghosts
<1> QED BY <1>2, <1>4, <1>5, <1>6 DEF Inv

LEMMA NextInv == ASSUME Inv, Next PROVE Inv'
<1>1. ASSUME NEW c \in Call, Run(c) \/ Wait(c) PROVE Inv'
  BY <1>1, RunKeeps, WaitKeeps
<1>2. ASSUME NEW f \in Feeds,
             \/ AddFeed(f) \/ NameFeed(f) \/ RemoveChannel(f) \/ Refresh(f)
             \/ SetChannelAutoDownload(f)
             \/ NotifyFailed(f) \/ NotifyStale(f) \/ HourPasses(f)
      PROVE  Inv'
  BY <1>2, AddFeedKeeps, NameFeedKeeps, RemoveChannelKeeps, RefreshKeeps,
     SetChannelAutoDownloadKeeps, NotifyFailedKeeps, NotifyStaleKeeps, HourPassesKeeps
<1>3. ASSUME NEW fs \in {Listed} \cup {{f} : f \in Listed}, MarkAsViewed(fs) PROVE Inv'
  <2>1. fs \in SUBSET Feeds
    BY DEF Listed
  <2> QED BY <1>3, <2>1, MarkAsViewedKeeps
<1>4. CASE ClearChannels \/ CheckForUpdates
  BY <1>4, ClearChannelsKeeps, CheckForUpdatesKeeps
<1>5. CASE Fetch \/ Load \/ Cancel \/ Loaded \/ Removed
  BY <1>5, FetchKeeps, LoadKeeps, CancelKeeps, LoadedKeeps, RemovedKeeps
<1>6. ASSUME NEW i \in Items, Publish(i) \/ Fetched(i) \/ FetchFailed(i) PROVE Inv'
  BY <1>6, PublishKeeps, FetchedKeeps, FetchFailedKeeps
<1>7. ASSUME NEW v \in Video, RemoveDownload(v) \/ ItemRemoved(v) PROVE Inv'
  BY <1>7, RemoveDownloadKeeps, ItemRemovedKeeps
<1>8. ASSUME NEW v \in Video, NEW watched \in BOOLEAN, SaveVideoDetails(v, watched) PROVE Inv'
  BY <1>8, SaveVideoDetailsKeeps
<1>9. ASSUME NEW crash \in BOOLEAN, Restart(crash) PROVE Inv'
  BY <1>9, RestartKeeps
<1> QED BY <1>1, <1>2, <1>3, <1>4, <1>5, <1>6, <1>7, <1>8, <1>9 DEF Next

THEOREM Invariance == Spec => []Inv
<1>1. Init => Inv
  BY InitInv
<1>2. Inv /\ [Next]_vars => Inv'
  BY UnchangedInv, NextInv
<1> QED BY <1>1, <1>2, PTL DEF Spec

(* The state has its type: the dispatcher holds no more requests than        *)
(* m_QueuedDownloads, a DWORD counts the videos, a call that waits is a call.*)
THEOREM TypeCorrect == Spec => []TypeOK
<1>1. Inv => TypeOK
  BY DEF Inv, TInv, TypeOK, FeedSet, Seen, Answers, VideoSet, FileSet, Contents
<1> QED BY <1>1, Invariance, PTL

(* Nothing that waits for an answer waits in vain, in whatever order feeds   *)
(* are added, removed, refreshed and answered (FRSSManager::Notify,          *)
(* UpdateNextFeed, RemoveChannel).                                           *)
THEOREM ChainIsAlive == Spec => []ChainAlive
<1>1. Inv => ChainAlive
  <2> SUFFICES ASSUME Inv PROVE ChainAlive
    OBVIOUS
  <2>1. \A f \in Listed : f \in Feeds /\ feed[f].listed
    BY DEF Listed
  <2>2. \A f \in Feeds : progress[f] \in Nat
    BY DEF Inv, TInv
  <2> QED BY <2>1, <2>2, SavedTyped DEF Inv, Linked, Going, ChainAlive
<1> QED BY <1>1, Invariance, PTL

(* An item is in the collection once, also after a restart or a crash, unless*)
(* the user asked for it twice (FDownloadMgr::AddDownload, FindByGUID).      *)
THEOREM OnceLoaded == Spec => []LoadedOnce
<1>1. Inv => LoadedOnce
  <2> SUFFICES ASSUME Inv, ~May("twice"), NEW v \in Collection, NEW w \in Collection,
                      Item(v) = Item(w)
               PROVE  v = w
    BY DEF LoadedOnce
  <2>1. v \in Video /\ w \in Video /\ Around(State, v) /\ Around(State, w)
    BY DEF Collection, Around
  <2> QED BY <2>1, InvSays
<1> QED BY <1>1, Invariance, PTL

-----------------------------------------------------------------------------
(* What the steps do with the requests and the videos.                       *)
Quiet == UNCHANGED <<requests, loading, video, value, world>>

LEMMA StepIs ==
    ASSUME Inv, [Next]_vars
    PROVE  \/ \E c \in Call : Run(c)
           \/ Quiet
           \/ Fetch \/ Load \/ Cancel \/ Loaded \/ Removed
           \/ \E i \in Items : Fetched(i)
           \/ \E v \in Video : RemoveDownload(v) \/ ItemRemoved(v)
           \/ \E v \in Video, watched \in BOOLEAN : SaveVideoDetails(v, watched)
           \/ \E crash \in BOOLEAN : Restart(crash)
<1>1. CASE UNCHANGED vars
  BY <1>1 DEF vars, asked, mgr, Quiet
<1>2. ASSUME NEW c \in Call, Wait(c) PROVE Quiet
  BY <1>2 DEF Wait, asked, mgr, Quiet
<1>3. ASSUME NEW f \in Feeds,
             \/ AddFeed(f) \/ NameFeed(f) \/ RemoveChannel(f) \/ Refresh(f)
             \/ SetChannelAutoDownload(f)
             \/ NotifyFailed(f) \/ NotifyStale(f) \/ HourPasses(f)
      PROVE  Quiet
  <2>1. CASE AddFeed(f)
    BY <2>1, AddFeedKeeps DEF AddFeed, Else, mgr, Quiet
  <2>2. CASE NameFeed(f)
    BY <2>2 DEF NameFeed, Else, mgr, Quiet
  <2>3. CASE RemoveChannel(f)
    BY <2>3, RemoveChannelKeeps DEF RemoveChannel, Else, mgr, Quiet
  <2>4. CASE Refresh(f)
    BY <2>4, RefreshKeeps DEF Refresh, Else, mgr, Quiet
  <2>5. CASE SetChannelAutoDownload(f)
    BY <2>5 DEF SetChannelAutoDownload, Else, mgr, Quiet
  <2>6. CASE NotifyFailed(f)
    BY <2>6, NotifyFailedKeeps DEF NotifyFailed, Else, mgr, Quiet
  <2>7. CASE NotifyStale(f)
    BY <2>7, NotifyStaleKeeps DEF NotifyStale, Else, mgr, Quiet
  <2>8. CASE HourPasses(f)
    BY <2>8 DEF HourPasses, asked, mgr, Quiet
  <2> QED BY <1>3, <2>1, <2>2, <2>3, <2>4, <2>5, <2>6, <2>7, <2>8
<1>4. ASSUME NEW fs, MarkAsViewed(fs) PROVE Quiet
  BY <1>4 DEF MarkAsViewed, Else, mgr, Quiet
<1>5. CASE ClearChannels
  BY <1>5 DEF ClearChannels, Else, mgr, Quiet
<1>6. CASE CheckForUpdates
  BY <1>6, CheckForUpdatesKeeps DEF CheckForUpdates, Else, mgr, Quiet
<1>7. ASSUME NEW i \in Items, Publish(i) \/ FetchFailed(i) PROVE Quiet
  BY <1>7 DEF Publish, FetchFailed, asked, mgr, Quiet
<1> QED BY <1>1, <1>2, <1>3, <1>4, <1>5, <1>6, <1>7 DEF Next

LEMMA PlacesOfFront ==
    ASSUME NEW q \in Seq(Video), q # <<>>, NEW i
    PROVE  Places(Front(q), i) \subseteq Places(q, i)
<1>1. /\ DOMAIN Front(q) = 1..Len(q) - 1 /\ DOMAIN q = 1..Len(q) /\ Len(q) \in Nat
      /\ \A n \in 1..Len(q) - 1 : Front(q)[n] = q[n]
  BY FrontEntries, SeqEntries
<1> QED BY <1>1 DEF Places

LEMMA PlacesFinite ==
    ASSUME NEW q \in Seq(Video), NEW i, NEW T \in SUBSET Places(q, i)
    PROVE  Cardinality(T) <= Cardinality(Places(q, i)) /\ Cardinality(T) \in Nat
           /\ Cardinality(Places(q, i)) \in Nat
<1>1. IsFiniteSet(1..Len(q)) /\ Places(q, i) \in SUBSET (1..Len(q))
  <2>1. Len(q) \in Nat /\ DOMAIN q = 1..Len(q)
    BY SeqEntries
  <2>2. IsFiniteSet(1..Len(q))
    BY <2>1, FS_Interval
  <2> QED BY <2>1, <2>2 DEF Places
<1>2. IsFiniteSet(Places(q, i)) /\ Cardinality(Places(q, i)) \in Nat
  BY <1>1, SubsetSize
<1> QED BY <1>2, SubsetSize

(* What was in the collection or was marked by the user is not requested     *)
(* again unless the user asks, through restarts and crashes                  *)
(* (FRSSManager::OnFeedLoaded, FVideoHistory, SaveIndex).                    *)
THEOREM NothingUnasked == Spec => NeverUnasked
<1> DEFINE Step == \A i \in Items : Cardinality(Requested(i)') > Cardinality(Requested(i))
                                    => i \notin settled'
<1>1. ASSUME Inv, [Next]_vars PROVE Step
  <2>0. requests \in Seq(Video)
    BY <1>1, InvSays DEF TInv
  <2>1. /\ \A i : Requested(i)' = Places(requests', i)
        /\ \A i : Requested(i) = Places(requests, i)
    BY DEF Requested, Places
  <2>2. ASSUME \A i \in Items : Requested(i)' \subseteq Requested(i) PROVE Step
    <3> SUFFICES ASSUME NEW i \in Items
                 PROVE  ~(Cardinality(Requested(i)') > Cardinality(Requested(i)))
      OBVIOUS
    <3>1. PICK T \in SUBSET Places(requests, i) : T = Requested(i)'
      BY <2>1, <2>2
    <3>2. Cardinality(T) <= Cardinality(Places(requests, i)) /\ Cardinality(T) \in Nat
          /\ Cardinality(Places(requests, i)) \in Nat
      BY <2>0, PlacesFinite
    <3> QED BY <2>1, <3>1, <3>2
  <2>3. ASSUME requests' = requests PROVE Step
    BY <2>1, <2>2, <2>3
  <2>4. ASSUME requests # <<>>, requests' = Front(requests) PROVE Step
    BY <2>0, <2>1, <2>2, <2>4, PlacesOfFront
  <2>5. ASSUME NEW c \in Call, Run(c) PROVE Step
    <3>1. PICK s : s = After(c)
      OBVIOUS
    <3>2. /\ requests' = s.requests
          /\ \A i \in Spared(c) : Places(s.requests, i) = Places(requests, i)
      BY <1>1, <2>5, <3>1, AfterGoes DEF Run, Commit
    <3>3. \A i \in settled' : i \in settled /\ (c.do = "DownloadItem" => i # c.i)
      BY <2>5 DEF Run
    <3>4. \A i \in settled' \cap Items : i \in Spared(c)
      BY <1>1, <3>3 DEF Inv, Remembered, Spared
    <3>5. \A i \in settled' \cap Items : Requested(i)' = Requested(i)
      BY <2>1, <3>2, <3>4
    <3> SUFFICES ASSUME NEW i \in Items, i \in settled'
                 PROVE  ~(Cardinality(Requested(i)') > Cardinality(Requested(i)))
      OBVIOUS
    <3>6. Cardinality(Requested(i)) \in Nat
      BY <2>0, <2>1, PlacesFinite
    <3> QED BY <3>5, <3>6
  <2>6. ASSUME NEW crash \in BOOLEAN, Restart(crash) PROVE Step
    <3>1. requests' = <<>> /\ DOMAIN <<>> = {}
      <4>1. <<>> \in Seq(Video) /\ Len(<<>>) = 0
        BY EmptySeq
      <4>2. DOMAIN <<>> = 1..0
        BY <4>1, SeqEntries
      <4>3. DOMAIN <<>> = {}
        BY <4>2
      <4>4. requests' = <<>>
        BY <2>6 DEF Restart
      <4> QED BY <4>3, <4>4
    <3>2. \A i : Requested(i)' = {}
      BY <2>1, <3>1 DEF Places
    <3> QED BY <2>2, <3>2
  <2>7. CASE Quiet
    BY <2>3, <2>7 DEF Quiet
  <2>8. CASE Fetch \/ Load \/ Cancel
    BY <2>4, <2>8 DEF Fetch, Load, Cancel
  <2>9. CASE Loaded \/ Removed
    BY <2>3, <2>9 DEF Loaded, Removed, asked
  <2>10. ASSUME NEW i \in Items, Fetched(i) PROVE Step
    BY <2>3, <2>10 DEF Fetched
  <2>11. ASSUME NEW v \in Video, RemoveDownload(v) \/ ItemRemoved(v) PROVE Step
    BY <2>3, <2>11 DEF RemoveDownload, ItemRemoved, asked
  <2>12. ASSUME NEW v \in Video, NEW watched \in BOOLEAN, SaveVideoDetails(v, watched) PROVE Step
    BY <2>3, <2>12 DEF SaveVideoDetails, asked
  <2> HIDE DEF Step
  <2> QED BY <1>1, <2>5, <2>6, <2>7, <2>8, <2>9, <2>10, <2>11, <2>12, StepIs
<1>2. Inv /\ [Next]_vars => [Step]_vars
  BY <1>1
<1> QED BY <1>2, Invariance, PTL DEF Spec, NeverUnasked

(* A video that was deleted and erased does not come back, from a request or *)
(* at a later start, after a crash too unless the crash left two metafiles   *)
(* of it (FDownloadMgr::EraseDownload, LoadDownload, LoadStorage).           *)
THEOREM ErasedGone == Spec => ErasedStaysAway
<1> DEFINE Step == May("twice")
                   \/ \A v \in Video \ torn : video[v].at = "absent" /\ video'[v].at = "live"
                                              => Item(v) \notin trash
<1>1. ASSUME Inv, [Next]_vars PROVE Step
  <2> SUFFICES ASSUME Neat, NEW v \in Video \ torn, v \notin Collection, video'[v].at = "live"
               PROVE  Item(v) \notin trash
    BY DEF Neat, Collection
  <2>0. /\ Single(State) /\ video \in [Video -> VideoSet] /\ video[v].at = "absent"
        /\ file \in [Video -> FileSet] /\ State.file = file
    BY <1>1, InvSays DEF TInv, Collection
  <2>1. ASSUME video' = video PROVE FALSE
    BY <2>0, <2>1
  <2>2. CASE Quiet
    BY <2>1, <2>2 DEF Quiet
  <2>3. ASSUME NEW c \in Call, Run(c) PROVE FALSE
    BY <2>1, <2>3 DEF Run, mgr
  <2>4. CASE Fetch \/ Load \/ Cancel \/ Removed
    BY <2>1, <2>4 DEF Fetch, Load, Cancel, Removed, mgr
  <2>5. ASSUME NEW i \in Items, Fetched(i) PROVE FALSE
    BY <2>1, <2>5 DEF Fetched, mgr
  <2>6. ASSUME NEW w \in Video, RemoveDownload(w) PROVE FALSE
    <3>1. w \in Collection
      BY <2>6 DEF RemoveDownload
    <3>2. CASE Erase(w)
      <4>1. \A u \in Video : u # w => video'[u] = video[u]
        BY <1>1, <3>1, <3>2, EraseDoes
      <4> QED BY <2>0, <3>1, <4>1
    <3>3. CASE video' = [video EXCEPT ![w].at = "deleted"]
      <4>1. w # v
        BY <3>1
      <4>2. video'[v] = video[v]
        BY <2>0, <3>3, <4>1
      <4> QED BY <2>0, <4>2
    <3> QED BY <2>6, <3>2, <3>3 DEF RemoveDownload
  <2>7. ASSUME NEW w \in Video, ItemRemoved(w) PROVE FALSE
    <3>1. w \in Collection /\ Erase(w)
      BY <2>7 DEF ItemRemoved, Collection
    <3>2. \A u \in Video : u # w => video'[u] = video[u]
      BY <1>1, <3>1, EraseDoes
    <3> QED BY <2>0, <3>1, <3>2
  <2>8. ASSUME NEW w \in Video, NEW watched \in BOOLEAN, SaveVideoDetails(w, watched) PROVE FALSE
    <3>1. w # v /\ video' = [video EXCEPT ![w].watched = watched]
      BY <2>8 DEF SaveVideoDetails
    <3>2. video'[v] = video[v]
      BY <2>0, <3>1
    <3> QED BY <2>0, <3>2
  <2>9. CASE Loaded
    <3>1. PICK w \in Video : w = loading.v
      BY <1>1, <2>9, InvSays, TaskIs DEF Loaded, TInv
    <3>2. Loading(w)
      BY <2>9, <3>1 DEF Loaded, Loading
    <3>3. Item(w) \notin trash
      BY <2>0, <3>2 DEF Single
    <3>4. v = w
      <4> SUFFICES ASSUME v # w PROVE FALSE
        OBVIOUS
      <4>1. video' = video \/ video' = [video EXCEPT ![w] = [NoVideo EXCEPT !.at = "live"]]
        BY <2>9, <3>1 DEF Loaded, mgr
      <4>2. video'[v] = video[v]
        BY <2>0, <4>1
      <4> QED BY <2>0, <4>2
    <3> QED BY <3>3, <3>4
  <2>10. ASSUME NEW crash \in BOOLEAN, Restart(crash) PROVE Item(v) \notin trash
    <3>1. PICK conf : video' = LoadedFrom(conf)
      BY <2>10 DEF Restart
    <3>2. v \in OnDisk
      <4> SUFFICES ASSUME v \notin OnDisk PROVE FALSE
        OBVIOUS
      <4>1. video'[v] = NoVideo
        BY <3>1 DEF LoadedFrom
      <4> QED BY <4>1, VideoSetIs
    <3>3. file[v] # NoFile
      BY <3>2 DEF OnDisk
    <3> QED BY <2>0, <3>3 DEF Single
  <2> QED BY <1>1, <2>2, <2>3, <2>4, <2>5, <2>6, <2>7, <2>8, <2>9, <2>10, StepIs
<1>2. Inv /\ [Next]_vars => [Step]_vars
  BY <1>1
<1> QED BY <1>2, Invariance, PTL DEF Spec, ErasedStaysAway

-----------------------------------------------------------------------------
(* The value of a channel.                                                   *)
LEMMA WrapsNot ==
    ASSUME NEW m \in Nat
    PROVE  /\ \A x \in 0..m : x % (m + 1) = x
           /\ \A x \in 1..m : (x + m) % (m + 1) = x - 1
OBVIOUS

LEMMA UnwatchedCounts ==
    ASSUME NEW f
    PROVE  /\ IsFiniteSet(Unwatched(f)) /\ Cardinality(Unwatched(f)) \in Nat
           /\ Cardinality(Unwatched(f)) <= Cardinality(Video) /\ Cardinality(Video) \in Nat
           /\ \A v \in Video : v \notin Unwatched(f) =>
                 /\ Cardinality(Unwatched(f) \cup {v}) = Cardinality(Unwatched(f)) + 1
                 /\ Cardinality(Unwatched(f) \cup {v}) <= Cardinality(Video)
           /\ \A v \in Unwatched(f) :
                 Cardinality(Unwatched(f) \ {v}) = Cardinality(Unwatched(f)) - 1
<1> DEFINE U == Unwatched(f)
<1>1. U \in SUBSET Video
  BY DEF Unwatched
<1> HIDE DEF U
<1>2. /\ IsFiniteSet(U) /\ Cardinality(U) \in Nat
      /\ Cardinality(U) <= Cardinality(Video) /\ Cardinality(Video) \in Nat
  BY <1>1, VideoFinite, SubsetSize, FS_CardinalityType
<1>3. ASSUME NEW v \in Video, v \notin U
      PROVE  /\ Cardinality(U \cup {v}) = Cardinality(U) + 1
             /\ Cardinality(U \cup {v}) <= Cardinality(Video)
  <2>1. Cardinality(U \cup {v}) = Cardinality(U) + 1
    BY <1>2, <1>3, FS_AddElement
  <2>2. U \cup {v} \in SUBSET Video
    BY <1>1
  <2> QED BY <2>1, <2>2, VideoFinite, SubsetSize
<1>4. ASSUME NEW v \in U PROVE Cardinality(U \ {v}) = Cardinality(U) - 1
  BY <1>2, FS_RemoveElement
<1> QED BY <1>2, <1>3, <1>4 DEF U

(* The step of one video, of channel f.                                      *)
Counts(f) == value[f] = Cardinality(Unwatched(f)) + Leaving(f)

LEMMA CountsKept ==
    ASSUME NEW f \in Feeds, Counts(f), value'[f] = value[f],
           Unwatched(f)' = Unwatched(f), Leaving(f)' = Leaving(f)
    PROVE  Counts(f)'
BY DEF Counts

LEMMA CountsStep ==
    ASSUME Inv, [Next]_vars, Cardinality(Video) <= MaxValue, ~May("watched"), ~May("late"),
           \A f \in Feeds : Counts(f), NEW f \in Feeds
    PROVE  Counts(f)'
<1> USE VideoIs
<1>0. /\ video \in [Video -> VideoSet] /\ value \in [Feeds -> 0..MaxValue]
      /\ loading \in {None} \cup Task /\ MaxValue \in Nat
  BY InvSays, RSSManagerAssumption DEF TInv
<1>1. ASSUME UNCHANGED <<video, value, loading>> PROVE Counts(f)'
  BY <1>1, CountsKept DEF Unwatched, Leaving
<1>2. ASSUME video' = video, value' = value, loading = None,
             NEW v, loading' = [do |-> "load", v |-> v]
      PROVE  Counts(f)'
  <2>1. Leaving(f) = 0 /\ Leaving(f)' = 0
    BY <1>2 DEF Leaving
  <2> QED BY <1>2, <2>1, CountsKept DEF Unwatched
<1>3. CASE Quiet
  BY <1>1, <1>3 DEF Quiet
<1>4. ASSUME NEW c \in Call, Run(c) PROVE Counts(f)'
  BY <1>1, <1>4 DEF Run, mgr
<1>5. CASE Fetch \/ Cancel
  BY <1>1, <1>5 DEF Fetch, Cancel, mgr
<1>6. CASE Load
  BY <1>2, <1>6 DEF Load, ConvertAndLoad, mgr
<1>7. ASSUME NEW i \in Items, Fetched(i) PROVE Counts(f)'
  BY <1>2, <1>7 DEF Fetched, ConvertAndLoad, mgr
<1>8. CASE Loaded
  <2>1. PICK v \in Video : v = loading.v
    BY <1>0, <1>8, TaskIs DEF Loaded
  <2>2. Leaving(f) = 0 /\ Leaving(f)' = 0
    BY <1>8 DEF Loaded, Leaving
  <2>3. CASE UNCHANGED mgr
    BY <2>2, <2>3, CountsKept DEF mgr, Unwatched
  <2>4. CASE /\ ~Known(Item(v))
             /\ video' = [video EXCEPT ![v] = [NoVideo EXCEPT !.at = "live"]]
             /\ value' = Plus(Feed(v))
    <3>1. video[v].at = "absent"
      BY <2>4 DEF Known, Collection
    <3>2. PICK new \in VideoSet : /\ new = [NoVideo EXCEPT !.at = "live"]
                                  /\ new.at = "live" /\ ~new.watched
      BY VideoSetIs
    <3>3. video'[v] = new /\ \A w \in Video : w # v => video'[w] = video[w]
      BY <1>0, <2>4, <3>2
    <3>4. CASE Feed(v) # f
      <4>1. Unwatched(f)' = Unwatched(f)
        BY <3>3, <3>4 DEF Unwatched
      <4>2. value'[f] = value[f]
        BY <1>0, <2>4, <3>4 DEF Plus
      <4> QED BY <2>2, <4>1, <4>2, CountsKept
    <3>5. CASE Feed(v) = f
      <4>1. v \notin Unwatched(f) /\ Unwatched(f)' = Unwatched(f) \cup {v}
        <5>1. /\ video'[v].at = "live" /\ ~video'[v].watched
          BY <3>2, <3>3
        <5>2. \A w \in Video : w \in Unwatched(f)' <=> w \in Unwatched(f) \/ w = v
          BY <3>3, <3>5, <5>1 DEF Unwatched
        <5>3. v \notin Unwatched(f)
          BY <3>1 DEF Unwatched
        <5>4. Unwatched(f) \subseteq Video /\ Unwatched(f)' \subseteq Video
          BY DEF Unwatched
        <5> QED BY <5>2, <5>3, <5>4
      <4>2. /\ Cardinality(Unwatched(f)') = Cardinality(Unwatched(f)) + 1
            /\ Cardinality(Unwatched(f)') <= MaxValue
            /\ Cardinality(Unwatched(f)) \in Nat
        <5>1. /\ Cardinality(Unwatched(f) \cup {v}) = Cardinality(Unwatched(f)) + 1
              /\ Cardinality(Unwatched(f) \cup {v}) <= Cardinality(Video)
              /\ Cardinality(Unwatched(f)) \in Nat /\ Cardinality(Video) \in Nat
          BY <4>1, UnwatchedCounts
        <5> QED BY <1>0, <4>1, <5>1
      <4>3. value[f] = Cardinality(Unwatched(f))
        BY <2>2, <4>2 DEF Counts
      <4>4. value'[f] = (value[f] + 1) % (MaxValue + 1)
        BY <1>0, <2>4, <3>5 DEF Plus
      <4>5. value[f] + 1 \in 0..MaxValue
        BY <4>2, <4>3
      <4>6. value'[f] = value[f] + 1
        BY <1>0, <4>4, <4>5, WrapsNot
      <4> QED BY <2>2, <4>2, <4>3, <4>6 DEF Counts
    <3> QED BY <3>4, <3>5
  <2> QED BY <1>8, <2>1, <2>3, <2>4 DEF Loaded
<1>9. CASE Removed
  <2>1. PICK v \in Video : v = loading.v
    BY <1>0, <1>9, TaskIs DEF Removed
  <2>2. /\ video' = video /\ value' = Uncounted(Feed(v))
        /\ Leaving(f)' = 0 /\ Leaving(f) = IF Feed(v) = f THEN 1 ELSE 0
    BY <1>9, <2>1 DEF Removed, Leaving
  <2>3. Unwatched(f)' = Unwatched(f) /\ Cardinality(Unwatched(f)) \in Nat
    BY <2>2, UnwatchedCounts DEF Unwatched
  <2>4. CASE Feed(v) # f
    <3>1. value'[f] = value[f]
      BY <1>0, <2>2, <2>4 DEF Uncounted, Minus
    <3> QED BY <2>2, <2>3, <2>4, <3>1, CountsKept
  <2>5. CASE Feed(v) = f
    <3>1. value[f] = Cardinality(Unwatched(f)) + 1
      BY <2>2, <2>5 DEF Counts
    <3>2. value[f] \in 1..MaxValue
      BY <1>0, <2>3, <3>1
    <3>3. value'[f] = (value[f] + MaxValue) % (MaxValue + 1)
      BY <1>0, <2>2, <2>5, <3>2 DEF Uncounted, Minus
    <3>4. value'[f] = value[f] - 1
      BY <1>0, <3>2, <3>3, WrapsNot
    <3> QED BY <2>2, <2>3, <3>1, <3>4 DEF Counts
  <2> QED BY <2>4, <2>5
<1>10. ASSUME NEW v \in Video, RemoveDownload(v) PROVE Counts(f)'
  <2>1. /\ loading = None /\ loading' = [do |-> "remove", v |-> v] /\ value' = value
        /\ v \in Collection
        /\ video[v].at = "live" /\ ~video[v].watched
    BY <1>10 DEF RemoveDownload
  <2>2. Leaving(f) = 0 /\ Leaving(f)' = IF Feed(v) = f THEN 1 ELSE 0
    <3>1. loading' # None
      BY <2>1, TaskIs
    <3> QED BY <2>1, <3>1 DEF Leaving
  <2>3. /\ video'[v].at # "live"
        /\ \A w \in Video : w # v => video'[w] = video[w]
    <3>1. CASE Erase(v)
      <4>1. video'[v] = NoVideo
        BY <1>0, <3>1 DEF Erase
      <4> QED BY <1>10, <2>1, <3>1, <4>1, EraseDoes, VideoSetIs
    <3>2. CASE video' = [video EXCEPT ![v].at = "deleted"]
      <4>1. video[v] \in VideoSet
        BY <1>0
      <4>2. PICK new \in VideoSet : new = [video[v] EXCEPT !.at = "deleted"]
        BY <4>1 DEF VideoSet
      <4>3. new.at = "deleted"
        BY <4>1, <4>2 DEF VideoSet
      <4>4. video' = [video EXCEPT ![v] = new]
        BY <3>2, <4>2
      <4> QED BY <1>0, <4>3, <4>4
    <3> QED BY <1>10, <3>1, <3>2 DEF RemoveDownload
  <2>4. CASE Feed(v) # f
    <3>1. Unwatched(f)' = Unwatched(f)
      BY <2>3, <2>4 DEF Unwatched
    <3> QED BY <2>1, <2>2, <2>4, <3>1, CountsKept
  <2>5. CASE Feed(v) = f
    <3>1. v \in Unwatched(f) /\ Unwatched(f)' = Unwatched(f) \ {v}
      BY <2>1, <2>3, <2>5 DEF Unwatched
    <3>2. /\ Cardinality(Unwatched(f)') = Cardinality(Unwatched(f)) - 1
          /\ Cardinality(Unwatched(f)) \in Nat
      BY <3>1, UnwatchedCounts
    <3> QED BY <2>1, <2>2, <2>5, <3>2 DEF Counts
  <2> QED BY <2>4, <2>5
<1>11. ASSUME NEW v \in Video, ItemRemoved(v) PROVE Counts(f)'
  <2>1. /\ Erase(v) /\ v \in Collection /\ video[v].at = "deleted"
        /\ value' = value /\ loading' = loading
    BY <1>11 DEF ItemRemoved, Collection
  <2>2. /\ \A w \in Video : w # v => video'[w] = video[w]
        /\ video'[v] = NoVideo
    BY <1>0, <2>1, EraseDoes DEF Erase
  <2>3. Unwatched(f)' = Unwatched(f)
    BY <2>1, <2>2, VideoSetIs DEF Unwatched
  <2> QED BY <2>1, <2>3, CountsKept DEF Leaving
<1>12. ASSUME NEW v \in Video, NEW watched \in BOOLEAN, SaveVideoDetails(v, watched)
       PROVE  Counts(f)'
  <2>1. /\ loading = None /\ loading' = None /\ video[v].at = "live" /\ watched
        /\ video' = [video EXCEPT ![v].watched = watched]
        /\ value' = IF watched /\ ~video[v].watched THEN Minus(Feed(v)) ELSE value
    BY <1>12 DEF SaveVideoDetails
  <2>2. Leaving(f) = 0 /\ Leaving(f)' = 0
    BY <2>1 DEF Leaving
  <2>3. /\ \A w \in Video : w # v => video'[w] = video[w]
        /\ video'[v].watched
    <3>1. video[v] \in VideoSet
      BY <1>0
    <3>2. PICK new \in VideoSet : new = [video[v] EXCEPT !.watched = watched]
      BY <3>1 DEF VideoSet
    <3>3. new.watched
      BY <2>1, <3>1, <3>2 DEF VideoSet
    <3>4. video' = [video EXCEPT ![v] = new]
      BY <2>1, <3>2
    <3> QED BY <1>0, <3>3, <3>4
  <2>4. CASE Feed(v) # f \/ video[v].watched
    <3>1. Unwatched(f)' = Unwatched(f)
      BY <2>3, <2>4 DEF Unwatched
    <3>2. value'[f] = value[f]
      BY <1>0, <2>1, <2>4 DEF Minus
    <3> QED BY <2>2, <3>1, <3>2, CountsKept
  <2>5. CASE Feed(v) = f /\ ~video[v].watched
    <3>1. v \in Unwatched(f) /\ Unwatched(f)' = Unwatched(f) \ {v}
      BY <2>1, <2>3, <2>5 DEF Unwatched
    <3>2. /\ Cardinality(Unwatched(f)') = Cardinality(Unwatched(f)) - 1
          /\ Cardinality(Unwatched(f)) \in Nat /\ Cardinality(Unwatched(f)') \in Nat
      <4>1. Cardinality(Unwatched(f)') \in Nat
        <5>1. Unwatched(f)' \in SUBSET Video
          BY DEF Unwatched
        <5> QED BY <5>1, VideoFinite, SubsetSize
      <4> QED BY <3>1, <4>1, UnwatchedCounts
    <3>3. value[f] = Cardinality(Unwatched(f))
      BY <2>2, <3>2 DEF Counts
    <3>4. value[f] \in 1..MaxValue
      BY <1>0, <3>2, <3>3
    <3>5. value'[f] = (value[f] + MaxValue) % (MaxValue + 1)
      BY <1>0, <2>1, <2>5 DEF Minus
    <3>6. value'[f] = value[f] - 1
      BY <1>0, <3>4, <3>5, WrapsNot
    <3> QED BY <2>2, <3>2, <3>3, <3>6 DEF Counts
  <2> QED BY <2>4, <2>5
<1>13. ASSUME NEW crash \in BOOLEAN, Restart(crash) PROVE Counts(f)'
  <2>1. /\ loading' = None
        /\ value' = [g \in Feeds |->
                 Cardinality({v \in OnDisk : Feed(v) = g /\ ~video'[v].watched})
                     % (MaxValue + 1)]
    BY <1>13 DEF Restart
  <2>2. PICK conf : video' = LoadedFrom(conf)
    BY <1>13 DEF Restart
  <2>3. \A v \in Video : video'[v].at = "live" <=> v \in OnDisk
    <3>1. \A v \in Video : v \in OnDisk => video'[v].at = "live"
      BY <2>2 DEF LoadedFrom
    <3>2. \A v \in Video : v \notin OnDisk => video'[v] = NoVideo
      BY <2>2 DEF LoadedFrom
    <3> QED BY <3>1, <3>2, VideoSetIs
  <2>4. PICK U \in SUBSET Video : U = {v \in OnDisk : Feed(v) = f /\ ~video'[v].watched}
    BY DEF OnDisk
  <2>5. Unwatched(f)' = U
    BY <2>3, <2>4 DEF Unwatched, OnDisk
  <2>6. Cardinality(U) \in 0..MaxValue
    <3>1. Cardinality(U) \in Nat /\ Cardinality(U) <= Cardinality(Video)
          /\ Cardinality(Video) \in Nat
      BY VideoFinite, SubsetSize, FS_CardinalityType
    <3> QED BY <1>0, <3>1
  <2>7. value'[f] = Cardinality(U)
    <3>1. value'[f] = Cardinality(U) % (MaxValue + 1)
      BY <2>1, <2>4
    <3> QED BY <1>0, <2>6, <3>1, WrapsNot
  <2>8. Leaving(f)' = 0
    BY <2>1 DEF Leaving
  <2> QED BY <2>5, <2>6, <2>7, <2>8 DEF Counts
<1> QED BY <1>3, <1>4, <1>5, <1>6, <1>7, <1>8, <1>9, <1>10, <1>11, <1>12, <1>13, StepIs

LEMMA WorldKept == ASSUME Inv, [Next]_vars PROVE world' = world
<1>1. ASSUME NEW c \in Call, Run(c) PROVE world' = world
  BY <1>1 DEF Run
<1>2. CASE Fetch \/ Load \/ Cancel \/ Loaded \/ Removed
  BY <1>2 DEF Fetch, Load, Cancel, Loaded, Removed
<1>3. ASSUME NEW i \in Items, Fetched(i) PROVE world' = world
  BY <1>3 DEF Fetched
<1>4. ASSUME NEW v \in Video, RemoveDownload(v) \/ ItemRemoved(v) PROVE world' = world
  BY <1>4 DEF RemoveDownload, ItemRemoved
<1>5. ASSUME NEW v \in Video, NEW watched \in BOOLEAN, SaveVideoDetails(v, watched)
      PROVE  world' = world
  BY <1>5 DEF SaveVideoDetails
<1>6. ASSUME NEW crash \in BOOLEAN, Restart(crash) PROVE world' = world
  BY <1>6 DEF Restart
<1> QED BY <1>1, <1>2, <1>3, <1>4, <1>5, <1>6, StepIs DEF Quiet

(* _RSSChannelMap tells how many videos of a channel were neither watched nor*)
(* deleted, where there are no more of them than a DWORD counts              *)
(* (FDownloadMgr::AddDownload, StopDownload, SaveVideoDetails).              *)
THEOREM ValuesAgree ==
    ASSUME Cardinality(Video) <= MaxValue PROVE Spec => []ValueAgrees
<1>1. ValueAgrees <=> May("watched") \/ May("late") \/ \A f \in Feeds : Counts(f)
  BY DEF ValueAgrees, Counts
<1>2. Init => ValueAgrees
  <2> SUFFICES ASSUME Init, NEW f \in Feeds PROVE Counts(f)
    BY <1>1
  <2>1. value[f] = 0 /\ Leaving(f) = 0
    BY DEF Init, Leaving
  <2>2. Unwatched(f) = {}
    BY VideoSetIs DEF Init, Unwatched
  <2> QED BY <2>1, <2>2, FS_EmptySet DEF Counts
<1>3. Inv /\ ValueAgrees /\ [Next]_vars => ValueAgrees'
  <2> SUFFICES ASSUME Inv, ValueAgrees, [Next]_vars PROVE ValueAgrees'
    OBVIOUS
  <2>1. world' = world
    BY WorldKept
  <2>2. CASE May("watched") \/ May("late")
    BY <2>1, <2>2 DEF ValueAgrees, May
  <2>3. CASE ~May("watched") /\ ~May("late")
    BY <1>1, <2>3, CountsStep DEF Counts, ValueAgrees
  <2> QED BY <2>2, <2>3
<1> QED BY <1>2, <1>3, Invariance, PTL DEF Spec
=============================================================================
