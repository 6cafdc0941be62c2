-------------------------- MODULE DownloadMgrProofs --------------------------
(***************************************************************************)
(* Results on FDownloadMgr, for any videos, any number of slots, any size  *)
(* of m_Alerts and any order of calls, alerts and transfers.               *)
(***************************************************************************)
EXTENDS DownloadMgr, SequenceLemmas

Codes   == {"FINISHED", "REMOVED", "TORRENT", "SCHEDULED"}
Answers == {"S_OK", "E_ABORT"} \cup Failures
Types   == {"http", "torrent", "stream"}
States  == {"http", "torrent", "typing", "seeding", "idle", "gone"}

(* The functions that are about one clip, and those about a download.        *)
OfClip  == {"QueueDownloadItem", "AddClip", "OnItemComplete"}
OfVideo == {"QueueDownload", "QueueNextDownloadItem", "OnDownloadComplete",
            "EraseDownload", "CountTorrentFound", "Resume"}

CallSet ==
    {c \in [do : OfClip \cup OfVideo, v : Videos, k : Nat, hr : Answers] :
        c.do \in OfClip => c.k \in Clips(c.v)}

AlertSet ==
    {a \in [code : Codes, v : Videos, k : Nat, hr : Answers] : a.k \in Clips(a.v)}

PairSet ==
    {p \in [v : Videos, k : Nat, type : Types, paused : BOOLEAN, at : States] :
        p.k \in Clips(p.v)}

ItemsOf(v) ==
    [flags : SUBSET Flags, cur : 0..ClipCount[v], clips : Int, error : BOOLEAN,
     completed : SUBSET Clips(v), timed : SUBSET Clips(v), missing : SUBSET Clips(v),
     type : [Clips(v) -> Types], handle : [Clips(v) -> Nat]]

(* The state keeps its types, what is still to be done included: a call, an  *)
(* alert or a pair is about a clip that exists, and a handle is of a pair.   *)
ItemsTyped ==
    /\ item = [v \in Videos |-> item[v]]
    /\ \A v \in Videos : item[v] \in ItemsOf(v)

HandlesTyped ==
    \A v \in Videos : \A k \in Clips(v) :
        item[v].handle[k] # 0 =>
            item[v].handle[k] \in 1..Len(pairs) /\ pairs[item[v].handle[k]].v = v

TInv ==
    /\ listed \in SUBSET Videos
    /\ ItemsTyped
    /\ HandlesTyped
    /\ active \in Int
    /\ queue \in Seq(Videos)
    /\ allPaused \in BOOLEAN
    /\ calls \in Seq(CallSet)
    /\ alerts \in Seq(AlertSet) /\ Len(alerts) <= MaxAlerts
    /\ retry \in [Videos -> Nat]
    /\ pairs \in Seq(PairSet)
    /\ world \in Worlds

LEMMA Settings ==
    /\ IsFiniteSet(Videos)
    /\ \A v \in Videos : ClipCount[v] \in Nat /\ ClipCount[v] > 0 /\ 1 \in Clips(v)
    /\ \A v \in Videos : Clips(v) \subseteq Nat /\ IsFiniteSet(Clips(v))
    /\ \A v \in Videos : ClipType[v] \in Types
    /\ MaxDownloads \in Nat /\ MaxDownloads > 0 /\ MaxAlerts \in Nat
    /\ Worlds \subseteq World
<1>1. \A v \in Videos : ClipCount[v] \in Nat /\ ClipCount[v] > 0
  BY DownloadMgrAssumption
<1>2. \A v \in Videos : IsFiniteSet(1..ClipCount[v])
  BY <1>1, FS_Interval
<1> QED BY <1>1, <1>2, DownloadMgrAssumption DEF Clips, Types

(* What Then leaves to be done.                                              *)
LEMMA ThenNothing ==
    ASSUME calls \in Seq(CallSet), calls # <<>>, Then(<<>>)
    PROVE  /\ calls' \in Seq(CallSet)
           /\ Range(calls') = Behind(calls) /\ Behind(calls') \subseteq Behind(calls)
           /\ calls' # <<>> => Head(calls') \in Behind(calls)
<1>1. Tail(calls) \in Seq(CallSet)
  BY HeadAndTail
<1>2. calls' = Tail(calls)
  BY <1>1, ConcatEmptySeq DEF Then
<1> QED BY <1>1, <1>2, HeadAndTail

LEMMA ThenCall ==
    ASSUME calls \in Seq(CallSet), calls # <<>>, NEW c \in CallSet, Then(<<c>>)
    PROVE  /\ calls' \in Seq(CallSet) /\ calls' # <<>>
           /\ Head(calls') = c /\ Behind(calls') = Behind(calls)
           /\ Range(calls') = {c} \cup Behind(calls)
<1> DEFINE t == Tail(calls)
<1>1. t \in Seq(CallSet) /\ Range(t) = Behind(calls)
  BY HeadAndTail
<1>2. calls' = <<c>> \o t
  BY DEF Then
<1> HIDE DEF t
<1>3. /\ calls' \in Seq(CallSet) /\ Head(calls') = c /\ Tail(calls') = t /\ calls' # <<>>
  BY <1>1, <1>2
<1>4. Range(calls') = {c} \cup Behind(calls) /\ Behind(calls') = Behind(calls)
  BY <1>1, <1>3, HeadAndTail
<1> QED BY <1>3, <1>4

LEMMA ThenTwoCalls ==
    ASSUME calls \in Seq(CallSet), calls # <<>>, NEW c \in CallSet, NEW d \in CallSet,
           Then(<<c, d>>)
    PROVE  /\ calls' \in Seq(CallSet) /\ calls' # <<>>
           /\ Head(calls') = c /\ Behind(calls') = {d} \cup Behind(calls)
           /\ Range(calls') = {c, d} \cup Behind(calls)
<1> DEFINE t == Tail(calls)
<1>1. t \in Seq(CallSet) /\ Range(t) = Behind(calls)
  BY HeadAndTail
<1>2. calls' = <<c, d>> \o t
  BY DEF Then
<1> HIDE DEF t
<1> DEFINE u == <<d>> \o t
<1>3. /\ calls' \in Seq(CallSet) /\ Head(calls') = c /\ Tail(calls') = u /\ calls' # <<>>
  BY <1>1, <1>2
<1>4. Range(u) = {d} \cup Behind(calls)
  <2> DEFINE e == <<d>>
  <2>1. e \in Seq(CallSet) /\ Range(e) = {d}
    BY OneEntry
  <2> HIDE DEF e
  <2>2. Range(e \o t) = {d} \cup Behind(calls)
    BY <1>1, <2>1, Joined
  <2> QED BY <2>2 DEF e
<1> HIDE DEF u
<1>5. Range(calls') = {c} \cup Range(u) /\ Behind(calls') = Range(u)
  BY <1>3, HeadAndTail
<1> QED BY <1>3, <1>4, <1>5

(* Push keeps alerts in their order, and may drop some of the new ones.      *)
LEMMA Pushed ==
    ASSUME NEW as \in Seq(AlertSet), NEW new \in Seq(AlertSet)
    PROVE  /\ Push(as, new) \in Seq(AlertSet) /\ Len(Push(as, new)) <= MaxAlerts
           /\ Range(Push(as, new)) \subseteq Range(as) \cup Range(new)
<1> DEFINE s == as \o new
           n == Len(s)
           m == IF n <= MaxAlerts THEN n ELSE MaxAlerts
           u == SubSeq(s, 1, m)
<1>1. s \in Seq(AlertSet) /\ Range(s) = Range(as) \cup Range(new)
  BY Joined
<1>2. Push(as, new) = u
  BY DEF Push
<1> HIDE DEF s
<1>3. n \in Nat /\ Range(s) = {s[i] : i \in 1..n} /\ \A i \in 1..n : s[i] \in AlertSet
  BY <1>1, SeqEntries, ElementOfSeq
<1> HIDE DEF n
<1>4. m \in Nat /\ m <= n /\ m <= MaxAlerts
  BY <1>3, Settings
<1> HIDE DEF m
<1>5. \A i \in 1..m : s[i] \in AlertSet /\ i \in 1..n
  BY <1>3, <1>4
<1>6. /\ u \in Seq(AlertSet) /\ Len(u) = IF 1 <= m THEN m - 1 + 1 ELSE 0
      /\ \A i \in 1..m - 1 + 1 : u[i] = s[1 + i - 1]
  BY <1>4, <1>5, SubSeqProperties
<1> HIDE DEF u
<1>7. Len(u) = m /\ \A i \in 1..m : u[i] = s[i]
  BY <1>4, <1>6
<1>8. Range(u) \subseteq Range(s)
  BY <1>3, <1>5, <1>6, <1>7, SeqEntries
<1> QED BY <1>1, <1>2, <1>4, <1>6, <1>7, <1>8

(* The call that is carried out.                                             *)
LEMMA DoingIs ==
    ASSUME TInv, NEW f, NEW v \in Videos, Doing(f, v)
    PROVE  /\ calls # <<>> /\ calls \in Seq(CallSet)
           /\ Head(calls) \in CallSet /\ Head(calls).do = f /\ Head(calls).v = v
           /\ Range(calls) = {Head(calls)} \cup Behind(calls)
BY HeadAndTail DEF Doing, TInv

(* Calls that are about a download, and calls about a clip.                  *)
LEMMA CallsTyped ==
    ASSUME NEW v \in Videos
    PROVE  /\ \A f \in OfVideo : Call(f, v) \in CallSet
           /\ \A k \in Clips(v) :
                 /\ \A f \in OfClip : CallClip(f, v, k) \in CallSet
                 /\ \A hr \in Answers : Complete(v, k, hr) \in CallSet
<1>1. \A f \in OfVideo : f \notin OfClip
  BY DEF OfVideo, OfClip
<1>2. \A f \in OfVideo : Call(f, v) \in CallSet
  BY <1>1 DEF Call, CallSet, Answers, Failures
<1>3. ASSUME NEW k \in Clips(v) PROVE \A f \in OfClip : CallClip(f, v, k) \in CallSet
  BY Settings DEF CallClip, CallSet, Answers, Failures
<1>4. ASSUME NEW k \in Clips(v) PROVE \A hr \in Answers : Complete(v, k, hr) \in CallSet
  BY Settings DEF Complete, CallSet, OfClip
<1> QED BY <1>2, <1>3, <1>4

(* A step that changes one download.                                         *)
LEMMA OneItem ==
    ASSUME ItemsTyped, NEW v \in Videos, NEW r \in ItemsOf(v), item' = [item EXCEPT ![v] = r]
    PROVE  /\ ItemsTyped' /\ item'[v] = r
           /\ \A w \in Videos : w # v => item'[w] = item[w]
BY DEF ItemsTyped

(* One download changes, in its flags and m_StatusStr only.                  *)
Reflagged(v, F) ==
    /\ \A w \in Videos : w # v => item'[w] = item[w]
    /\ item'[v].flags = F
    /\ item'[v].cur = item[v].cur /\ item'[v].clips = item[v].clips
    /\ item'[v].completed = item[v].completed /\ item'[v].timed = item[v].timed
    /\ item'[v].missing = item[v].missing /\ item'[v].type = item[v].type
    /\ item'[v].handle = item[v].handle

LEMMA FlagsChange ==
    ASSUME ItemsTyped, NEW v \in Videos, NEW F \in SUBSET Flags,
           \/ item' = [item EXCEPT ![v].flags = F]
           \/ \E e \in BOOLEAN : item' = [item EXCEPT ![v].flags = F, ![v].error = e]
           \/ F = item[v].flags /\ item' = item
           \/ \E e \in BOOLEAN : F = item[v].flags /\ item' = [item EXCEPT ![v].error = e]
    PROVE  ItemsTyped' /\ Reflagged(v, F)
<1>1. CASE item' = [item EXCEPT ![v].flags = F]
  BY <1>1 DEF ItemsTyped, ItemsOf, Reflagged
<1>2. ASSUME NEW e \in BOOLEAN, item' = [item EXCEPT ![v].flags = F, ![v].error = e]
      PROVE  ItemsTyped' /\ Reflagged(v, F)
  BY <1>2 DEF ItemsTyped, ItemsOf, Reflagged
<1>3. CASE F = item[v].flags /\ item' = item
  BY <1>3 DEF ItemsTyped, ItemsOf, Reflagged
<1>4. ASSUME NEW e \in BOOLEAN, F = item[v].flags, item' = [item EXCEPT ![v].error = e]
      PROVE  ItemsTyped' /\ Reflagged(v, F)
  BY <1>4 DEF ItemsTyped, ItemsOf, Reflagged
<1> QED BY <1>1, <1>2, <1>3, <1>4

(* Pairs change in what they are doing, never in the clip they are about.    *)
SamePairs ==
    /\ pairs' \in Seq(PairSet) /\ Len(pairs') = Len(pairs)
    /\ \A h \in 1..Len(pairs) : pairs'[h].v = pairs[h].v /\ pairs'[h].k = pairs[h].k

LEMMA PairsUntouched ==
    ASSUME TInv, UNCHANGED pairs PROVE SamePairs
BY DEF TInv, SamePairs

(* Handles stay those of pairs.                                              *)
LEMMA HandlesStay ==
    ASSUME TInv, SamePairs, \A w \in Videos : item'[w].handle = item[w].handle
    PROVE  HandlesTyped'
<1> SUFFICES ASSUME NEW w \in Videos, NEW k \in Clips(w), item'[w].handle[k] # 0
             PROVE  /\ item'[w].handle[k] \in 1..Len(pairs')
                    /\ pairs'[item'[w].handle[k]].v = w
  BY DEF HandlesTyped
<1>1. item'[w].handle = item[w].handle
  OBVIOUS
<1> QED BY <1>1 DEF TInv, HandlesTyped, SamePairs

LEMMA HandlesKept ==
    ASSUME TInv, NEW v \in Videos, NEW F, Reflagged(v, F), SamePairs
    PROVE  HandlesTyped'
<1>1. \A w \in Videos : item'[w].handle = item[w].handle
  BY DEF Reflagged
<1> QED BY <1>1, HandlesStay

LEMMA QueueDownloadDoes ==
    ASSUME TInv, NEW v \in Videos, QueueDownload(v)
    PROVE  /\ TInv' /\ UNCHANGED <<listed, alerts, retry, pairs, world>>
           /\ \E F : Reflagged(v, F)
           /\ \/ /\ (Is(v, "FINISHED") /\ ~Is(v, "PAUSED")) \/ IsStream(v)
                 /\ item'[v].flags = item[v].flags
                 /\ Then(<<Call("QueueNextDownloadItem", v)>>)
                 /\ UNCHANGED <<active, queue>>
              \/ /\ Is(v, "PAUSED") /\ ~Is(v, "FORCE") /\ ~IsStream(v)
                 /\ item'[v].flags = item[v].flags
                 /\ Then(<<>>)
                 /\ UNCHANGED <<active, queue>>
              \/ /\ ~(Is(v, "FINISHED") /\ ~Is(v, "PAUSED")) /\ ~IsStream(v)
                 /\ ~(Is(v, "PAUSED") /\ ~Is(v, "FORCE"))
                 /\ item'[v].flags = item[v].flags \ {"QUEUED", "FORCE", "PAUSED"}
                 /\ Then(<<Call("QueueNextDownloadItem", v)>>)
                 /\ active' = active + 1
                 /\ UNCHANGED queue
              \/ /\ ~(Is(v, "FINISHED") /\ ~Is(v, "PAUSED")) /\ ~IsStream(v)
                 /\ ~(Is(v, "PAUSED") /\ ~Is(v, "FORCE"))
                 /\ \/ FALSE \in FreeSpace(v)
                    \/ ~(active < MaxDownloads) /\ ~Is(v, "FORCE")
                 /\ item'[v].flags = item[v].flags \cup {"QUEUED"}
                 /\ Then(<<>>)
                 /\ queue' = Append(queue, v)
                 /\ UNCHANGED active
<1> DEFINE goon == Call("QueueNextDownloadItem", v)
           f == item[v].flags
<1>0. /\ calls # <<>> /\ calls \in Seq(CallSet) /\ goon \in CallSet
      /\ UNCHANGED <<listed, allPaused, alerts, retry, pairs, world>>
      /\ f \in SUBSET Flags /\ ItemsTyped
  BY DoingIs, CallsTyped DEF QueueDownload, OfVideo, TInv, ItemsTyped, ItemsOf
<1>1. \/ /\ (Is(v, "FINISHED") /\ ~Is(v, "PAUSED")) \/ IsStream(v)
         /\ item' = item /\ Then(<<goon>>) /\ active' = active /\ queue' = queue
      \/ /\ Is(v, "PAUSED") /\ ~Is(v, "FORCE") /\ ~IsStream(v)
         /\ item' = [item EXCEPT ![v].error = FALSE]
         /\ Then(<<>>) /\ active' = active /\ queue' = queue
      \/ /\ ~(Is(v, "FINISHED") /\ ~Is(v, "PAUSED")) /\ ~IsStream(v)
         /\ ~(Is(v, "PAUSED") /\ ~Is(v, "FORCE"))
         /\ item' = [item EXCEPT ![v].flags = @ \ {"QUEUED", "FORCE", "PAUSED"}]
         /\ Then(<<goon>>) /\ active' = active + 1 /\ queue' = queue
      \/ /\ ~(Is(v, "FINISHED") /\ ~Is(v, "PAUSED")) /\ ~IsStream(v)
         /\ ~(Is(v, "PAUSED") /\ ~Is(v, "FORCE"))
         /\ \E enough \in FreeSpace(v) : ~(enough /\ (active < MaxDownloads \/ Is(v, "FORCE")))
         /\ item' = [item EXCEPT ![v].flags = @ \cup {"QUEUED"}, ![v].error = FALSE]
         /\ Then(<<>>) /\ active' = active /\ queue' = Append(queue, v)
  BY DEF QueueDownload
<1>2. ASSUME NEW F \in SUBSET Flags, Reflagged(v, F), ItemsTyped',
             calls' \in Seq(CallSet), active' \in Int, queue' \in Seq(Videos)
      PROVE  TInv'
  BY <1>0, <1>2, HandlesKept, PairsUntouched DEF TInv
<1>3. CASE /\ (Is(v, "FINISHED") /\ ~Is(v, "PAUSED")) \/ IsStream(v)
           /\ item' = item /\ Then(<<goon>>) /\ active' = active /\ queue' = queue
  <2>1. ItemsTyped' /\ Reflagged(v, f)
    BY <1>0, <1>3, FlagsChange
  <2>2. TInv'
    BY <1>0, <1>2, <1>3, <2>1, ThenCall DEF TInv
  <2> QED BY <1>0, <1>3, <2>1, <2>2 DEF Reflagged
<1>4. CASE /\ Is(v, "PAUSED") /\ ~Is(v, "FORCE") /\ ~IsStream(v)
           /\ item' = [item EXCEPT ![v].error = FALSE]
           /\ Then(<<>>) /\ active' = active /\ queue' = queue
  <2>1. ItemsTyped' /\ Reflagged(v, f)
    BY <1>0, <1>4, FlagsChange
  <2>2. TInv'
    BY <1>0, <1>2, <1>4, <2>1, ThenNothing DEF TInv
  <2> QED BY <1>0, <1>4, <2>1, <2>2 DEF Reflagged
<1>5. CASE /\ ~(Is(v, "FINISHED") /\ ~Is(v, "PAUSED")) /\ ~IsStream(v)
           /\ ~(Is(v, "PAUSED") /\ ~Is(v, "FORCE"))
           /\ item' = [item EXCEPT ![v].flags = @ \ {"QUEUED", "FORCE", "PAUSED"}]
           /\ Then(<<goon>>) /\ active' = active + 1 /\ queue' = queue
  <2> DEFINE F == f \ {"QUEUED", "FORCE", "PAUSED"}
  <2>0. F \in SUBSET Flags
    BY <1>0
  <2>1. ItemsTyped' /\ Reflagged(v, F)
    BY <1>0, <1>5, <2>0, FlagsChange
  <2>2. TInv'
    BY <1>0, <1>2, <1>5, <2>0, <2>1, ThenCall DEF TInv
  <2> QED BY <1>0, <1>5, <2>1, <2>2 DEF Reflagged
<1>6. CASE /\ ~(Is(v, "FINISHED") /\ ~Is(v, "PAUSED")) /\ ~IsStream(v)
           /\ ~(Is(v, "PAUSED") /\ ~Is(v, "FORCE"))
           /\ \E enough \in FreeSpace(v) : ~(enough /\ (active < MaxDownloads \/ Is(v, "FORCE")))
           /\ item' = [item EXCEPT ![v].flags = @ \cup {"QUEUED"}, ![v].error = FALSE]
           /\ Then(<<>>) /\ active' = active /\ queue' = Append(queue, v)
  <2> DEFINE F == f \cup {"QUEUED"}
  <2>0. F \in SUBSET Flags
    BY <1>0 DEF Flags
  <2>1. ItemsTyped' /\ Reflagged(v, F)
    BY <1>0, <1>6, <2>0, FlagsChange
  <2>2. TInv'
    BY <1>0, <1>2, <1>6, <2>0, <2>1, ThenNothing, AppendProperties DEF TInv
  <2>3. \/ FALSE \in FreeSpace(v)
        \/ ~(active < MaxDownloads) /\ ~Is(v, "FORCE")
    <3>1. PICK enough \in FreeSpace(v) :
             ~(enough /\ (active < MaxDownloads \/ Is(v, "FORCE")))
      BY <1>6
    <3>2. enough \in BOOLEAN
      BY <3>1 DEF FreeSpace
    <3> QED BY <3>1, <3>2
  <2> QED BY <1>0, <1>6, <2>1, <2>2, <2>3 DEF Reflagged
<1> QED BY <1>1, <1>3, <1>4, <1>5, <1>6

(* One download changes in other fields, its flags and handles stay.         *)
LEMMA QueueNextDoes ==
    ASSUME TInv, NEW v \in Videos, QueueNextDownloadItem(v)
    PROVE  /\ TInv' /\ UNCHANGED <<listed, active, queue, alerts, retry, pairs, world>>
           /\ \A w \in Videos : w # v => item'[w] = item[w]
           /\ item'[v].flags = item[v].flags /\ item'[v].type = item[v].type
           /\ \/ /\ item[v].cur < ClipCount[v]
                 /\ item'[v].cur = item[v].cur + 1 /\ item'[v].clips = item[v].clips + 1
                 /\ item[v].cur + 1 \in Clips(v)
                 /\ Then(<<CallClip("QueueDownloadItem", v, item[v].cur + 1)>>)
              \/ ~(item[v].cur < ClipCount[v]) /\ item'[v] = item[v] /\ Then(<<>>)
           /\ item'[v].completed = item[v].completed /\ item'[v].timed = item[v].timed
           /\ item'[v].missing = item[v].missing /\ item'[v].handle = item[v].handle
<1> DEFINE k == item[v].cur + 1
<1>0. /\ calls # <<>> /\ calls \in Seq(CallSet)
      /\ UNCHANGED <<listed, active, queue, allPaused, alerts, retry, pairs, world>>
      /\ item[v].cur \in 0..ClipCount[v] /\ item[v].clips \in Int /\ ClipCount[v] \in Nat
      /\ ItemsTyped
  BY DoingIs, Settings DEF QueueNextDownloadItem, TInv, ItemsTyped, ItemsOf
<1>1. \/ /\ item[v].cur < ClipCount[v]
         /\ item' = [item EXCEPT ![v].cur = @ + 1, ![v].clips = @ + 1]
         /\ Then(<<CallClip("QueueDownloadItem", v, k)>>)
      \/ ~(item[v].cur < ClipCount[v]) /\ item' = item /\ Then(<<>>)
  BY <1>0 DEF QueueNextDownloadItem
<1>2. CASE /\ item[v].cur < ClipCount[v]
           /\ item' = [item EXCEPT ![v].cur = @ + 1, ![v].clips = @ + 1]
           /\ Then(<<CallClip("QueueDownloadItem", v, k)>>)
  <2>1. k \in Clips(v) /\ k \in 0..ClipCount[v] /\ item[v].clips + 1 \in Int
    BY <1>0, <1>2 DEF Clips
  <2>2. CallClip("QueueDownloadItem", v, k) \in CallSet
    BY <2>1, CallsTyped DEF OfClip
  <2>3. /\ ItemsTyped' /\ \A w \in Videos : w # v => item'[w] = item[w]
        /\ item'[v].flags = item[v].flags /\ item'[v].type = item[v].type
        /\ item'[v].cur = k /\ item'[v].clips = item[v].clips + 1
        /\ item'[v].completed = item[v].completed /\ item'[v].timed = item[v].timed
        /\ item'[v].missing = item[v].missing /\ item'[v].handle = item[v].handle
    BY <1>0, <1>2, <2>1 DEF ItemsTyped, ItemsOf
  <2>4. HandlesTyped'
    <3>1. \A w \in Videos : item'[w].handle = item[w].handle
      BY <2>3
    <3> QED BY <1>0, <3>1, HandlesStay, PairsUntouched
  <2>5. TInv'
    BY <1>0, <1>2, <2>2, <2>3, <2>4, ThenCall DEF TInv
  <2> QED BY <1>0, <1>2, <2>1, <2>3, <2>5
<1>3. CASE ~(item[v].cur < ClipCount[v]) /\ item' = item /\ Then(<<>>)
  BY <1>0, <1>3, ThenNothing DEF TInv, ItemsTyped, HandlesTyped
<1> QED BY <1>1, <1>2, <1>3

LEMMA QueueItemDoes ==
    ASSUME TInv, NEW v \in Videos, QueueDownloadItem(v)
    PROVE  /\ TInv' /\ UNCHANGED <<listed, item, active, queue, alerts, retry, pairs, world>>
           /\ \E k \in Clips(v) :
                 /\ Head(calls).k = k
                 /\ \/ /\ item[v].type[k] = "stream" \/ k \in item[v].missing
                       /\ Then(<<Complete(v, k, "S_OK")>>)
                    \/ /\ item[v].type[k] # "stream" /\ k \notin item[v].timed
                       /\ Then(<<CallClip("AddClip", v, k)>>)
                    \/ /\ item[v].type[k] # "stream" /\ k \in item[v].timed
                       /\ Then(<<Complete(v, k, "S_OK"), CallClip("AddClip", v, k)>>)
<1>0. /\ calls # <<>> /\ calls \in Seq(CallSet)
      /\ UNCHANGED <<listed, item, active, queue, allPaused, alerts, retry, pairs, world>>
      /\ Head(calls) \in CallSet /\ Head(calls).do = "QueueDownloadItem" /\ Head(calls).v = v
  BY DoingIs DEF QueueDownloadItem
<1>a. PICK k \in Clips(v) : k = Head(calls).k
  BY <1>0 DEF CallSet, OfClip
<1> DEFINE must == item[v].type[k] # "stream" /\ k \notin item[v].missing
           done == Complete(v, k, "S_OK")
           add  == CallClip("AddClip", v, k)
<1>1. done \in CallSet /\ add \in CallSet
  BY CallsTyped DEF OfClip, Answers
<1>2. Then((IF ~must \/ k \in item[v].timed THEN <<done>> ELSE <<>>)
           \o (IF must THEN <<add>> ELSE <<>>))
  BY <1>a DEF QueueDownloadItem
<1>3. /\ <<done>> \o <<add>> = <<done, add>> /\ <<done>> \o <<>> = <<done>>
      /\ <<>> \o <<add>> = <<add>>
  BY Singles
<1>4. ASSUME calls' \in Seq(CallSet) PROVE TInv'
  BY <1>0, <1>4 DEF TInv, ItemsTyped, HandlesTyped
<1>5. CASE ~must
  <2>1. Then(<<done>>)
    BY <1>2, <1>3, <1>5
  <2> QED BY <1>0, <1>1, <1>4, <1>5, <1>a, <2>1, ThenCall
<1>6. CASE must /\ k \notin item[v].timed
  <2>1. Then(<<add>>)
    BY <1>2, <1>3, <1>6
  <2> QED BY <1>0, <1>1, <1>4, <1>6, <1>a, <2>1, ThenCall
<1>7. CASE must /\ k \in item[v].timed
  <2>1. Then(<<done, add>>)
    BY <1>2, <1>3, <1>7
  <2> QED BY <1>0, <1>1, <1>4, <1>7, <1>a, <2>1, ThenTwoCalls
<1> QED BY <1>5, <1>6, <1>7

(* The two ways AddClip goes: the clip is on its way, or it is complete or   *)
(* refused at once.                                                          *)
LEMMA AddClipDoes ==
    ASSUME TInv, NEW v \in Videos, AddClip(v)
    PROVE  /\ TInv' /\ UNCHANGED <<listed, active, queue, alerts, retry, world>>
           /\ \A w \in Videos : w # v => item'[w] = item[w]
           /\ item'[v].cur = item[v].cur /\ item'[v].clips = item[v].clips
           /\ item'[v].type = item[v].type
           /\ \E k \in Clips(v) :
                 /\ Head(calls).k = k
                 /\ pairs' = pairs \/ \E p \in PairSet : p.v = v /\ pairs' = Append(pairs, p)
                 /\ \/ /\ item'[v].flags = (item[v].flags \ {"FINISHED", "QUEUED"}) \cup {"ACTIVE"}
                       /\ pairs' # pairs
                       /\ Then(<<>>)
                    \/ /\ item'[v].flags = item[v].flags
                       /\ \E hr \in {"S_OK", "E_FAIL"} : Then(<<Complete(v, k, hr)>>)
<1> DEFINE f == item[v].flags
           on == (f \ {"FINISHED", "QUEUED"}) \cup {"ACTIVE"}
<1>0. /\ calls # <<>> /\ calls \in Seq(CallSet)
      /\ UNCHANGED <<listed, active, queue, allPaused, alerts, retry, world>>
      /\ Head(calls) \in CallSet /\ Head(calls).do = "AddClip" /\ Head(calls).v = v
      /\ f \in SUBSET Flags /\ ItemsTyped /\ Len(pairs) \in Nat
      /\ item[v].flags \in SUBSET Flags /\ item[v].type \in [Clips(v) -> Types]
      /\ item[v].error \in BOOLEAN
  BY DoingIs, SeqEntries DEF AddClip, TInv, ItemsTyped, ItemsOf
<1>a. PICK k \in Clips(v) : k = Head(calls).k
  BY <1>0 DEF CallSet, OfClip
<1>b. PICK hr \in Outcomes(v, k) :
        LET started == hr # "QD_FAILED" /\ ~(hr = "QD_ADDED" /\ k \in item[v].timed)
            pair    == [v |-> v, k |-> k, type |-> item[v].type[k], paused |-> Is(v, "PAUSED"),
                        at |-> IF hr = "QD_PENDING" THEN "http"
                               ELSE IF item[v].type[k] = "torrent" THEN "torrent" ELSE "idle"]
        IN  /\ pairs' = IF hr = "QD_FAILED" THEN pairs ELSE Append(pairs, pair)
            /\ item' = [item EXCEPT
                  ![v].handle[k] = IF hr = "QD_FAILED" THEN 0 ELSE Len(pairs) + 1,
                  ![v].flags     = IF started THEN (@ \ {"FINISHED", "QUEUED"}) \cup {"ACTIVE"}
                                   ELSE @,
                  ![v].error     = IF started THEN FALSE ELSE @]
            /\ Then(IF started THEN <<>>
                    ELSE <<Complete(v, k, IF hr = "QD_FAILED" THEN "E_FAIL" ELSE "S_OK")>>)
  BY <1>a DEF AddClip
<1> DEFINE started == hr # "QD_FAILED" /\ ~(hr = "QD_ADDED" /\ k \in item[v].timed)
           pair == [v |-> v, k |-> k, type |-> item[v].type[k], paused |-> Is(v, "PAUSED"),
                    at |-> IF hr = "QD_PENDING" THEN "http"
                           ELSE IF item[v].type[k] = "torrent" THEN "torrent" ELSE "idle"]
           h == IF hr = "QD_FAILED" THEN 0 ELSE Len(pairs) + 1
           F == IF started THEN on ELSE f
           e == IF started THEN FALSE ELSE item[v].error
           err == IF hr = "QD_FAILED" THEN "E_FAIL" ELSE "S_OK"
<1>1. /\ pairs' = IF hr = "QD_FAILED" THEN pairs ELSE Append(pairs, pair)
      /\ item' = [item EXCEPT ![v].handle[k] = h, ![v].flags = F, ![v].error = e]
      /\ Then(IF started THEN <<>> ELSE <<Complete(v, k, err)>>)
  BY <1>b
<1>2. pair \in PairSet /\ pair.v = v
  <2>1. k \in Nat /\ item[v].type[k] \in Types
    BY <1>0, Settings
  <2>2. Is(v, "PAUSED") \in BOOLEAN
    BY DEF Is
  <2> QED BY <2>1, <2>2 DEF PairSet, States
<1>3. F \in SUBSET Flags /\ h \in Nat /\ e \in BOOLEAN
  <2>1. on \in SUBSET Flags
    BY <1>0 DEF Flags
  <2> HIDE DEF on, f, started
  <2>2. F \in SUBSET Flags
    BY <1>0, <2>1 DEF f
  <2>3. h \in Nat
    BY <1>0
  <2>4. e \in BOOLEAN
    BY <1>0
  <2> QED BY <2>2, <2>3, <2>4
<1>4. started => hr # "QD_FAILED"
  OBVIOUS
<1>5. Complete(v, k, err) \in CallSet /\ err \in {"S_OK", "E_FAIL"}
  BY CallsTyped DEF Answers, Failures
<1>6. h <= Len(pairs) + 1 /\ (hr = "QD_FAILED" => h = 0)
  BY <1>0
<1>7. F = IF started THEN on ELSE f
  OBVIOUS
<1> HIDE DEF started, pair, h, F, e, err
<1>8. /\ ItemsTyped' /\ \A w \in Videos : w # v => item'[w] = item[w]
      /\ item'[v].flags = F /\ item'[v].type = item[v].type
      /\ item'[v].cur = item[v].cur /\ item'[v].clips = item[v].clips
      /\ item'[v].handle = [item[v].handle EXCEPT ![k] = h]
  <2> DEFINE r == [item[v] EXCEPT !.handle[k] = h, !.flags = F, !.error = e]
  <2>1. item[v] \in ItemsOf(v) /\ item[v].handle \in [Clips(v) -> Nat]
    BY <1>0 DEF ItemsTyped, ItemsOf
  <2>2. /\ r.flags = F /\ r.type = item[v].type
        /\ r.cur = item[v].cur /\ r.clips = item[v].clips
        /\ r.handle = [item[v].handle EXCEPT ![k] = h]
    BY <2>1 DEF ItemsOf
  <2>3. r \in ItemsOf(v)
    BY <1>3, <2>1 DEF ItemsOf
  <2>4. item' = [item EXCEPT ![v] = r]
    BY <1>1
  <2> HIDE DEF r
  <2> QED BY <1>0, <2>2, <2>3, <2>4, OneItem
<1>9. /\ pairs' \in Seq(PairSet) /\ (pairs' = pairs \/ pairs' = Append(pairs, pair))
      /\ Len(pairs') = IF hr = "QD_FAILED" THEN Len(pairs) ELSE Len(pairs) + 1
      /\ hr # "QD_FAILED" => pairs' # pairs
  <2>1. /\ Append(pairs, pair) \in Seq(PairSet) /\ Len(Append(pairs, pair)) = Len(pairs) + 1
    BY <1>2, AppendProperties DEF TInv
  <2>2. Append(pairs, pair) # pairs
    BY <1>0, <2>1
  <2> QED BY <1>1, <2>1, <2>2 DEF TInv
<1>10. HandlesTyped'
  <2> SUFFICES ASSUME NEW w \in Videos, NEW i \in Clips(w), item'[w].handle[i] # 0
               PROVE  /\ item'[w].handle[i] \in 1..Len(pairs')
                      /\ pairs'[item'[w].handle[i]].v = w
    BY DEF HandlesTyped
  <2>0. item[w].handle \in [Clips(w) -> Nat]
    BY DEF TInv, ItemsTyped, ItemsOf
  <2>1. CASE w # v \/ i # k
    <3>1. item'[w].handle[i] = item[w].handle[i]
      BY <1>8, <2>0, <2>1
    <3>2. item[w].handle[i] \in 1..Len(pairs) /\ pairs[item[w].handle[i]].v = w
      BY <3>1 DEF TInv, HandlesTyped
    <3>3. \A j \in 1..Len(pairs) : j \in 1..Len(pairs') /\ pairs'[j] = pairs[j]
      <4>1. CASE pairs' = pairs
        BY <4>1
      <4>2. CASE pairs' = Append(pairs, pair)
        <5>1. /\ Len(pairs') = Len(pairs) + 1
              /\ \A j \in 1..Len(pairs) : pairs'[j] = pairs[j]
          BY <1>2, <4>2, AppendProperties DEF TInv
        <5> QED BY <1>0, <5>1
      <4> QED BY <1>9, <4>1, <4>2
    <3> QED BY <3>1, <3>2, <3>3
  <2>2. CASE w = v /\ i = k
    <3>1. item'[w].handle[i] = h
      BY <1>8, <2>0, <2>2
    <3>2. hr # "QD_FAILED" /\ h = Len(pairs) + 1
      BY <1>6, <3>1 DEF h
    <3>3. pairs' = Append(pairs, pair) /\ Len(pairs') = Len(pairs) + 1
      BY <1>9, <1>1, <3>2
    <3>4. pairs'[Len(pairs) + 1] = pair
      BY <1>2, <3>3, AppendProperties DEF TInv
    <3> QED BY <1>0, <1>2, <2>2, <3>1, <3>2, <3>3, <3>4
  <2> QED BY <2>1, <2>2
<1>11. CASE started
  <2>1. Then(<<>>)
    BY <1>1, <1>11
  <2>2. TInv'
    BY <1>0, <1>8, <1>9, <1>10, <2>1, ThenNothing DEF TInv
  <2> QED BY <1>0, <1>2, <1>4, <1>7, <1>8, <1>9, <1>11, <1>a, <2>1, <2>2
<1>12. CASE ~started
  <2>1. Then(<<Complete(v, k, err)>>)
    BY <1>1, <1>12
  <2>2. TInv'
    BY <1>0, <1>5, <1>8, <1>9, <1>10, <2>1, ThenCall DEF TInv
  <2> QED BY <1>0, <1>2, <1>5, <1>7, <1>8, <1>9, <1>12, <1>a, <2>1, <2>2
<1> QED BY <1>11, <1>12

(* A step that only touches what is still to be done and the other fields.   *)
LEMMA ItemCompleteDoes ==
    ASSUME TInv, NEW v \in Videos, OnItemComplete(v)
    PROVE  /\ TInv' /\ UNCHANGED <<listed, active, queue, alerts, pairs, world>>
           /\ \A w \in Videos : w # v => item'[w] = item[w]
           /\ item'[v].flags \in {item[v].flags, item[v].flags \cup {"ERR_NETWORK"}}
           /\ item'[v].cur = item[v].cur /\ item'[v].clips = item[v].clips
           /\ item'[v].type = item[v].type
           /\ \/ Then(<<>>)
              \/ Then(<<Call("QueueNextDownloadItem", v)>>)
              \/ Then(<<Call("OnDownloadComplete", v)>>)
           /\ \/ retry' = retry
              \/ /\ Head(calls).hr \notin {"S_OK", "E_FAIL"}
                 /\ \A w \in Videos : w # v => retry'[w] = retry[w]
<1> DEFINE r == item[v]
           next == Call("QueueNextDownloadItem", v)
           end  == Call("OnDownloadComplete", v)
<1>0. /\ calls # <<>> /\ calls \in Seq(CallSet)
      /\ UNCHANGED <<listed, active, queue, allPaused, alerts, pairs, world>>
      /\ Head(calls) \in CallSet /\ Head(calls).do = "OnItemComplete" /\ Head(calls).v = v
      /\ ItemsTyped /\ r \in ItemsOf(v)
  BY DoingIs DEF OnItemComplete, TInv, ItemsTyped
<1>a. PICK k \in Clips(v) : k = Head(calls).k
  BY <1>0 DEF CallSet, OfClip
<1>b. next \in CallSet /\ end \in CallSet
  BY CallsTyped DEF OfVideo
<1>1. \/ /\ item' = [item EXCEPT ![v].timed = @ \cup {k}, ![v].completed = @ \cup {k}]
         /\ Then(IF k \in r.completed THEN <<>> ELSE Onward(v))
         /\ retry' = retry
      \/ /\ item' = item /\ retry' = retry
         /\ Then(IF Is(v, "STOPPED") THEN <<>> ELSE <<next>>)
      \/ /\ item' = [item EXCEPT
              ![v].flags   = @ \cup {"ERR_NETWORK"},
              ![v].error   = TRUE,
              ![v].missing = IF Head(calls).hr = "E_HTTP_NOTFOUND" THEN @ \cup {k} ELSE @]
         /\ retry' = IF Head(calls).hr = "E_HTTP_NET_ERROR" THEN [retry EXCEPT ![v] = @ + 1]
                     ELSE retry
         /\ Then(<<>>)
  BY <1>a DEF OnItemComplete
<1>2. ASSUME ItemsTyped', item'[v].handle = r.handle,
             \A w \in Videos : w # v => item'[w] = item[w],
             calls' \in Seq(CallSet), retry' \in [Videos -> Nat]
      PROVE  TInv'
  <2>0. \A w \in Videos : item'[w].handle = item[w].handle
    BY <1>2
  <2>1. HandlesTyped'
    BY <1>0, <2>0, HandlesStay, PairsUntouched
  <2> QED BY <1>0, <1>2, <2>1 DEF TInv
<1>3. CASE /\ item' = [item EXCEPT ![v].timed = @ \cup {k}, ![v].completed = @ \cup {k}]
           /\ Then(IF k \in r.completed THEN <<>> ELSE Onward(v))
           /\ retry' = retry
  <2>1. /\ ItemsTyped' /\ \A w \in Videos : w # v => item'[w] = item[w]
        /\ item'[v].flags = r.flags /\ item'[v].cur = r.cur /\ item'[v].clips = r.clips
        /\ item'[v].type = r.type /\ item'[v].handle = r.handle
    BY <1>0, <1>3 DEF ItemsTyped, ItemsOf
  <2>2. Then(<<>>) \/ Then(<<next>>) \/ Then(<<end>>)
    BY <1>3 DEF Onward
  <2>3. TInv'
    BY <1>0, <1>2, <1>3, <1>b, <2>1, <2>2, ThenNothing, ThenCall DEF TInv
  <2> QED BY <1>0, <1>3, <2>1, <2>2, <2>3
<1>4. CASE /\ item' = item /\ retry' = retry
           /\ Then(IF Is(v, "STOPPED") THEN <<>> ELSE <<next>>)
  <2>1. ItemsTyped'
    BY <1>0, <1>4 DEF ItemsTyped
  <2>2. Then(<<>>) \/ Then(<<next>>)
    BY <1>4
  <2>3. TInv'
    BY <1>0, <1>2, <1>4, <1>b, <2>1, <2>2, ThenNothing, ThenCall DEF TInv
  <2> QED BY <1>0, <1>4, <2>1, <2>2, <2>3
<1>5. CASE /\ item' = [item EXCEPT
                ![v].flags   = @ \cup {"ERR_NETWORK"},
                ![v].error   = TRUE,
                ![v].missing = IF Head(calls).hr = "E_HTTP_NOTFOUND" THEN @ \cup {k} ELSE @]
           /\ retry' = IF Head(calls).hr = "E_HTTP_NET_ERROR" THEN [retry EXCEPT ![v] = @ + 1]
                       ELSE retry
           /\ Then(<<>>)
  <2> DEFINE m == IF Head(calls).hr = "E_HTTP_NOTFOUND" THEN r.missing \cup {k} ELSE r.missing
             F == r.flags \cup {"ERR_NETWORK"}
  <2>1. m \in SUBSET Clips(v) /\ F \in SUBSET Flags
    BY <1>0 DEF ItemsOf, Flags
  <2>2. item' = [item EXCEPT ![v].flags = F, ![v].error = TRUE, ![v].missing = m]
    BY <1>5
  <2> HIDE DEF m, F
  <2>3. /\ ItemsTyped' /\ \A w \in Videos : w # v => item'[w] = item[w]
        /\ item'[v].flags = F /\ item'[v].cur = r.cur /\ item'[v].clips = r.clips
        /\ item'[v].type = r.type /\ item'[v].handle = r.handle
    BY <1>0, <2>1, <2>2 DEF ItemsTyped, ItemsOf
  <2>4. /\ retry' \in [Videos -> Nat] /\ \A w \in Videos : w # v => retry'[w] = retry[w]
        /\ retry' = retry \/ Head(calls).hr \notin {"S_OK", "E_FAIL"}
    BY <1>5 DEF TInv
  <2>5. TInv'
    BY <1>0, <1>2, <1>5, <2>3, <2>4, ThenNothing
  <2> QED BY <1>0, <1>5, <2>3, <2>4, <2>5 DEF F
<1> QED BY <1>1, <1>3, <1>4, <1>5

LEMMA CompleteDoes ==
    ASSUME TInv, NEW v \in Videos, OnDownloadComplete(v)
    PROVE  /\ TInv' /\ UNCHANGED <<listed, alerts, retry, pairs, world>>
           /\ Reflagged(v, (item[v].flags \ {"ACTIVE"}) \cup {"FINISHED"})
           /\ \/ /\ Is(v, "FINISHED") \/ IsStream(v)
                 /\ Then(<<>>) /\ UNCHANGED <<active, queue>>
              \/ /\ ~Is(v, "FINISHED") /\ ~IsStream(v)
                 /\ active' = active - 1
                 /\ \/ /\ queue' = queue /\ Then(<<>>)
                       /\ queue = <<>> \/ FALSE \in FreeSpace(Head(queue))
                    \/ /\ queue # <<>> /\ queue' = Tail(queue)
                       /\ Then(<<Call("QueueDownload", Head(queue))>>)
<1> DEFINE F == (item[v].flags \ {"ACTIVE"}) \cup {"FINISHED"}
<1>0. /\ calls # <<>> /\ calls \in Seq(CallSet) /\ queue \in Seq(Videos) /\ active \in Int
      /\ UNCHANGED <<listed, allPaused, alerts, retry, pairs, world>>
      /\ ItemsTyped /\ F \in SUBSET Flags
      /\ item' = [item EXCEPT ![v].flags = F, ![v].error = FALSE]
  BY DoingIs DEF OnDownloadComplete, TInv, ItemsTyped, ItemsOf, Flags
<1>1. ItemsTyped' /\ Reflagged(v, F)
  BY <1>0, FlagsChange
<1>2. HandlesTyped'
  BY <1>0, <1>1, HandlesKept, PairsUntouched
<1>3. ASSUME calls' \in Seq(CallSet), active' \in Int, queue' \in Seq(Videos)
      PROVE  TInv'
  BY <1>0, <1>1, <1>2, <1>3 DEF TInv
<1>4. \/ (Is(v, "FINISHED") \/ IsStream(v)) /\ Then(<<>>) /\ UNCHANGED <<active, queue>>
      \/ /\ ~Is(v, "FINISHED") /\ ~IsStream(v)
         /\ active' = active - 1
         /\ \E enough \in IF queue = <<>> THEN {FALSE} ELSE FreeSpace(Head(queue)) :
               /\ queue' = IF enough THEN Tail(queue) ELSE queue
               /\ Then(IF enough THEN <<Call("QueueDownload", Head(queue))>> ELSE <<>>)
  BY DEF OnDownloadComplete
<1>5. CASE (Is(v, "FINISHED") \/ IsStream(v)) /\ Then(<<>>) /\ UNCHANGED <<active, queue>>
  BY <1>0, <1>1, <1>3, <1>5, ThenNothing
<1>6. CASE /\ ~Is(v, "FINISHED") /\ ~IsStream(v)
           /\ active' = active - 1
           /\ \E enough \in IF queue = <<>> THEN {FALSE} ELSE FreeSpace(Head(queue)) :
                 /\ queue' = IF enough THEN Tail(queue) ELSE queue
                 /\ Then(IF enough THEN <<Call("QueueDownload", Head(queue))>> ELSE <<>>)
  <2>1. PICK enough \in IF queue = <<>> THEN {FALSE} ELSE FreeSpace(Head(queue)) :
               /\ queue' = IF enough THEN Tail(queue) ELSE queue
               /\ Then(IF enough THEN <<Call("QueueDownload", Head(queue))>> ELSE <<>>)
    BY <1>6
  <2>2. enough \in BOOLEAN /\ (enough => queue # <<>>)
    BY <2>1 DEF FreeSpace
  <2>3. CASE enough
    <3>1. /\ queue # <<>> /\ queue' = Tail(queue)
          /\ Then(<<Call("QueueDownload", Head(queue))>>)
      BY <2>1, <2>2, <2>3
    <3>2. Call("QueueDownload", Head(queue)) \in CallSet /\ Tail(queue) \in Seq(Videos)
      BY <1>0, <3>1, HeadAndTail, CallsTyped DEF OfVideo
    <3>3. active' \in Int
      BY <1>0, <1>6
    <3>4. TInv'
      BY <1>0, <1>3, <3>1, <3>2, <3>3, ThenCall
    <3> QED BY <1>0, <1>1, <1>6, <3>1, <3>4
  <2>4. CASE ~enough
    <3>1. /\ queue' = queue /\ Then(<<>>)
          /\ queue = <<>> \/ FALSE \in FreeSpace(Head(queue))
      BY <2>1, <2>2, <2>4
    <3>3. active' \in Int
      BY <1>0, <1>6
    <3>4. TInv'
      BY <1>0, <1>3, <3>1, <3>3, ThenNothing
    <3> QED BY <1>0, <1>1, <1>6, <3>1, <3>4
  <2> QED BY <2>2, <2>3, <2>4
<1> QED BY <1>4, <1>5, <1>6

LEMMA FreshTyped ==
    ASSUME NEW v \in Videos
    PROVE  /\ Fresh(v) \in ItemsOf(v)
           /\ \A k \in Clips(v) : Fresh(v).handle[k] = 0
           /\ Fresh(v).flags = {} /\ Fresh(v).cur = 0 /\ Fresh(v).clips = 0
           /\ Fresh(v).type = [k \in Clips(v) |-> ClipType[v]]
  BY Settings DEF Fresh, ItemsOf

(* DeleteDownloadObject.                                                     *)
LEMMA DeletedDoes ==
    ASSUME TInv, NEW v \in Videos, Deleted(v)
    PROVE  /\ ItemsTyped' /\ item'[v] = Fresh(v)
           /\ \A w \in Videos : w # v => item'[w] = item[w]
           /\ listed' = listed \ {v}
           /\ UNCHANGED pairs => HandlesTyped'
<1>1. /\ ItemsTyped' /\ item'[v] = Fresh(v)
      /\ \A w \in Videos : w # v => item'[w] = item[w]
  BY FreshTyped, OneItem DEF Deleted, TInv
<1>3. ASSUME UNCHANGED pairs PROVE HandlesTyped'
  <2> SUFFICES ASSUME NEW w \in Videos, NEW k \in Clips(w), item'[w].handle[k] # 0
               PROVE  /\ item'[w].handle[k] \in 1..Len(pairs')
                      /\ pairs'[item'[w].handle[k]].v = w
    BY DEF HandlesTyped
  <2>1. CASE w = v
    <3>1. k \in Clips(v) /\ item'[w] = Fresh(v)
      BY <1>1, <2>1
    <3> QED BY <3>1, FreshTyped
  <2>2. CASE w # v
    BY <1>1, <1>3, <2>2 DEF TInv, HandlesTyped
  <2> QED BY <2>1, <2>2
<1> QED BY <1>1, <1>3 DEF Deleted

LEMMA EraseDoes ==
    ASSUME TInv, NEW v \in Videos, EraseDownload(v)
    PROVE  /\ TInv' /\ UNCHANGED <<active, queue, alerts, retry, pairs, world>>
           /\ listed' = listed \ {v} /\ item'[v] = Fresh(v)
           /\ \A w \in Videos : w # v => item'[w] = item[w]
           /\ Then(<<>>)
<1>1. /\ calls # <<>> /\ calls \in Seq(CallSet) /\ Then(<<>>) /\ Deleted(v)
      /\ UNCHANGED <<active, queue, allPaused, alerts, retry, pairs, world>>
  BY DoingIs DEF EraseDownload
<1>2. TInv'
  BY <1>1, DeletedDoes, ThenNothing DEF TInv
<1> QED BY <1>1, <1>2, DeletedDoes

LEMMA CountDoes ==
    ASSUME TInv, NEW v \in Videos, CountTorrentFound(v)
    PROVE  /\ TInv' /\ UNCHANGED <<listed, item, queue, alerts, retry, pairs, world>>
           /\ active' = active + 1 /\ Then(<<>>)
<1>1. /\ calls # <<>> /\ calls \in Seq(CallSet) /\ Then(<<>>) /\ active' = active + 1
      /\ UNCHANGED <<listed, item, queue, allPaused, alerts, retry, pairs, world>>
  BY DoingIs DEF CountTorrentFound
<1>2. TInv'
  BY <1>1, ThenNothing DEF TInv, ItemsTyped, HandlesTyped
<1> QED BY <1>1, <1>2

(* A pair for each handle, about the clips the old pairs were about.         *)
LEMMA PairsMapped ==
    ASSUME pairs \in Seq(PairSet), DOMAIN pairs' = DOMAIN pairs,
           pairs' = [h \in DOMAIN pairs |-> pairs'[h]],
           \A h \in DOMAIN pairs :
              /\ pairs'[h] \in PairSet
              /\ pairs'[h].v = pairs[h].v /\ pairs'[h].k = pairs[h].k
    PROVE  SamePairs
<1>1. Len(pairs) \in Nat /\ DOMAIN pairs = 1..Len(pairs)
  BY SeqEntries
<1>2. pairs' = [h \in 1..Len(pairs) |-> pairs'[h]]
  BY <1>1
<1>3. pairs' \in Seq(PairSet) /\ Len(pairs') = Len(pairs)
  BY <1>1, <1>2, IsASeq
<1> QED BY <1>1, <1>3 DEF SamePairs

LEMMA PausedPairs ==
    ASSUME pairs \in Seq(PairSet), NEW b \in BOOLEAN, NEW H,
           pairs' = [h \in DOMAIN pairs |->
                        IF h \in H THEN [pairs[h] EXCEPT !.paused = b] ELSE pairs[h]]
    PROVE  SamePairs
<1>1. DOMAIN pairs = 1..Len(pairs) /\ \A h \in DOMAIN pairs : pairs[h] \in PairSet
  BY SeqEntries, ElementOfSeq
<1>2. \A h \in DOMAIN pairs :
         /\ pairs'[h] \in PairSet
         /\ pairs'[h].v = pairs[h].v /\ pairs'[h].k = pairs[h].k
  BY <1>1 DEF PairSet
<1> QED BY <1>2, PairsMapped

LEMMA GonePairs ==
    ASSUME pairs \in Seq(PairSet), NEW H, pairs' = Removed(H)
    PROVE  SamePairs
<1>1. DOMAIN pairs = 1..Len(pairs) /\ \A h \in DOMAIN pairs : pairs[h] \in PairSet
  BY SeqEntries, ElementOfSeq
<1>2. \A h \in DOMAIN pairs :
         /\ pairs'[h] \in PairSet
         /\ pairs'[h].v = pairs[h].v /\ pairs'[h].k = pairs[h].k
  BY <1>1 DEF PairSet, Removed, States
<1> QED BY <1>2, PairsMapped DEF Removed

LEMMA MovedPair ==
    ASSUME pairs \in Seq(PairSet), NEW h \in DOMAIN pairs, NEW to \in States, NEW from,
           Moves(h, from, to)
    PROVE  SamePairs
<1>1. DOMAIN pairs = 1..Len(pairs) /\ \A i \in DOMAIN pairs : pairs[i] \in PairSet
  BY SeqEntries, ElementOfSeq
<1>2. \A i \in DOMAIN pairs :
         /\ pairs'[i] \in PairSet
         /\ pairs'[i].v = pairs[i].v /\ pairs'[i].k = pairs[i].k
  BY <1>1 DEF PairSet, Moves
<1> QED BY <1>2, PairsMapped DEF Moves

(* What is left of TInv when one download changed in its flags.              *)
LEMMA ReflaggedTyped ==
    ASSUME TInv, NEW v \in Videos, NEW F, Reflagged(v, F), ItemsTyped', SamePairs,
           listed' \in SUBSET Videos, active' \in Int, queue' \in Seq(Videos),
           allPaused' \in BOOLEAN, calls' \in Seq(CallSet), alerts' \in Seq(AlertSet),
           Len(alerts') <= MaxAlerts, UNCHANGED <<retry, world>>
    PROVE  TInv'
<1>1. HandlesTyped'
  BY HandlesKept
<1> QED BY <1>1 DEF TInv, SamePairs

LEMMA ResumeDoes ==
    ASSUME TInv, NEW v \in Videos, ResumeStep(v)
    PROVE  /\ TInv' /\ SamePairs /\ UNCHANGED <<listed, queue, alerts, retry, world>>
           /\ \E F \in {item[v].flags, item[v].flags \ {"PAUSED"}} : Reflagged(v, F)
           /\ \/ Then(<<>>) /\ active' = active
              \/ /\ ~Is(v, "QUEUED") /\ Is(v, "PAUSED") /\ active' = active + 1
                 /\ Then(<<Call("QueueNextDownloadItem", v)>>)
<1> DEFINE f == item[v].flags
           F == f \ {"PAUSED"}
           next == Call("QueueNextDownloadItem", v)
<1>0. /\ calls # <<>> /\ calls \in Seq(CallSet) /\ ItemsTyped /\ next \in CallSet
      /\ f \in SUBSET Flags /\ F \in SUBSET Flags /\ active \in Int
      /\ listed \in SUBSET Videos /\ queue \in Seq(Videos) /\ allPaused \in BOOLEAN
      /\ alerts \in Seq(AlertSet) /\ Len(alerts) <= MaxAlerts /\ pairs \in Seq(PairSet)
      /\ UNCHANGED <<listed, queue, alerts, retry, world>>
  BY DoingIs, CallsTyped DEF ResumeStep, TInv, ItemsTyped, ItemsOf, OfVideo
<1>1. \/ /\ Then(<<>>) /\ item' = item /\ UNCHANGED <<active, allPaused, pairs>>
      \/ /\ ~Is(v, "QUEUED") /\ Is(v, "PAUSED")
         /\ item' = [item EXCEPT ![v].flags = @ \ {"PAUSED"}]
         /\ active' = active + 1 /\ allPaused' = FALSE /\ Then(<<next>>) /\ pairs' = pairs
      \/ /\ item' = [item EXCEPT ![v].flags = @ \ {"PAUSED"}, ![v].error = FALSE]
         /\ pairs' = Switched(v, FALSE) /\ allPaused' = FALSE /\ Then(<<>>)
         /\ active' = active
  BY DEF ResumeStep, Resume, Restarted
<1>2. CASE Then(<<>>) /\ item' = item /\ UNCHANGED <<active, allPaused, pairs>>
  <2>1. ItemsTyped' /\ Reflagged(v, f) /\ SamePairs
    BY <1>0, <1>2, FlagsChange, PairsUntouched
  <2>2. TInv'
    BY <1>0, <1>2, <2>1, ThenNothing, ReflaggedTyped
  <2> QED BY <1>0, <1>2, <2>1, <2>2
<1>3. CASE /\ ~Is(v, "QUEUED") /\ Is(v, "PAUSED")
           /\ item' = [item EXCEPT ![v].flags = @ \ {"PAUSED"}]
           /\ active' = active + 1 /\ allPaused' = FALSE /\ Then(<<next>>) /\ pairs' = pairs
  <2>1. ItemsTyped' /\ Reflagged(v, F) /\ SamePairs
    BY <1>0, <1>3, FlagsChange, PairsUntouched
  <2>2. calls' \in Seq(CallSet) /\ active' \in Int
    BY <1>0, <1>3, ThenCall
  <2>3. TInv'
    BY <1>0, <1>3, <2>1, <2>2, ReflaggedTyped
  <2> QED BY <1>0, <1>3, <2>1, <2>3
<1>4. CASE /\ item' = [item EXCEPT ![v].flags = @ \ {"PAUSED"}, ![v].error = FALSE]
           /\ pairs' = Switched(v, FALSE) /\ allPaused' = FALSE /\ Then(<<>>)
           /\ active' = active
  <2>1. ItemsTyped' /\ Reflagged(v, F)
    BY <1>0, <1>4, FlagsChange
  <2>2. SamePairs
    BY <1>0, <1>4, PausedPairs DEF Switched
  <2>3. TInv'
    BY <1>0, <1>4, <2>1, <2>2, ThenNothing, ReflaggedTyped
  <2> QED BY <1>0, <1>4, <2>1, <2>2, <2>3
<1> QED BY <1>1, <1>2, <1>3, <1>4

(* The calls of the user interface find nothing left to be done.             *)
LEMMA AddDoes ==
    ASSUME TInv, NEW v \in Videos, AddDownload(v)
    PROVE  /\ TInv' /\ UNCHANGED <<active, queue, alerts, retry, pairs, world>>
           /\ calls = <<>> /\ v \notin listed /\ listed' = listed \cup {v}
           /\ May("add-again") \/ \A h \in DOMAIN pairs : pairs[h].v # v
           /\ calls' = <<Call("QueueDownload", v)>>
           /\ \A w \in Videos : w # v => item'[w] = item[w]
           /\ item'[v].flags \subseteq {"FINISHED", "PAUSED"}
           /\ item'[v].cur = 0 /\ item'[v].clips = 0
           /\ item'[v].type = [k \in Clips(v) |-> ClipType[v]]
           /\ \A k \in Clips(v) : item'[v].handle[k] = 0
<1>1. PICK stored \in world.stored, k \in 0..ClipCount[v] :
          /\ item' = [item EXCEPT ![v] = [Fresh(v) EXCEPT !.flags = stored, !.timed = 1..k]]
          /\ allPaused' = (allPaused /\ "PAUSED" \in stored)
  BY DEF AddDownload
<1>2. stored \subseteq {"FINISHED", "PAUSED"} /\ 1..k \in SUBSET Clips(v)
  <2>1. world \in World
    BY Settings DEF TInv
  <2>2. stored \subseteq {"FINISHED", "PAUSED"}
    BY <2>1 DEF World
  <2>3. 1..k \in SUBSET Clips(v)
    BY Settings DEF Clips
  <2> QED BY <2>2, <2>3
<1>3. stored \in SUBSET Flags
  BY <1>2 DEF Flags
<1> DEFINE r == [Fresh(v) EXCEPT !.flags = stored, !.timed = 1..k]
<1>4. /\ r \in ItemsOf(v) /\ r.flags = stored /\ r.cur = 0 /\ r.clips = 0
      /\ r.type = [j \in Clips(v) |-> ClipType[v]] /\ r.handle = Fresh(v).handle
  <2>1. Fresh(v) \in ItemsOf(v)
    BY FreshTyped
  <2>2. /\ r \in ItemsOf(v) /\ r.flags = stored /\ r.handle = Fresh(v).handle
        /\ r.cur = Fresh(v).cur /\ r.clips = Fresh(v).clips /\ r.type = Fresh(v).type
    BY <1>2, <1>3, <2>1 DEF ItemsOf
  <2> QED BY <2>2, FreshTyped
<1>5. item' = [item EXCEPT ![v] = r]
  BY <1>1
<1> HIDE DEF r
<1>6. /\ ItemsTyped' /\ item'[v] = r /\ \A w \in Videos : w # v => item'[w] = item[w]
  BY <1>4, <1>5, OneItem DEF TInv
<1>7. \A j \in Clips(v) : item'[v].handle[j] = 0
  <2>1. item'[v].handle = Fresh(v).handle
    BY <1>4, <1>6
  <2> QED BY <2>1, FreshTyped
<1>8. HandlesTyped' \/ pairs' # pairs
  <2> SUFFICES ASSUME pairs' = pairs, NEW w \in Videos, NEW j \in Clips(w),
                      item'[w].handle[j] # 0
               PROVE  /\ item'[w].handle[j] \in 1..Len(pairs')
                      /\ pairs'[item'[w].handle[j]].v = w
    BY DEF HandlesTyped
  <2>1. w # v
    BY <1>7
  <2> QED BY <1>6, <2>1 DEF TInv, HandlesTyped
<1>9. /\ UNCHANGED <<active, queue, alerts, retry, pairs, world>>
      /\ calls = <<>> /\ v \notin listed /\ listed' = listed \cup {v}
      /\ May("add-again") \/ \A h \in DOMAIN pairs : pairs[h].v # v
      /\ calls' = <<Call("QueueDownload", v)>>
  BY DEF AddDownload, Enter
<1>10. calls' \in Seq(CallSet)
  <2>1. Call("QueueDownload", v) \in CallSet
    BY CallsTyped DEF OfVideo
  <2> QED BY <1>9, <2>1, OneEntry
<1>11. allPaused' \in BOOLEAN
  BY <1>1 DEF TInv
<1>12. TInv'
  BY <1>6, <1>8, <1>9, <1>10, <1>11 DEF TInv
<1> QED BY <1>2, <1>4, <1>6, <1>7, <1>9, <1>12

LEMMA StartDoes ==
    ASSUME TInv, NEW v \in Videos, StartQueuedDownload(v)
    PROVE  /\ TInv' /\ UNCHANGED <<listed, active, alerts, retry, pairs, world>>
           /\ calls = <<>> /\ v \in listed
           /\ Is(v, "QUEUED") \/ (Is(v, "FINISHED") /\ IsStream(v)) \/ May("stale-start")
           /\ queue' = IF Is(v, "QUEUED") THEN Unqueued(v) ELSE queue
           /\ calls' = <<Call("QueueDownload", v)>>
           /\ \A w \in Videos : w # v => item'[w] = item[w]
           /\ \/ /\ Is(v, "QUEUED") \/ ~IsStream(v)
                 /\ item'[v].flags = item[v].flags \cup {"FORCE"}
                 /\ item'[v].cur = item[v].cur /\ item'[v].clips = item[v].clips
                 /\ item'[v].type = item[v].type
              \/ /\ ~Is(v, "QUEUED") /\ IsStream(v)
                 /\ item'[v].flags = (item[v].flags \ {"FINISHED"}) \cup {"FORCE"}
                 /\ item'[v].cur = 0 /\ item'[v].clips = 0 /\ item'[v].type[1] = "http"
<1> DEFINE d == IF ~Is(v, "QUEUED") /\ IsStream(v) THEN Redownload(item[v]) ELSE item[v]
           r == [d EXCEPT !.flags = @ \cup {"FORCE"}]
<1>1. /\ UNCHANGED <<listed, active, allPaused, alerts, retry, pairs, world>>
      /\ calls = <<>> /\ v \in listed
      /\ Is(v, "QUEUED") \/ (Is(v, "FINISHED") /\ IsStream(v)) \/ May("stale-start")
      /\ queue' = IF Is(v, "QUEUED") THEN Unqueued(v) ELSE queue
      /\ calls' = <<Call("QueueDownload", v)>>
      /\ item' = [item EXCEPT ![v] = r]
  BY DEF StartQueuedDownload, UserCall, Enter, IsDownloadableStream
<1>2. item[v] \in ItemsOf(v) /\ 1 \in Clips(v) /\ item[v].type \in [Clips(v) -> Types]
  BY Settings DEF TInv, ItemsTyped, ItemsOf
<1>3. /\ r \in ItemsOf(v) /\ r.handle = item[v].handle
      /\ \/ /\ Is(v, "QUEUED") \/ ~IsStream(v)
            /\ r.flags = item[v].flags \cup {"FORCE"}
            /\ r.cur = item[v].cur /\ r.clips = item[v].clips /\ r.type = item[v].type
         \/ /\ ~Is(v, "QUEUED") /\ IsStream(v)
            /\ r.flags = (item[v].flags \ {"FINISHED"}) \cup {"FORCE"}
            /\ r.cur = 0 /\ r.clips = 0 /\ r.type[1] = "http"
  <2>1. CASE ~Is(v, "QUEUED") /\ IsStream(v)
    <3> DEFINE e == Redownload(item[v])
    <3>1. /\ e \in ItemsOf(v) /\ e.handle = item[v].handle
          /\ e.flags = item[v].flags \ {"FINISHED"}
          /\ e.cur = 0 /\ e.clips = 0
          /\ e.type = [item[v].type EXCEPT ![1] = "http"]
      <4>1. ClipCount[v] \in Nat
        BY Settings
      <4>2. [item[v].type EXCEPT ![1] = "http"] \in [Clips(v) -> Types]
        BY <1>2 DEF Types
      <4>3. /\ e.type = [item[v].type EXCEPT ![1] = "http"] /\ e.handle = item[v].handle
            /\ e.flags = item[v].flags \ {"FINISHED"} /\ e.cur = 0 /\ e.clips = 0
        BY <1>2 DEF ItemsOf, Redownload
      <4>4. e \in ItemsOf(v)
        <5> DEFINE g == item[v]
                   t == [g.type EXCEPT ![1] = "http"]
                   a == g.timed \ {1}
                   b == g.completed \ {1}
                   c == g.flags \ {"FINISHED"}
        <5>1. /\ g \in ItemsOf(v) /\ t \in [Clips(v) -> Types] /\ 0 \in 0..ClipCount[v]
              /\ a \in SUBSET Clips(v) /\ b \in SUBSET Clips(v) /\ c \in SUBSET Flags
          BY <1>2, <4>1, <4>2 DEF ItemsOf
        <5>2. e = [g EXCEPT !.clips = 0, !.cur = 0, !.type = t, !.timed = a,
                            !.completed = b, !.flags = c]
          BY Zenon DEF Redownload
        <5> HIDE DEF e, g, t, a, b, c
        <5>3. e = [flags |-> c, cur |-> 0, clips |-> 0, error |-> g.error, completed |-> b,
                   timed |-> a, missing |-> g.missing, type |-> t, handle |-> g.handle]
          BY <5>1, <5>2 DEF ItemsOf
        <5>4. /\ g.error \in BOOLEAN /\ g.missing \in SUBSET Clips(v)
              /\ g.handle \in [Clips(v) -> Nat] /\ 0 \in Int
          BY <5>1 DEF ItemsOf
        <5> QED BY <5>1, <5>3, <5>4 DEF ItemsOf
      <4> QED BY <4>3, <4>4
    <3>2. e.type[1] = "http"
      BY <1>2, <3>1
    <3>3. r = [e EXCEPT !.flags = @ \cup {"FORCE"}]
      BY <2>1
    <3> HIDE DEF e, d, r
    <3>4. /\ r \in ItemsOf(v) /\ r.handle = e.handle /\ r.flags = e.flags \cup {"FORCE"}
          /\ r.cur = e.cur /\ r.clips = e.clips /\ r.type = e.type
      BY <3>1, <3>3 DEF ItemsOf, Flags
    <3> QED BY <2>1, <3>1, <3>2, <3>4
  <2>2. CASE ~(~Is(v, "QUEUED") /\ IsStream(v))
    <3>1. r = [item[v] EXCEPT !.flags = @ \cup {"FORCE"}]
      BY <2>2
    <3> HIDE DEF d, r
    <3>2. /\ r \in ItemsOf(v) /\ r.handle = item[v].handle
          /\ r.flags = item[v].flags \cup {"FORCE"}
          /\ r.cur = item[v].cur /\ r.clips = item[v].clips /\ r.type = item[v].type
      BY <1>2, <3>1 DEF ItemsOf, Flags
    <3> QED BY <2>2, <3>2
  <2> QED BY <2>1, <2>2
<1> HIDE DEF d, r
<1>4. ItemsTyped' /\ item'[v] = r /\ \A w \in Videos : w # v => item'[w] = item[w]
  BY <1>1, <1>3, OneItem DEF TInv
<1>5. HandlesTyped'
  BY <1>1, <1>3, <1>4 DEF TInv, HandlesTyped
<1>6. queue' \in Seq(Videos)
  BY <1>1, RemovedFirst DEF TInv, Unqueued
<1>7. calls' \in Seq(CallSet)
  <2>1. Call("QueueDownload", v) \in CallSet
    BY CallsTyped DEF OfVideo
  <2> QED BY <1>1, <2>1, OneEntry
<1>8. TInv'
  BY <1>1, <1>4, <1>5, <1>6, <1>7 DEF TInv
<1> QED BY <1>1, <1>3, <1>4, <1>8

(* RemovalAlerts tells of each clip the clip downloader works on.            *)
LEMMA RemovalsTyped ==
    ASSUME TInv, NEW v \in Videos
    PROVE  /\ RemovalAlerts(v) \in Seq(AlertSet)
           /\ \A a \in Range(RemovalAlerts(v)) : a.v = v
           /\ LivePairs(v) = {} => RemovalAlerts(v) = <<>>
<1> DEFINE K  == {k \in Clips(v) : item[v].handle[k] \in LivePairs(v)}
           ks == SetToSeq(K)
<1>1. IsFiniteSet(K)
  BY Settings, FS_Subset
<1>2. ks \in Seq(K) /\ Range(ks) = K
  BY <1>1, SetToSeqEntries
<1>3. Len(ks) \in Nat /\ DOMAIN ks = 1..Len(ks) /\ \A i \in 1..Len(ks) : ks[i] \in K
  BY <1>2, SeqEntries, ElementOfSeq
<1>4. RemovalAlerts(v) =
        [i \in DOMAIN ks |-> [code |-> "REMOVED", v |-> v, k |-> ks[i], hr |-> "E_ABORT"]]
  BY DEF RemovalAlerts
<1>5. ks = <<>> <=> Len(ks) = 0
  BY <1>2, SeqEntries
<1>6. K = {} => Len(ks) = 0
  <2> HIDE DEF K, ks
  <2>1. Len(ks) # 0 => ks[1] \in K
    BY <1>3
  <2> QED BY <2>1
<1>7. LivePairs(v) = {} => K = {}
  OBVIOUS
<1>8. \A k \in K : k \in Clips(v) /\ k \in Nat
  BY Settings
<1> HIDE DEF K, ks
<1> DEFINE As(i) == [code |-> "REMOVED", v |-> v, k |-> ks[i], hr |-> "E_ABORT"]
<1>9. \A i \in 1..Len(ks) : As(i) \in AlertSet /\ As(i).v = v
  BY <1>3, <1>8 DEF AlertSet, Codes, Answers
<1>10. RemovalAlerts(v) = [i \in 1..Len(ks) |-> As(i)]
  BY <1>3, <1>4
<1> HIDE DEF As
<1> DEFINE R == [i \in 1..Len(ks) |-> As(i)]
<1>11. R \in Seq(AlertSet) /\ Len(R) = Len(ks)
  BY <1>3, <1>9, IsASeq
<1>12. \A a \in Range(R) : a.v = v
  <2>1. \A i \in 1..Len(ks) : R[i] = As(i)
    OBVIOUS
  <2> HIDE DEF R
  <2>2. Range(R) = {R[i] : i \in 1..Len(ks)}
    BY <1>11, SeqEntries
  <2> QED BY <1>9, <2>1, <2>2
<1>13. Len(ks) = 0 => R = <<>>
  BY <1>11, SeqEntries
<1> QED BY <1>6, <1>7, <1>10, <1>11, <1>12, <1>13

LEMMA RemoveDoes ==
    ASSUME TInv, NEW v \in Videos, RemoveDownload(v)
    PROVE  /\ TInv' /\ SamePairs /\ UNCHANGED <<listed, retry, world>>
           /\ calls = <<>> /\ v \in listed
           /\ Reflagged(v, item[v].flags \cup {"DELETED", "STOPPED"})
           /\ \A a \in Range(alerts') : a \in Range(alerts) \/ (a.v = v /\ LivePairs(v) # {})
           /\ \/ /\ HeldSlot(v) /\ Unqueued(v) # <<>> /\ Head(Unqueued(v)) \in Videos
                 /\ active' = active - 1 /\ queue' = Tail(Unqueued(v))
                 /\ calls' = IF ErasedAtOnce(v)
                             THEN <<Call("QueueDownload", Head(Unqueued(v))),
                                    Call("EraseDownload", v)>>
                             ELSE <<Call("QueueDownload", Head(Unqueued(v)))>>
              \/ /\ queue' = Unqueued(v)
                 /\ queue' # <<>> => active' = active
                 /\ calls' = IF ErasedAtOnce(v) THEN <<Call("EraseDownload", v)>> ELSE <<>>
<1> DEFINE W == Unqueued(v)
           next == HeldSlot(v) /\ W # <<>>
           q == Call("QueueDownload", Head(W))
           e == Call("EraseDownload", v)
           F == item[v].flags \cup {"DELETED", "STOPPED"}
<1>1. /\ UNCHANGED <<listed, allPaused, retry, world>>
      /\ calls = <<>> /\ v \in listed
      /\ item' = [item EXCEPT ![v].flags = F, ![v].error = FALSE]
      /\ pairs' = Removed(LivePairs(v)) /\ alerts' = Push(alerts, RemovalAlerts(v))
      /\ active' = IF HeldSlot(v) THEN active - 1 ELSE active
      /\ queue' = IF next THEN Tail(W) ELSE W
      /\ calls' = (IF next THEN <<q>> ELSE <<>>) \o (IF ErasedAtOnce(v) THEN <<e>> ELSE <<>>)
  BY DEF RemoveDownload, UserCall, Enter
<1>2. ItemsTyped' /\ Reflagged(v, F)
  <2>1. ItemsTyped /\ F \in SUBSET Flags
    BY DEF TInv, ItemsTyped, ItemsOf, Flags
  <2> QED BY <1>1, <2>1, FlagsChange
<1>3. SamePairs
  BY <1>1, GonePairs DEF TInv
<1>4. /\ alerts' \in Seq(AlertSet) /\ Len(alerts') <= MaxAlerts
      /\ \A a \in Range(alerts') : a \in Range(alerts) \/ (a.v = v /\ LivePairs(v) # {})
  <2>1. alerts \in Seq(AlertSet) /\ RemovalAlerts(v) \in Seq(AlertSet)
    BY RemovalsTyped DEF TInv
  <2>2. /\ alerts' \in Seq(AlertSet) /\ Len(alerts') <= MaxAlerts
        /\ Range(alerts') \subseteq Range(alerts) \cup Range(RemovalAlerts(v))
    BY <1>1, <2>1, Pushed
  <2>3. \A a \in Range(RemovalAlerts(v)) : a.v = v /\ LivePairs(v) # {}
    BY RemovalsTyped, NoEntries
  <2>4. \A a \in Range(alerts') : a \in Range(alerts) \/ (a.v = v /\ LivePairs(v) # {})
    BY <2>2, <2>3
  <2> QED BY <2>2, <2>4
<1>5. W \in Seq(Videos) /\ (W # <<>> => Head(W) \in Videos /\ Tail(W) \in Seq(Videos))
  <2>1. W \in Seq(Videos)
    BY RemovedFirst DEF TInv, Unqueued
  <2> QED BY <2>1, HeadAndTail
<1>6. /\ <<q>> \o <<e>> = <<q, e>> /\ <<q>> \o <<>> = <<q>> /\ <<>> \o <<e>> = <<e>>
      /\ <<>> \o <<>> = <<>>
  <2>1. <<>> \o <<>> = <<>>
    BY ConcatEmptySeq, EmptySeq
  <2> QED BY <2>1, Singles
<1>7. calls' = IF next THEN IF ErasedAtOnce(v) THEN <<q, e>> ELSE <<q>>
               ELSE IF ErasedAtOnce(v) THEN <<e>> ELSE <<>>
  BY <1>1, <1>6
<1>8. calls' \in Seq(CallSet)
  <2>1. e \in CallSet /\ <<e>> \in Seq(CallSet)
    BY CallsTyped, OneEntry DEF OfVideo
  <2>2. next => q \in CallSet
    BY <1>5, CallsTyped DEF OfVideo
  <2>3. next => <<q>> \in Seq(CallSet) /\ <<q, e>> \in Seq(CallSet)
    BY <2>1, <2>2, OneEntry, TwoEntries
  <2>4. <<>> \in Seq(CallSet)
    BY EmptySeq
  <2> QED BY <1>7, <2>1, <2>3, <2>4
<1>9. queue' \in Seq(Videos)
  BY <1>1, <1>5
<1>10. active' \in Int
  BY <1>1 DEF TInv
<1>11. TInv'
  <2>1. /\ listed \in SUBSET Videos /\ allPaused \in BOOLEAN
    BY DEF TInv
  <2> QED BY <1>1, <1>2, <1>3, <1>4, <1>8, <1>9, <1>10, <2>1, ReflaggedTyped
<1>12. CASE next
  BY <1>1, <1>2, <1>3, <1>4, <1>5, <1>7, <1>11, <1>12
<1>13. CASE ~next
  <2>1. queue' = W /\ (W # <<>> => active' = active)
    BY <1>1, <1>13
  <2>2. calls' = IF ErasedAtOnce(v) THEN <<e>> ELSE <<>>
    BY <1>7, <1>13
  <2> QED BY <1>1, <1>2, <1>3, <1>4, <1>11, <2>1, <2>2
<1> QED BY <1>12, <1>13

LEMMA PauseDoes ==
    ASSUME TInv, NEW v \in Videos, PauseDownload(v)
    PROVE  /\ TInv' /\ SamePairs
           /\ UNCHANGED <<listed, active, queue, calls, alerts, retry, world>>
           /\ calls = <<>>
           /\ \E F \in {item[v].flags, item[v].flags \cup {"PAUSED"}} :
                 Reflagged(v, F) /\ (Is(v, "QUEUED") => F = item[v].flags)
<1> DEFINE f == item[v].flags
           F == f \cup {"PAUSED"}
<1>1. /\ calls = <<>>
      /\ UNCHANGED <<listed, active, queue, allPaused, calls, alerts, retry, world>>
      /\ \/ item' = item /\ pairs' = pairs
         \/ /\ ~Is(v, "QUEUED")
            /\ item' = [item EXCEPT ![v].flags = F, ![v].error = FALSE]
            /\ pairs' = Switched(v, TRUE)
  BY DEF PauseDownload, UserCall, Enter, Pause
<1>2. /\ f \in SUBSET Flags /\ F \in SUBSET Flags /\ ItemsTyped /\ active \in Int
      /\ listed \in SUBSET Videos /\ queue \in Seq(Videos) /\ allPaused \in BOOLEAN
      /\ alerts \in Seq(AlertSet) /\ Len(alerts) <= MaxAlerts /\ pairs \in Seq(PairSet)
      /\ calls \in Seq(CallSet)
  BY DEF TInv, ItemsTyped, ItemsOf, Flags
<1>3. CASE item' = item /\ pairs' = pairs
  <2>1. ItemsTyped' /\ Reflagged(v, f) /\ SamePairs
    BY <1>2, <1>3, FlagsChange, PairsUntouched
  <2>2. TInv'
    BY <1>1, <1>2, <2>1, ReflaggedTyped
  <2> QED BY <1>1, <2>1, <2>2
<1>4. CASE /\ ~Is(v, "QUEUED")
           /\ item' = [item EXCEPT ![v].flags = F, ![v].error = FALSE]
           /\ pairs' = Switched(v, TRUE)
  <2>1. ItemsTyped' /\ Reflagged(v, F)
    BY <1>2, <1>4, FlagsChange
  <2>2. SamePairs
    BY <1>2, <1>4, PausedPairs DEF Switched
  <2>3. TInv'
    BY <1>1, <1>2, <2>1, <2>2, ReflaggedTyped
  <2> QED BY <1>1, <1>4, <2>1, <2>2, <2>3
<1> QED BY <1>1, <1>3, <1>4

(* Downloads that wait for a slot are left alone by PauseAll.                *)
LEMMA PauseAllDoes ==
    ASSUME TInv, PauseAll
    PROVE  /\ TInv' /\ SamePairs
           /\ UNCHANGED <<listed, active, queue, calls, alerts, retry, world>>
           /\ calls = <<>>
           /\ \A v \in Videos :
                 /\ \/ item'[v].flags = item[v].flags
                    \/ item'[v].flags = item[v].flags \cup {"PAUSED"} /\ ~Is(v, "QUEUED")
                 /\ item'[v].cur = item[v].cur /\ item'[v].clips = item[v].clips
                 /\ item'[v].type = item[v].type /\ item'[v].handle = item[v].handle
<1> DEFINE these == {v \in listed : ~Is(v, "QUEUED")}
           H == UNION {HandlesOf(v) : v \in these}
<1>1. /\ calls = <<>> /\ allPaused' = TRUE
      /\ UNCHANGED <<listed, active, queue, calls, alerts, retry, world>>
      /\ item' = [v \in Videos |->
                IF v \in these
                THEN [item[v] EXCEPT !.flags = @ \cup {"PAUSED"}, !.error = FALSE] ELSE item[v]]
      /\ pairs' = [h \in DOMAIN pairs |->
                IF h \in H THEN [pairs[h] EXCEPT !.paused = TRUE] ELSE pairs[h]]
  BY DEF PauseAll, UserCall, Enter
<1>2. SamePairs
  <2> HIDE DEF H
  <2> QED BY <1>1, PausedPairs DEF TInv
<1>3. ASSUME NEW v \in Videos
      PROVE  /\ item'[v] \in ItemsOf(v)
             /\ \/ item'[v].flags = item[v].flags
                \/ item'[v].flags = item[v].flags \cup {"PAUSED"} /\ ~Is(v, "QUEUED")
             /\ item'[v].cur = item[v].cur /\ item'[v].clips = item[v].clips
             /\ item'[v].type = item[v].type /\ item'[v].handle = item[v].handle
  <2>1. item[v] \in ItemsOf(v)
    BY DEF TInv, ItemsTyped
  <2>2. CASE v \in these
    <3>1. item'[v] = [item[v] EXCEPT !.flags = @ \cup {"PAUSED"}, !.error = FALSE]
      BY <1>1, <2>2
    <3> QED BY <2>1, <2>2, <3>1 DEF ItemsOf, Flags
  <2>3. CASE v \notin these
    BY <1>1, <2>1, <2>3
  <2> QED BY <2>2, <2>3
<1>4. ItemsTyped'
  <2> HIDE DEF these
  <2>1. item' = [v \in Videos |-> item'[v]]
    BY <1>1
  <2> QED BY <1>3, <2>1 DEF ItemsTyped
<1>5. HandlesTyped'
  BY <1>2, <1>3, HandlesStay
<1>6. TInv'
  BY <1>1, <1>2, <1>4, <1>5 DEF TInv, SamePairs
<1> QED BY <1>1, <1>2, <1>3, <1>6

(* _PauseResume(FALSE) is still to be done for each of some downloads.       *)
LEMMA ResumeTheseDoes ==
    ASSUME TInv, NEW vs \in Seq(Videos), ResumeThese(vs), allPaused' \in BOOLEAN
    PROVE  /\ TInv' /\ UNCHANGED <<listed, item, active, queue, alerts, retry, pairs, world>>
           /\ calls = <<>>
           /\ \A c \in Range(calls') : c.do = "Resume" /\ c.hr = "S_OK" /\ c.v \in Range(vs)
           /\ calls' # <<>> => Head(calls') \in Range(calls')
           /\ Behind(calls') \subseteq Range(calls')
<1> DEFINE R(i) == Call("Resume", vs[i])
           s == [i \in 1..Len(vs) |-> R(i)]
<1>1. /\ calls = <<>> /\ calls' = [i \in DOMAIN vs |-> Call("Resume", vs[i])]
      /\ UNCHANGED <<listed, item, active, queue, alerts, retry, pairs, world>>
  BY DEF ResumeThese, UserCall, Enter
<1>2. /\ Len(vs) \in Nat /\ DOMAIN vs = 1..Len(vs) /\ \A i \in 1..Len(vs) : vs[i] \in Videos
      /\ Range(vs) = {vs[i] : i \in 1..Len(vs)}
  BY SeqEntries, ElementOfSeq
<1>3. \A i \in 1..Len(vs) : R(i) \in CallSet
  BY <1>2, CallsTyped DEF OfVideo
<1>4. \A i \in 1..Len(vs) : R(i).do = "Resume" /\ R(i).hr = "S_OK" /\ R(i).v = vs[i]
  BY DEF Call
<1> HIDE DEF R
<1>5. s \in Seq(CallSet) /\ Len(s) = Len(vs)
  BY <1>2, <1>3, IsASeq
<1>6. \A i \in 1..Len(vs) : s[i] = R(i)
  OBVIOUS
<1>7. calls' = s
  BY <1>1, <1>2 DEF R
<1> HIDE DEF s
<1>8. Range(s) = {s[i] : i \in 1..Len(vs)}
  BY <1>5, SeqEntries
<1>9. /\ \A c \in Range(s) : c.do = "Resume" /\ c.hr = "S_OK" /\ c.v \in Range(vs)
  BY <1>2, <1>4, <1>6, <1>8
<1>10. (s # <<>> => Head(s) \in Range(s)) /\ Behind(s) \subseteq Range(s)
  <2>1. CASE s = <<>>
    BY <2>1, NoEntries
  <2>2. CASE s # <<>>
    BY <1>5, <2>2, HeadAndTail
  <2> QED BY <2>1, <2>2
<1>11. TInv'
  BY <1>1, <1>5, <1>7 DEF TInv, ItemsTyped, HandlesTyped
<1> QED BY <1>1, <1>7, <1>9, <1>10, <1>11

LEMMA ResumeCallsDo ==
    ASSUME TInv, ResumeAll \/ \E v \in Videos : ResumeDownload(v)
    PROVE  /\ TInv' /\ UNCHANGED <<listed, item, active, queue, alerts, retry, pairs, world>>
           /\ calls = <<>>
           /\ \A c \in Range(calls') : c.do = "Resume" /\ c.hr = "S_OK" /\ c.v \in listed
           /\ calls' # <<>> => Head(calls') \in Range(calls')
           /\ Behind(calls') \subseteq Range(calls')
<1>1. PICK vs \in Seq(Videos) :
         ResumeThese(vs) /\ Range(vs) \subseteq listed /\ allPaused' \in BOOLEAN
  <2>1. CASE ResumeAll
    <3>1. IsFiniteSet(listed) /\ listed \in SUBSET Videos
      BY Settings, FS_Subset DEF TInv
    <3> DEFINE vs == SetToSeq(listed)
    <3>2. vs \in Seq(listed) /\ Range(vs) = listed
      BY <3>1, SetToSeqEntries
    <3>3. ResumeThese(vs) /\ allPaused' \in BOOLEAN
      BY <2>1 DEF ResumeAll
    <3> HIDE DEF vs
    <3>4. vs \in Seq(Videos)
      BY <3>1, <3>2, SeqEntries, IsASeq
    <3> QED BY <3>2, <3>3, <3>4
  <2>2. ASSUME NEW v \in Videos, ResumeDownload(v)
        PROVE  \E vs \in Seq(Videos) :
                  ResumeThese(vs) /\ Range(vs) \subseteq listed /\ allPaused' \in BOOLEAN
    <3>1. ResumeThese(<<v>>) /\ v \in listed /\ allPaused' \in BOOLEAN
      BY <2>2 DEF ResumeDownload, TInv
    <3>2. <<v>> \in Seq(Videos) /\ Range(<<v>>) = {v}
      BY OneEntry
    <3> QED BY <3>1, <3>2
  <2> QED BY <2>1, <2>2
<1> QED BY <1>1, ResumeTheseDoes

(* The alert thread.                                                         *)
LEMMA TakenIs ==
    ASSUME TInv, NEW code, Taken(code)
    PROVE  /\ calls = <<>> /\ TopAlert \in AlertSet /\ TopAlert \in Range(alerts)
           /\ TopAlert.v \in Videos /\ TopAlert.k \in Clips(TopAlert.v)
           /\ TopAlert.hr \in Answers /\ TopAlert.code = code
           /\ alerts' \in Seq(AlertSet) /\ Len(alerts') <= MaxAlerts
           /\ Range(alerts') \subseteq Range(alerts)
<1>1. /\ calls = <<>> /\ alerts # <<>> /\ TopAlert.code = code /\ alerts' = Front(alerts)
      /\ alerts \in Seq(AlertSet) /\ Len(alerts) <= MaxAlerts
  BY DEF Taken, TInv
<1>2. /\ Last(alerts) \in Range(alerts) /\ Front(alerts) \in Seq(AlertSet)
      /\ Len(Front(alerts)) = Len(alerts) - 1
      /\ Range(Front(alerts)) \subseteq Range(alerts)
  BY <1>1, FrontAndLast
<1>3. Len(alerts) \in Nat /\ Range(alerts) \subseteq AlertSet /\ MaxAlerts \in Nat
  BY <1>1, SeqEntries, Settings
<1>4. TopAlert \in AlertSet /\ TopAlert \in Range(alerts)
  BY <1>2, <1>3 DEF TopAlert
<1>5. Len(alerts') <= MaxAlerts
  BY <1>1, <1>2, <1>3
<1> QED BY <1>1, <1>2, <1>4, <1>5 DEF AlertSet

LEMMA ItemRemovedDoes ==
    ASSUME TInv, OnItemRemoved
    PROVE  /\ TInv' /\ UNCHANGED <<active, queue, calls, retry, pairs, world>>
           /\ calls = <<>> /\ Range(alerts') \subseteq Range(alerts)
           /\ \E a \in Range(alerts) :
                 LET v == a.v IN
                 /\ v \in Videos
                 /\ a.code = "REMOVED" \/ a.hr = "E_ABORT"
                 /\ \A w \in Videos : w # v => item'[w] = item[w]
                 /\ \/ /\ listed' = listed
                       /\ item'[v].flags = item[v].flags /\ item'[v].cur = item[v].cur
                       /\ item'[v].type = item[v].type
                       /\ item'[v].clips = item[v].clips \/ item'[v].clips = item[v].clips - 1
                    \/ /\ v \in listed /\ listed' = listed \ {v}
                       /\ item'[v] = Fresh(v)
<1> DEFINE a == TopAlert
           v == a.v
<1>1. /\ ItemRemoved(v)
      /\ UNCHANGED <<active, queue, allPaused, calls, retry, pairs, world>>
      /\ \E code : Taken(code)
  BY DEF OnItemRemoved, Taken
<1>2. /\ a \in Range(alerts) /\ v \in Videos /\ calls = <<>>
      /\ alerts' \in Seq(AlertSet) /\ Len(alerts') <= MaxAlerts
      /\ Range(alerts') \subseteq Range(alerts)
  BY <1>1, TakenIs
<1>a. a.code = "REMOVED" \/ a.hr = "E_ABORT"
  BY DEF OnItemRemoved, Taken
<1> HIDE DEF a
<1>3. ASSUME ItemsTyped', HandlesTyped', listed' \in SUBSET Videos
      PROVE  TInv'
  BY <1>1, <1>2, <1>3 DEF TInv
<1>4. \/ listed' = listed /\ item' = item
      \/ listed' = listed /\ item' = [item EXCEPT ![v].clips = @ - 1]
      \/ v \in listed /\ Deleted(v)
  BY <1>1 DEF ItemRemoved
<1>5. CASE listed' = listed /\ item' = item
  <2>1. TInv'
    BY <1>1, <1>3, <1>5 DEF TInv, ItemsTyped, HandlesTyped
  <2> QED BY <1>1, <1>2, <1>5, <1>a, <2>1
<1>6. CASE listed' = listed /\ item' = [item EXCEPT ![v].clips = @ - 1]
  <2>1. /\ ItemsTyped' /\ \A w \in Videos : w # v => item'[w] = item[w]
        /\ item'[v].flags = item[v].flags /\ item'[v].cur = item[v].cur
        /\ item'[v].type = item[v].type /\ item'[v].handle = item[v].handle
        /\ item'[v].clips = item[v].clips - 1
    <3>1. PICK u \in Videos : u = v
      BY <1>2
    <3>2. item' = [item EXCEPT ![u].clips = @ - 1]
      BY <1>6, <3>1
    <3>3. item[u] \in ItemsOf(u) /\ ItemsTyped
      BY DEF TInv, ItemsTyped
    <3>4. /\ ItemsTyped' /\ \A w \in Videos : w # u => item'[w] = item[w]
          /\ item'[u].flags = item[u].flags /\ item'[u].cur = item[u].cur
          /\ item'[u].type = item[u].type /\ item'[u].handle = item[u].handle
          /\ item'[u].clips = item[u].clips - 1
      <4> DEFINE n == item[u].clips - 1
                 r == [item[u] EXCEPT !.clips = n]
      <4>1. item' = [item EXCEPT ![u] = r]
        BY <3>2, Zenon
      <4>2. n \in Int
        BY <3>3 DEF ItemsOf
      <4> HIDE DEF n
      <4>3. /\ r \in ItemsOf(u) /\ r.clips = n /\ r.flags = item[u].flags
            /\ r.cur = item[u].cur /\ r.type = item[u].type /\ r.handle = item[u].handle
        BY <3>3, <4>2 DEF ItemsOf
      <4> HIDE DEF r
      <4>4. ItemsTyped' /\ item'[u] = r /\ \A w \in Videos : w # u => item'[w] = item[w]
        BY <3>3, <4>1, <4>3, OneItem
      <4> QED BY <4>3, <4>4 DEF n
    <3> QED BY <3>1, <3>4
  <2>2. HandlesTyped'
    <3>1. pairs' = pairs
      BY <1>1
    <3>2. \A w \in Videos : item'[w].handle = item[w].handle
      BY <2>1
    <3>3. HandlesTyped
      BY DEF TInv
    <3> HIDE DEF v
    <3> QED BY <3>1, <3>2, <3>3 DEF HandlesTyped
  <2>3. TInv'
    BY <1>3, <1>6, <2>1, <2>2 DEF TInv
  <2> QED BY <1>1, <1>2, <1>6, <1>a, <2>1, <2>3
<1>7. CASE v \in listed /\ Deleted(v)
  <2>1. /\ ItemsTyped' /\ item'[v] = Fresh(v) /\ HandlesTyped'
        /\ \A w \in Videos : w # v => item'[w] = item[w]
        /\ listed' = listed \ {v}
    BY <1>1, <1>2, <1>7, DeletedDoes
  <2>2. TInv'
    BY <1>3, <2>1 DEF TInv
  <2> QED BY <1>1, <1>2, <1>7, <1>a, <2>1, <2>2
<1> QED BY <1>4, <1>5, <1>6, <1>7

LEMMA FinishedDoes ==
    ASSUME TInv, OnItemFinished
    PROVE  /\ TInv' /\ UNCHANGED <<listed, item, active, queue, retry, pairs, world>>
           /\ calls = <<>> /\ Range(alerts') \subseteq Range(alerts)
           /\ \/ calls' = <<>>
              \/ \E a \in Range(alerts) :
                    /\ a.v \in listed /\ a.k \in Clips(a.v) /\ a.hr \in Answers
                    /\ calls' = <<Complete(a.v, a.k, a.hr)>>
<1> DEFINE a == TopAlert
           c == Complete(a.v, a.k, a.hr)
<1>1. /\ UNCHANGED <<listed, item, active, queue, allPaused, retry, pairs, world>>
      /\ \E code : Taken(code)
      /\ calls' = <<>> \/ (a.v \in listed /\ calls' = <<c>>)
  BY DEF OnItemFinished, Known
<1>2. /\ calls = <<>> /\ a \in Range(alerts) /\ a.v \in Videos /\ a.k \in Clips(a.v)
      /\ a.hr \in Answers /\ alerts' \in Seq(AlertSet) /\ Len(alerts') <= MaxAlerts
      /\ Range(alerts') \subseteq Range(alerts)
  BY <1>1, TakenIs
<1>3. <<c>> \in Seq(CallSet) /\ <<>> \in Seq(CallSet)
  <2>1. c \in CallSet
    BY <1>2, CallsTyped
  <2> QED BY <2>1, OneEntry, EmptySeq
<1>4. TInv'
  BY <1>1, <1>2, <1>3 DEF TInv, ItemsTyped, HandlesTyped
<1> QED BY <1>1, <1>2, <1>4

LEMMA TorrentFoundDoes ==
    ASSUME TInv, OnTorrentFound
    PROVE  /\ TInv' /\ UNCHANGED <<listed, active, queue, retry, pairs, world>>
           /\ calls = <<>> /\ Range(alerts') \subseteq Range(alerts)
           /\ \/ UNCHANGED <<item, calls>>
              \/ \E a \in Range(alerts) :
                    LET v == a.v IN
                    /\ v \in listed /\ a.k \in Clips(v)
                    /\ \A w \in Videos : w # v => item'[w] = item[w]
                    /\ item'[v].flags = item[v].flags \ {"FINISHED"}
                    /\ item'[v].clips = item[v].clips
                    /\ item'[v].type[1] \in {item[v].type[1], "torrent"}
                    /\ calls' = <<CallClip("QueueDownloadItem", v, a.k),
                                  Call("CountTorrentFound", v)>>
<1> DEFINE a == TopAlert
           v == a.v
           k == a.k
           c == CallClip("QueueDownloadItem", v, k)
           d == Call("CountTorrentFound", v)
<1>1. /\ UNCHANGED <<listed, active, queue, allPaused, retry, pairs, world>>
      /\ \E code : Taken(code)
      /\ \/ item' = item /\ calls' = calls
         \/ /\ v \in listed
            /\ item' = [item EXCEPT ![v].cur = k - 1, ![v].type[k] = "torrent",
                                    ![v].timed = @ \ {k}, ![v].flags = @ \ {"FINISHED"}]
            /\ calls' = <<c, d>>
  BY DEF OnTorrentFound, Known
<1>2. /\ calls = <<>> /\ a \in Range(alerts) /\ v \in Videos /\ k \in Clips(v)
      /\ alerts' \in Seq(AlertSet) /\ Len(alerts') <= MaxAlerts
      /\ Range(alerts') \subseteq Range(alerts)
  BY <1>1, TakenIs
<1> HIDE DEF a
<1>3. CASE item' = item /\ calls' = calls
  BY <1>1, <1>2, <1>3 DEF TInv, ItemsTyped, HandlesTyped
<1>4. CASE /\ v \in listed
           /\ item' = [item EXCEPT ![v].cur = k - 1, ![v].type[k] = "torrent",
                                   ![v].timed = @ \ {k}, ![v].flags = @ \ {"FINISHED"}]
           /\ calls' = <<c, d>>
  <2> DEFINE g == item[v]
             t == [g.type EXCEPT ![k] = "torrent"]
             b == g.timed \ {k}
             f == g.flags \ {"FINISHED"}
             n == k - 1
             r == [g EXCEPT !.cur = n, !.type = t, !.timed = b, !.flags = f]
  <2>1. /\ g \in ItemsOf(v) /\ t \in [Clips(v) -> Types] /\ n \in 0..ClipCount[v]
        /\ b \in SUBSET Clips(v) /\ f \in SUBSET Flags
    <3>1. g \in ItemsOf(v) /\ ClipCount[v] \in Nat /\ k \in 1..ClipCount[v]
      BY <1>2, Settings DEF TInv, ItemsTyped, Clips
    <3> QED BY <1>2, <3>1 DEF ItemsOf, Types
  <2>2. item' = [item EXCEPT ![v] = r]
    BY <1>4, Zenon
  <2>t. t[1] \in {g.type[1], "torrent"}
    BY <1>2, <2>1, Settings DEF ItemsOf
  <2> HIDE DEF g, t, b, f, n
  <2>3. /\ r \in ItemsOf(v) /\ r.flags = f /\ r.clips = g.clips /\ r.handle = g.handle
        /\ r.type = t
    BY <2>1 DEF ItemsOf
  <2> HIDE DEF r
  <2>4. ItemsTyped' /\ item'[v] = r /\ \A w \in Videos : w # v => item'[w] = item[w]
    BY <1>2, <2>2, <2>3, OneItem DEF TInv
  <2>5. HandlesTyped'
    <3>1. \A w \in Videos : item'[w].handle = item[w].handle
      BY <1>2, <2>3, <2>4 DEF g
    <3> QED BY <1>1, <3>1, HandlesStay, PairsUntouched
  <2>6. calls' \in Seq(CallSet)
    <3>1. c \in CallSet /\ d \in CallSet
      BY <1>2, CallsTyped DEF OfClip, OfVideo
    <3> QED BY <1>4, <3>1, TwoEntries
  <2>7. TInv'
    BY <1>1, <1>2, <2>4, <2>5, <2>6 DEF TInv
  <2> QED BY <1>1, <1>2, <1>4, <2>t, <2>3, <2>4, <2>7 DEF f, g
<1> QED BY <1>1, <1>3, <1>4

LEMMA ScheduledDoes ==
    ASSUME TInv, OnScheduledEvent
    PROVE  /\ TInv' /\ UNCHANGED <<listed, item, active, queue, retry, pairs, world>>
           /\ calls = <<>> /\ Range(alerts') \subseteq Range(alerts)
           /\ \/ calls' = <<>>
              \/ \E a \in Range(alerts) :
                    a.v \in listed /\ calls' = <<CallClip("QueueDownloadItem", a.v, 1)>>
<1> DEFINE a == TopAlert
           c == CallClip("QueueDownloadItem", a.v, 1)
<1>1. /\ UNCHANGED <<listed, item, active, queue, allPaused, retry, pairs, world>>
      /\ \E code : Taken(code)
      /\ calls' = <<>> \/ (a.v \in listed /\ calls' = <<c>>)
  BY DEF OnScheduledEvent
<1>2. /\ calls = <<>> /\ a \in Range(alerts) /\ a.v \in Videos
      /\ alerts' \in Seq(AlertSet) /\ Len(alerts') <= MaxAlerts
      /\ Range(alerts') \subseteq Range(alerts)
  BY <1>1, TakenIs
<1>3. <<c>> \in Seq(CallSet) /\ <<>> \in Seq(CallSet)
  <2>1. c \in CallSet
    BY <1>2, CallsTyped, Settings DEF OfClip
  <2> QED BY <2>1, OneEntry, EmptySeq
<1>4. TInv'
  BY <1>1, <1>2, <1>3 DEF TInv, ItemsTyped, HandlesTyped
<1> QED BY <1>1, <1>2, <1>4

(* The schedule thread and the clip downloader only push alerts.             *)
LEMMA OneAlert ==
    ASSUME TInv, NEW a \in AlertSet, alerts' = Push(alerts, <<a>>)
    PROVE  /\ alerts' \in Seq(AlertSet) /\ Len(alerts') <= MaxAlerts
           /\ Range(alerts') \subseteq Range(alerts) \cup {a}
<1> DEFINE n == <<a>>
<1>1. n \in Seq(AlertSet) /\ Range(n) = {a}
  BY OneEntry
<1> HIDE DEF n
<1>2. alerts' = Push(alerts, n)
  BY DEF n
<1> QED BY <1>1, <1>2, Pushed DEF TInv

LEMMA ScheduleDoes ==
    ASSUME TInv, NEW v \in Videos, ProcessSchedule(v)
    PROVE  /\ TInv' /\ UNCHANGED <<listed, item, active, queue, calls, pairs, world>>
           /\ retry[v] > 0 /\ \A w \in Videos : w # v => retry'[w] = retry[w]
           /\ \A a \in Range(alerts') :
                 a \in Range(alerts) \/ (a.v = v /\ a.code = "SCHEDULED" /\ a.hr = "S_OK")
<1> DEFINE a == [code |-> "SCHEDULED", v |-> v, k |-> 1, hr |-> "S_OK"]
<1>1. /\ UNCHANGED <<listed, item, active, queue, allPaused, calls, pairs, world>>
      /\ retry[v] > 0 /\ retry' = [retry EXCEPT ![v] = @ - 1]
      /\ alerts' = Push(alerts, <<a>>)
  BY DEF ProcessSchedule
<1>2. a \in AlertSet
  BY Settings DEF AlertSet, Codes, Answers
<1>3. a.v = v /\ a.code = "SCHEDULED" /\ a.hr = "S_OK"
  OBVIOUS
<1> HIDE DEF a
<1>4. /\ alerts' \in Seq(AlertSet) /\ Len(alerts') <= MaxAlerts
      /\ Range(alerts') \subseteq Range(alerts) \cup {a}
  BY <1>1, <1>2, OneAlert
<1>5. retry' \in [Videos -> Nat] /\ \A w \in Videos : w # v => retry'[w] = retry[w]
  BY <1>1 DEF TInv
<1>6. TInv'
  BY <1>1, <1>4, <1>5 DEF TInv, ItemsTyped, HandlesTyped
<1> QED BY <1>1, <1>3, <1>4, <1>5, <1>6

(* A transfer that ends, fails or is taken out.                              *)
TransferStep(h) == Transfer(h) \/ HttpFailed(h) \/ HttpAborted(h) \/ TorrentRotated(h)

LEMMA TransferDoes ==
    ASSUME TInv, NEW h \in DOMAIN pairs, TransferStep(h)
    PROVE  /\ TInv' /\ SamePairs
           /\ UNCHANGED <<listed, item, active, queue, calls, retry, world>>
           /\ \A a \in Range(alerts') :
                 \/ a \in Range(alerts)
                 \/ /\ a.v = pairs[h].v
                    /\ a.code = "REMOVED" => May("rotate")
                    /\ a.hr = "E_ABORT" => May("abort")
<1> DEFINE A(code, hr) == [code |-> code, v |-> pairs[h].v, k |-> pairs[h].k, hr |-> hr]
<1>1. pairs[h] \in PairSet /\ pairs \in Seq(PairSet) /\ h \in 1..Len(pairs)
  BY SeqEntries, ElementOfSeq DEF TInv
<1>2. /\ UNCHANGED <<listed, item, active, queue, allPaused, calls, retry, world>>
      /\ \E from, to \in States : Moves(h, from, to)
      /\ \/ alerts' = alerts
         \/ \E code \in Codes, hr \in Answers :
               /\ Alert(code, h, hr)
               /\ code = "REMOVED" => May("rotate")
               /\ hr = "E_ABORT" => May("abort")
  <2>1. CASE HttpDone(h)
    BY <2>1 DEF HttpDone, States, Codes, Answers
  <2>2. CASE ContentType(h)
    BY <2>2 DEF ContentType, States, Codes, Answers
  <2>3. CASE TorrentFinished(h)
    BY <2>3 DEF TorrentFinished, States, Codes, Answers
  <2>4. CASE HttpFailed(h)
    <3>1. PICK hr \in {"E_HTTP_NET_ERROR"} \cup
                        (IF May("gone") THEN {"E_HTTP_NOTFOUND"} ELSE {}) :
             Alert("FINISHED", h, hr)
      BY <2>4 DEF HttpFailed
    <3>2. hr \in Answers /\ hr # "E_ABORT"
      BY <3>1 DEF Answers, Failures
    <3> QED BY <2>4, <3>1, <3>2 DEF HttpFailed, States, Codes
  <2>5. CASE HttpAborted(h)
    BY <2>5 DEF HttpAborted, States, Codes, Answers
  <2>6. CASE TorrentRotated(h)
    BY <2>6 DEF TorrentRotated, States, Codes, Answers
  <2> QED BY <2>1, <2>2, <2>3, <2>4, <2>5, <2>6 DEF TransferStep, Transfer
<1>3. SamePairs
  BY <1>1, <1>2, MovedPair
<1>4. /\ alerts' \in Seq(AlertSet) /\ Len(alerts') <= MaxAlerts
      /\ \A a \in Range(alerts') :
            \/ a \in Range(alerts)
            \/ /\ a.v = pairs[h].v
               /\ a.code = "REMOVED" => May("rotate")
               /\ a.hr = "E_ABORT" => May("abort")
  <2>1. CASE alerts' = alerts
    BY <2>1 DEF TInv
  <2>2. ASSUME NEW code \in Codes, NEW hr \in Answers, Alert(code, h, hr),
               code = "REMOVED" => May("rotate"), hr = "E_ABORT" => May("abort")
        PROVE  /\ alerts' \in Seq(AlertSet) /\ Len(alerts') <= MaxAlerts
               /\ \A a \in Range(alerts') :
                     \/ a \in Range(alerts)
                     \/ /\ a.v = pairs[h].v
                        /\ a.code = "REMOVED" => May("rotate")
                        /\ a.hr = "E_ABORT" => May("abort")
    <3> DEFINE a == A(code, hr)
    <3>1. a \in AlertSet
      BY <1>1 DEF AlertSet, PairSet
    <3>2. alerts' = Push(alerts, <<a>>)
      BY <2>2 DEF Alert
    <3>3. a.v = pairs[h].v /\ a.code = code /\ a.hr = hr
      OBVIOUS
    <3> HIDE DEF a
    <3>4. /\ alerts' \in Seq(AlertSet) /\ Len(alerts') <= MaxAlerts
          /\ Range(alerts') \subseteq Range(alerts) \cup {a}
      BY <3>1, <3>2, OneAlert
    <3> QED BY <2>2, <3>3, <3>4
  <2>3. \/ alerts' = alerts
        \/ \E code \in Codes, hr \in Answers :
              /\ Alert(code, h, hr)
              /\ code = "REMOVED" => May("rotate")
              /\ hr = "E_ABORT" => May("abort")
    BY <1>2
  <2> QED BY <2>1, <2>2, <2>3, Zenon
<1>5. HandlesTyped' /\ ItemsTyped'
  BY <1>2, <1>3 DEF TInv, HandlesTyped, ItemsTyped, SamePairs
<1>6. TInv'
  BY <1>2, <1>3, <1>4, <1>5 DEF TInv, SamePairs
<1> QED BY <1>2, <1>3, <1>4, <1>6

LEMMA TInit == Init => TInv
<1> SUFFICES ASSUME Init PROVE TInv
  OBVIOUS
<1>1. ItemsTyped /\ HandlesTyped
  <2>1. /\ item = [v \in Videos |-> item[v]] /\ \A v \in Videos : item[v] = Fresh(v)
    BY DEF Init
  <2>4. ASSUME NEW v \in Videos, NEW k \in Clips(v) PROVE item[v].handle[k] = 0
    BY <2>1, FreshTyped
  <2> QED BY <2>1, <2>4, FreshTyped DEF ItemsTyped, HandlesTyped
<1>2. /\ listed \in SUBSET Videos /\ active \in Int /\ allPaused \in BOOLEAN
      /\ retry \in [Videos -> Nat] /\ world \in Worlds
  BY DEF Init
<1>3. /\ queue \in Seq(Videos) /\ calls \in Seq(CallSet) /\ pairs \in Seq(PairSet)
      /\ alerts \in Seq(AlertSet) /\ Len(alerts) <= MaxAlerts
  BY EmptySeq, Settings DEF Init
<1> QED BY <1>1, <1>2, <1>3 DEF TInv

LEMMA TStep == TInv /\ [Next]_vars => TInv'
<1> SUFFICES ASSUME TInv, [Next]_vars PROVE TInv'
  OBVIOUS
<1>1. ASSUME NEW v \in Videos, Body(v) PROVE TInv'
  BY <1>1, QueueDownloadDoes, QueueNextDoes, QueueItemDoes, AddClipDoes, ItemCompleteDoes,
     CompleteDoes, EraseDoes, CountDoes, ResumeDoes DEF Body
<1>2. ASSUME NEW v \in Videos, User(v) PROVE TInv'
  BY <1>2, AddDoes, StartDoes, RemoveDoes, PauseDoes, ResumeCallsDo DEF User
<1>3. ASSUME NEW v \in Videos, ProcessSchedule(v) PROVE TInv'
  BY <1>3, ScheduleDoes
<1>4. CASE PauseAll
  BY <1>4, PauseAllDoes
<1>5. CASE ResumeAll
  BY <1>5, ResumeCallsDo
<1>6. CASE Notify
  BY <1>6, ItemRemovedDoes, FinishedDoes, TorrentFoundDoes, ScheduledDoes DEF Notify
<1>7. ASSUME NEW h \in DOMAIN pairs, TransferStep(h) PROVE TInv'
  BY <1>7, TransferDoes
<1>8. CASE UNCHANGED vars
  BY <1>8 DEF vars, TInv, ItemsTyped, HandlesTyped
<1> QED BY <1>1, <1>2, <1>3, <1>4, <1>5, <1>6, <1>7, <1>8 DEF Next, TransferStep

LEMMA Typed == TInv => TypeOK
<1> SUFFICES ASSUME TInv PROVE TypeOK
  OBVIOUS
<1>1. ASSUME NEW v \in Videos
      PROVE  /\ item[v].flags \subseteq Flags
             /\ item[v].cur \in 0..ClipCount[v]
             /\ item[v].clips \in Int
             /\ item[v].error \in BOOLEAN
             /\ item[v].completed \cup item[v].timed \cup item[v].missing \subseteq Clips(v)
             /\ item[v].handle \in [Clips(v) -> 0..Len(pairs)]
  <2>1. item[v] \in ItemsOf(v) /\ Len(pairs) \in Nat
    BY SeqEntries DEF TInv, ItemsTyped
  <2>2. item[v].handle \in [Clips(v) -> Nat]
        /\ \A k \in Clips(v) : item[v].handle[k] \in 0..Len(pairs)
    BY <2>1 DEF ItemsOf, TInv, HandlesTyped
  <2>3. item[v].handle \in [Clips(v) -> 0..Len(pairs)]
    BY <2>1, <2>2
  <2> QED BY <2>1, <2>3 DEF ItemsOf
<1>2. alerts \in Seq([code : {"FINISHED", "REMOVED", "TORRENT", "SCHEDULED"},
                      v : Videos, k : Nat, hr : {"S_OK", "E_ABORT"} \cup Failures])
  <2> DEFINE S == [code : Codes, v : Videos, k : Nat, hr : Answers]
  <2>1. alerts \in Seq(AlertSet) /\ AlertSet \subseteq S
    BY DEF TInv, AlertSet
  <2>2. alerts \in Seq(S)
    <3> HIDE DEF S
    <3> QED BY <2>1, WiderSeq
  <2> QED BY <2>2 DEF Codes, Answers
<1>3. \A h \in DOMAIN pairs :
         pairs[h].at \in {"http", "torrent", "typing", "seeding", "idle", "gone"}
  BY SeqEntries, ElementOfSeq DEF TInv, PairSet, States
<1> QED BY <1>1, <1>2, <1>3 DEF TypeOK, TInv

(* Every variable keeps its type, whatever is called and whatever fails: a   *)
(* handle is of a pair there is, the clip that plays is a clip of its        *)
(* download, and m_Alerts never holds more than it has room for.             *)
THEOREM TypeCorrect == Spec => []TypeOK
<1>1. Spec => []TInv
  BY TInit, TStep, PTL DEF Spec
<1> QED BY <1>1, Typed, PTL

-----------------------------------------------------------------------------
(* What the manager hears of a video stems from a pair the clip downloader   *)
(* got for it.  Pairs stay in the list, so the trace does too.               *)
Traced(v) == \E h \in DOMAIN pairs : pairs[h].v = v

Traces ==
    /\ \A a \in Range(alerts) : Traced(a.v)
    /\ \A v \in Videos : retry[v] > 0 => Traced(v)
    /\ \A c \in Range(calls) : c.hr \notin {"S_OK", "E_FAIL"} => Traced(c.v)

LEMMA TracedSame ==
    ASSUME TInv, SamePairs, NEW v PROVE Traced(v)' <=> Traced(v)
<1>1. DOMAIN pairs = 1..Len(pairs) /\ DOMAIN pairs' = 1..Len(pairs)
  BY SeqEntries DEF TInv, SamePairs
<1> QED BY <1>1 DEF Traced, SamePairs

LEMMA TracedGrows ==
    ASSUME TInv, NEW p \in PairSet, pairs' = Append(pairs, p), NEW v
    PROVE  Traced(v)' <=> Traced(v) \/ v = p.v
<1> DEFINE n == Len(pairs)
<1>1. /\ n \in Nat /\ DOMAIN pairs = 1..n /\ DOMAIN pairs' = 1..n + 1
      /\ \A h \in 1..n : pairs'[h] = pairs[h]
      /\ pairs'[n + 1] = p
  <2>1. /\ Append(pairs, p) \in Seq(PairSet) /\ Len(Append(pairs, p)) = n + 1
        /\ \A h \in 1..n : Append(pairs, p)[h] = pairs[h]
        /\ Append(pairs, p)[n + 1] = p
    BY AppendProperties DEF TInv
  <2> QED BY <2>1, SeqEntries DEF TInv
<1> HIDE DEF n
<1>2. \A h : h \in 1..n + 1 <=> h \in 1..n \/ h = n + 1
  BY <1>1
<1>3. Traced(v) <=> \E h \in 1..n : pairs[h].v = v
  BY <1>1 DEF Traced
<1>4. Traced(v)' <=> \E h \in 1..n + 1 : pairs'[h].v = v
  BY <1>1 DEF Traced
<1> QED BY <1>1, <1>2, <1>3, <1>4

(* A download with a handle that is still in use has a pair.                 *)
LEMMA LiveTraced ==
    ASSUME TInv, NEW v \in Videos, LivePairs(v) # {} PROVE Traced(v)
<1>1. PICK k \in Clips(v) : item[v].handle[k] # 0
  BY DEF LivePairs, HandlesOf
<1>2. item[v].handle[k] \in 1..Len(pairs) /\ pairs[item[v].handle[k]].v = v
  BY <1>1 DEF TInv, HandlesTyped
<1> QED BY <1>2, SeqEntries DEF Traced, TInv

(* A video that is not, or soon will not be, in the collection.              *)
Gone(v) == v \notin listed \/ Is(v, "DELETED")

(* The steps of the thread inside m_Sync, seen from the other threads.       *)
BodySeen ==
    /\ alerts' = alerts /\ world' = world
    /\ calls # <<>> /\ Head(calls) \in Range(calls) /\ Behind(calls) \subseteq Range(calls)
    /\ Behind(calls) \subseteq Range(calls')
    /\ \A c \in Range(calls') :
          \/ c \in Behind(calls)
          \/ c.hr \in {"S_OK", "E_FAIL"} /\ c.do \notin {"EraseDownload", "Resume"}
    /\ \A v \in Videos : Traced(v) => Traced(v)'
    /\ \A v \in Videos :
          \/ retry'[v] = retry[v]
          \/ v = Head(calls).v /\ Head(calls).hr \notin {"S_OK", "E_FAIL"}
    /\ \A v \in Videos : Gone(v) => Gone(v)'

(* The calls a body ends with.                                               *)
NewCall(c) == c.hr \in {"S_OK", "E_FAIL"} /\ c.do \notin {"EraseDownload", "Resume"}

LEMMA CallFields ==
    /\ \A f, v : Call(f, v).do = f /\ Call(f, v).v = v /\ Call(f, v).hr = "S_OK"
    /\ \A f, v, k : CallClip(f, v, k).do = f /\ CallClip(f, v, k).v = v
                    /\ CallClip(f, v, k).hr = "S_OK"
    /\ \A v, k, hr : Complete(v, k, hr).do = "OnItemComplete" /\ Complete(v, k, hr).v = v
                     /\ Complete(v, k, hr).hr = hr
BY DEF Call, CallClip, Complete

LEMMA CallsSeen ==
    ASSUME TInv, NEW f, NEW v \in Videos, Doing(f, v),
           \/ Then(<<>>)
           \/ \E c \in CallSet : Then(<<c>>) /\ NewCall(c)
           \/ \E c, d \in CallSet : Then(<<c, d>>) /\ NewCall(c) /\ NewCall(d)
    PROVE  /\ calls # <<>> /\ Head(calls) \in Range(calls) /\ Behind(calls) \subseteq Range(calls)
           /\ Behind(calls) \subseteq Range(calls')
           /\ \A c \in Range(calls') : c \in Behind(calls) \/ NewCall(c)
<1>1. /\ calls # <<>> /\ calls \in Seq(CallSet)
      /\ Head(calls) \in Range(calls) /\ Behind(calls) \subseteq Range(calls)
  BY DoingIs
<1>2. CASE Then(<<>>)
  BY <1>1, <1>2, ThenNothing
<1>3. ASSUME NEW c \in CallSet, Then(<<c>>), NewCall(c)
      PROVE  /\ Behind(calls) \subseteq Range(calls')
             /\ \A e \in Range(calls') : e \in Behind(calls) \/ NewCall(e)
  BY <1>1, <1>3, ThenCall
<1>4. ASSUME NEW c \in CallSet, NEW d \in CallSet, Then(<<c, d>>), NewCall(c), NewCall(d)
      PROVE  /\ Behind(calls) \subseteq Range(calls')
             /\ \A e \in Range(calls') : e \in Behind(calls) \/ NewCall(e)
  BY <1>1, <1>4, ThenTwoCalls
<1> QED BY <1>1, <1>2, <1>3, <1>4

LEMMA BodyIsSeen ==
    ASSUME TInv, NEW v \in Videos, Body(v) PROVE BodySeen
<1> DEFINE CallsOK ==
              /\ calls # <<>> /\ Head(calls) \in Range(calls)
              /\ Behind(calls) \subseteq Range(calls)
              /\ Behind(calls) \subseteq Range(calls')
              /\ \A c \in Range(calls') : c \in Behind(calls) \/ NewCall(c)
           TracesOK == \A w \in Videos : Traced(w) => Traced(w)'
           RetryOK == \A w \in Videos :
                         \/ retry'[w] = retry[w]
                         \/ w = Head(calls).v /\ Head(calls).hr \notin {"S_OK", "E_FAIL"}
           GoneOK == \A w \in Videos : Gone(w) => Gone(w)'
<1>1. ASSUME alerts' = alerts, world' = world, CallsOK, TracesOK, RetryOK, GoneOK
      PROVE  BodySeen
  BY <1>1 DEF BodySeen, NewCall
<1>2. SamePairs => TracesOK
  BY TracedSame
<1>3. pairs' = pairs => TracesOK
  BY DEF Traced
<1>4. retry' = retry => RetryOK
  OBVIOUS
<1>5. ASSUME listed' = listed,
             \A w \in Videos : item[w].flags \subseteq
                item'[w].flags \cup {"QUEUED", "FORCE", "PAUSED", "FINISHED", "ACTIVE"}
      PROVE  GoneOK
  BY <1>5 DEF Gone, Is
<1>6. CASE QueueDownload(v)
  <2> DEFINE goon == Call("QueueNextDownloadItem", v)
  <2>1. goon \in CallSet /\ NewCall(goon)
    BY CallsTyped, CallFields DEF OfVideo, NewCall
  <2>2. Doing("QueueDownload", v) /\ (Then(<<>>) \/ Then(<<goon>>))
    BY <1>6, QueueDownloadDoes DEF QueueDownload
  <2>3. CallsOK
    BY <2>1, <2>2, CallsSeen
  <2>4. GoneOK
    BY <1>5, <1>6, QueueDownloadDoes DEF Reflagged
  <2> QED BY <1>1, <1>3, <1>4, <1>6, <2>3, <2>4, QueueDownloadDoes
<1>7. CASE QueueNextDownloadItem(v)
  <2>1. Doing("QueueNextDownloadItem", v)
    BY <1>7 DEF QueueNextDownloadItem
  <2>2. CallsOK
    <3>1. CASE Then(<<>>)
      BY <2>1, <3>1, CallsSeen
    <3>2. CASE /\ item[v].cur + 1 \in Clips(v)
               /\ Then(<<CallClip("QueueDownloadItem", v, item[v].cur + 1)>>)
      <4> DEFINE c == CallClip("QueueDownloadItem", v, item[v].cur + 1)
      <4>1. c \in CallSet /\ NewCall(c)
        BY <3>2, CallsTyped, CallFields DEF OfClip, NewCall
      <4> HIDE DEF c
      <4> QED BY <2>1, <3>2, <4>1, CallsSeen DEF c
    <3> QED BY <1>7, <3>1, <3>2, QueueNextDoes
  <2>3. GoneOK
    BY <1>5, <1>7, QueueNextDoes
  <2> QED BY <1>1, <1>3, <1>4, <1>7, <2>2, <2>3, QueueNextDoes
<1>8. CASE QueueDownloadItem(v)
  <2>1. Doing("QueueDownloadItem", v)
    BY <1>8 DEF QueueDownloadItem
  <2>2. CallsOK
    <3>1. PICK k \in Clips(v) :
             \/ Then(<<Complete(v, k, "S_OK")>>)
             \/ Then(<<CallClip("AddClip", v, k)>>)
             \/ Then(<<Complete(v, k, "S_OK"), CallClip("AddClip", v, k)>>)
      BY <1>8, QueueItemDoes
    <3> DEFINE done == Complete(v, k, "S_OK")
               add  == CallClip("AddClip", v, k)
    <3>2. done \in CallSet /\ add \in CallSet /\ NewCall(done) /\ NewCall(add)
      BY CallsTyped, CallFields DEF OfClip, Answers, NewCall
    <3> HIDE DEF done, add
    <3>3. Then(<<done>>) \/ Then(<<add>>) \/ Then(<<done, add>>)
      BY <3>1 DEF done, add
    <3> QED BY <2>1, <3>2, <3>3, CallsSeen
  <2>3. GoneOK
    BY <1>5, <1>8, QueueItemDoes
  <2> QED BY <1>1, <1>3, <1>4, <1>8, <2>2, <2>3, QueueItemDoes
<1>9. CASE AddClip(v)
  <2>1. Doing("AddClip", v)
    BY <1>9 DEF AddClip
  <2>2. CallsOK
    <3>1. CASE Then(<<>>)
      BY <2>1, <3>1, CallsSeen
    <3>2. ASSUME NEW k \in Clips(v), NEW hr \in {"S_OK", "E_FAIL"}, Then(<<Complete(v, k, hr)>>)
          PROVE  CallsOK
      <4> DEFINE c == Complete(v, k, hr)
      <4>1. c \in CallSet /\ NewCall(c)
        BY CallsTyped, CallFields DEF Answers, Failures, NewCall
      <4> HIDE DEF c
      <4> QED BY <2>1, <3>2, <4>1, CallsSeen DEF c
    <3> QED BY <1>9, <3>1, <3>2, AddClipDoes
  <2>3. TracesOK
    BY <1>3, <1>9, AddClipDoes, TracedGrows
  <2>4. GoneOK
    BY <1>5, <1>9, AddClipDoes
  <2> QED BY <1>1, <1>4, <1>9, <2>2, <2>3, <2>4, AddClipDoes
<1>10. CASE OnItemComplete(v)
  <2> DEFINE goon == Call("QueueNextDownloadItem", v)
             end  == Call("OnDownloadComplete", v)
  <2>1. goon \in CallSet /\ NewCall(goon) /\ end \in CallSet /\ NewCall(end)
    BY CallsTyped, CallFields DEF OfVideo, NewCall
  <2>2. Doing("OnItemComplete", v) /\ (Then(<<>>) \/ Then(<<goon>>) \/ Then(<<end>>))
    BY <1>10, ItemCompleteDoes DEF OnItemComplete
  <2>3. CallsOK
    BY <2>1, <2>2, CallsSeen
  <2>4. GoneOK
    BY <1>5, <1>10, ItemCompleteDoes
  <2>5. RetryOK
    BY <1>10, <2>2, ItemCompleteDoes DEF Doing
  <2> QED BY <1>1, <1>3, <1>10, <2>3, <2>4, <2>5, ItemCompleteDoes
<1>11. CASE OnDownloadComplete(v)
  <2>1. Doing("OnDownloadComplete", v)
    BY <1>11 DEF OnDownloadComplete
  <2>2. CallsOK
    <3>1. CASE Then(<<>>)
      BY <2>1, <3>1, CallsSeen
    <3>2. CASE queue # <<>> /\ Then(<<Call("QueueDownload", Head(queue))>>)
      <4> DEFINE c == Call("QueueDownload", Head(queue))
      <4>1. Head(queue) \in Videos
        BY <3>2, HeadAndTail DEF TInv
      <4>2. c \in CallSet /\ NewCall(c)
        BY <4>1, CallsTyped, CallFields DEF OfVideo, NewCall
      <4> HIDE DEF c
      <4> QED BY <2>1, <3>2, <4>2, CallsSeen DEF c
    <3> QED BY <1>11, <3>1, <3>2, CompleteDoes
  <2>3. GoneOK
    BY <1>5, <1>11, CompleteDoes DEF Reflagged
  <2> QED BY <1>1, <1>3, <1>4, <1>11, <2>2, <2>3, CompleteDoes
<1>12. CASE EraseDownload(v)
  <2>1. Doing("EraseDownload", v)
    BY <1>12 DEF EraseDownload
  <2>2. CallsOK
    BY <1>12, <2>1, CallsSeen, EraseDoes
  <2>3. GoneOK
    BY <1>12, EraseDoes DEF Gone, Is
  <2> QED BY <1>1, <1>3, <1>4, <1>12, <2>2, <2>3, EraseDoes
<1>13. CASE CountTorrentFound(v)
  <2>1. Doing("CountTorrentFound", v)
    BY <1>13 DEF CountTorrentFound
  <2>2. CallsOK
    BY <1>13, <2>1, CallsSeen, CountDoes
  <2>3. GoneOK
    BY <1>13, CountDoes DEF Gone, Is
  <2> QED BY <1>1, <1>3, <1>4, <1>13, <2>2, <2>3, CountDoes
<1>14. CASE ResumeStep(v)
  <2> DEFINE goon == Call("QueueNextDownloadItem", v)
  <2>1. goon \in CallSet /\ NewCall(goon)
    BY CallsTyped, CallFields DEF OfVideo, NewCall
  <2>2. Doing("Resume", v) /\ (Then(<<>>) \/ Then(<<goon>>))
    BY <1>14, ResumeDoes DEF ResumeStep
  <2>3. CallsOK
    BY <2>1, <2>2, CallsSeen
  <2>4. GoneOK
    <3>1. /\ listed' = listed
          /\ \E F \in {item[v].flags, item[v].flags \ {"PAUSED"}} : Reflagged(v, F)
      BY <1>14, ResumeDoes
    <3>2. /\ item[v].flags \subseteq item'[v].flags \cup {"PAUSED"}
          /\ \A w \in Videos : w # v => item'[w] = item[w]
      BY <3>1 DEF Reflagged
    <3> QED BY <1>5, <3>1, <3>2
  <2> QED BY <1>1, <1>2, <1>4, <1>14, <2>3, <2>4, ResumeDoes
<1> QED BY <1>6, <1>7, <1>8, <1>9, <1>10, <1>11, <1>12, <1>13, <1>14 DEF Body

LEMMA TracesInit == Init => Traces
<1> SUFFICES ASSUME Init PROVE Traces
  OBVIOUS
<1>1. Range(alerts) = {} /\ Range(calls) = {} /\ \A v \in Videos : retry[v] = 0
  BY NoEntries DEF Init
<1> QED BY <1>1 DEF Traces

(* The steps outside the bodies: the world stays, and so do the pairs.       *)
LEMMA OtherSteps ==
    ASSUME TInv, [Next]_vars
    PROVE  \/ \E v \in Videos : Body(v)
           \/ /\ SamePairs /\ world' = world
              /\ \/ \E v \in Videos : User(v) \/ ProcessSchedule(v)
                 \/ PauseAll \/ ResumeAll \/ Notify
                 \/ \E h \in DOMAIN pairs : TransferStep(h)
                 \/ UNCHANGED vars
<1>1. ASSUME NEW v \in Videos, User(v) \/ ProcessSchedule(v)
      PROVE  SamePairs /\ world' = world
  BY <1>1, AddDoes, StartDoes, RemoveDoes, PauseDoes, ResumeCallsDo, ScheduleDoes,
     PairsUntouched DEF User
<1>2. PauseAll \/ ResumeAll => SamePairs /\ world' = world
  BY PauseAllDoes, ResumeCallsDo, PairsUntouched
<1>3. Notify => SamePairs /\ world' = world
  BY ItemRemovedDoes, FinishedDoes, TorrentFoundDoes, ScheduledDoes, PairsUntouched DEF Notify
<1>4. ASSUME NEW h \in DOMAIN pairs, TransferStep(h) PROVE SamePairs /\ world' = world
  BY <1>4, TransferDoes
<1>5. UNCHANGED vars => SamePairs /\ world' = world
  BY PairsUntouched DEF vars
<1> QED BY <1>1, <1>2, <1>3, <1>4, <1>5 DEF Next, TransferStep

LEMMA TracesStep == TInv /\ Traces /\ [Next]_vars => Traces'
<1> SUFFICES ASSUME TInv, Traces, [Next]_vars PROVE Traces'
  OBVIOUS
<1>1. ASSUME NEW v \in Videos, Body(v) PROVE Traces'
  <2>1. BodySeen /\ TInv'
    BY <1>1, BodyIsSeen, TStep
  <2>2. \A a \in Range(alerts') : Traced(a.v)'
    <3>1. \A a \in Range(alerts) : Traced(a.v) /\ a.v \in Videos
      BY SeqEntries DEF Traces, TInv, AlertSet
    <3> QED BY <2>1, <3>1 DEF BodySeen
  <2>3. \A w \in Videos : retry'[w] > 0 => Traced(w)'
    BY <2>1 DEF BodySeen, Traces
  <2>4. \A c \in Range(calls') : c.hr \notin {"S_OK", "E_FAIL"} => Traced(c.v)'
    <3>1. \A c \in Range(calls) : c.v \in Videos
      BY SeqEntries DEF TInv, CallSet
    <3> QED BY <2>1, <3>1 DEF BodySeen, Traces
  <2> QED BY <2>2, <2>3, <2>4 DEF Traces
<1>2. CASE /\ SamePairs /\ world' = world
           /\ \/ \E v \in Videos : User(v) \/ ProcessSchedule(v)
              \/ PauseAll \/ ResumeAll \/ Notify
              \/ \E h \in DOMAIN pairs : TransferStep(h)
              \/ UNCHANGED vars
  <2>0. \A w : Traced(w)' <=> Traced(w)
    BY <1>2, TracedSame
  <2>1. ASSUME \A a \in Range(alerts') : a \in Range(alerts) \/ Traced(a.v),
               \A w \in Videos : retry'[w] > 0 => Traced(w),
               \A c \in Range(calls') :
                  c.hr \in {"S_OK", "E_FAIL"} \/ c \in Range(calls) \/ Traced(c.v)
        PROVE  Traces'
    BY <2>0, <2>1 DEF Traces
  <2>2. retry' = retry => \A w \in Videos : retry'[w] > 0 => Traced(w)
    BY DEF Traces
  <2>3. /\ Range(<<>>) = {}
        /\ \A c \in CallSet : Range(<<c>>) = {c}
        /\ \A c, d \in CallSet : Range(<<c, d>>) = {c, d}
    BY NoEntries, OneEntry, TwoEntries
  <2>4. ASSUME NEW v \in Videos, User(v) PROVE Traces'
    <3>1. CASE AddDownload(v)
      <4> DEFINE c == Call("QueueDownload", v)
      <4>1. c \in CallSet /\ c.hr = "S_OK"
        BY CallsTyped, CallFields DEF OfVideo
      <4>2. calls' = <<c>> /\ UNCHANGED <<alerts, retry>>
        BY <3>1, AddDoes
      <4> HIDE DEF c
      <4>3. \A e \in Range(calls') : e.hr \in {"S_OK", "E_FAIL"}
        BY <2>3, <4>1, <4>2
      <4> QED BY <2>1, <2>2, <4>2, <4>3
    <3>2. CASE StartQueuedDownload(v)
      <4>1. Call("QueueDownload", v) \in CallSet /\ Call("QueueDownload", v).hr = "S_OK"
        BY CallsTyped, CallFields DEF OfVideo
      <4> QED BY <2>1, <2>2, <2>3, <3>2, <4>1, StartDoes
    <3>3. CASE RemoveDownload(v)
      <4>1. \A a \in Range(alerts') : a \in Range(alerts) \/ Traced(a.v)
        BY <3>3, RemoveDoes, LiveTraced
      <4>2. \A c \in Range(calls') : c.hr \in {"S_OK", "E_FAIL"}
        <5> DEFINE q == Call("QueueDownload", Head(Unqueued(v)))
                   e == Call("EraseDownload", v)
        <5>1. q.hr = "S_OK" /\ e.hr = "S_OK" /\ e \in CallSet
          BY CallFields, CallsTyped DEF OfVideo
        <5>2. Head(Unqueued(v)) \in Videos => q \in CallSet
          BY CallsTyped DEF OfVideo
        <5>3. \/ Head(Unqueued(v)) \in Videos /\ (calls' = <<q, e>> \/ calls' = <<q>>)
              \/ calls' = <<e>> \/ calls' = <<>>
          BY <3>3, RemoveDoes
        <5> HIDE DEF q, e
        <5> QED BY <2>3, <5>1, <5>2, <5>3
      <4> QED BY <2>1, <2>2, <3>3, <4>1, <4>2, RemoveDoes
    <3>4. CASE PauseDownload(v)
      BY <2>1, <2>2, <3>4, PauseDoes
    <3>5. CASE ResumeDownload(v)
      BY <2>1, <2>2, <3>5, ResumeCallsDo
    <3> QED BY <2>4, <3>1, <3>2, <3>3, <3>4, <3>5 DEF User
  <2>5. ASSUME NEW v \in Videos, ProcessSchedule(v) PROVE Traces'
    <3>1. Traced(v)
      BY <2>5, ScheduleDoes DEF Traces
    <3>2. \A w \in Videos : retry'[w] > 0 => Traced(w)
      BY <2>5, <3>1, ScheduleDoes DEF Traces
    <3> QED BY <2>1, <2>5, <3>1, <3>2, ScheduleDoes
  <2>6. CASE PauseAll
    BY <2>1, <2>2, <2>6, PauseAllDoes
  <2>7. CASE ResumeAll
    BY <2>1, <2>2, <2>7, ResumeCallsDo
  <2>8. CASE Notify
    <3>0. \A a \in Range(alerts) : Traced(a.v) /\ a.v \in Videos /\ a.hr \in Answers
      BY SeqEntries DEF Traces, TInv, AlertSet
    <3>1. CASE OnItemRemoved
      BY <2>1, <2>2, <3>1, ItemRemovedDoes
    <3>2. CASE OnItemFinished
      <4>1. ASSUME NEW a \in Range(alerts), a.k \in Clips(a.v),
                   calls' = <<Complete(a.v, a.k, a.hr)>>
            PROVE  \A c \in Range(calls') : Traced(c.v)
        <5> DEFINE c == Complete(a.v, a.k, a.hr)
        <5>1. c \in CallSet /\ c.v = a.v
          BY <3>0, <4>1, CallsTyped, CallFields
        <5> HIDE DEF c
        <5>2. Range(calls') = {c}
          BY <2>3, <4>1, <5>1 DEF c
        <5> QED BY <3>0, <5>1, <5>2
      <4> QED BY <2>1, <2>2, <2>3, <3>2, <4>1, FinishedDoes
    <3>3. CASE OnTorrentFound
      <4>1. ASSUME NEW a \in Range(alerts), a.k \in Clips(a.v),
                   calls' = <<CallClip("QueueDownloadItem", a.v, a.k),
                              Call("CountTorrentFound", a.v)>>
            PROVE  \A c \in Range(calls') : c.hr \in {"S_OK", "E_FAIL"}
        <5> DEFINE c == CallClip("QueueDownloadItem", a.v, a.k)
                   d == Call("CountTorrentFound", a.v)
        <5>1. c \in CallSet /\ c.hr = "S_OK" /\ d \in CallSet /\ d.hr = "S_OK"
          BY <3>0, <4>1, CallsTyped, CallFields DEF OfClip, OfVideo
        <5> HIDE DEF c, d
        <5>2. Range(calls') = {c, d}
          BY <2>3, <4>1, <5>1 DEF c, d
        <5> QED BY <5>1, <5>2
      <4> QED BY <2>1, <2>2, <3>3, <4>1, TorrentFoundDoes
    <3>4. CASE OnScheduledEvent
      <4>1. ASSUME NEW a \in Range(alerts), calls' = <<CallClip("QueueDownloadItem", a.v, 1)>>
            PROVE  \A c \in Range(calls') : c.hr \in {"S_OK", "E_FAIL"}
        <5> DEFINE c == CallClip("QueueDownloadItem", a.v, 1)
        <5>1. c \in CallSet /\ c.hr = "S_OK"
          BY <3>0, CallsTyped, CallFields, Settings DEF OfClip
        <5> HIDE DEF c
        <5>2. Range(calls') = {c}
          BY <2>3, <4>1, <5>1 DEF c
        <5> QED BY <5>1, <5>2
      <4> QED BY <2>1, <2>2, <2>3, <3>4, <4>1, ScheduledDoes
    <3> QED BY <2>8, <3>1, <3>2, <3>3, <3>4 DEF Notify
  <2>9. ASSUME NEW h \in DOMAIN pairs, TransferStep(h) PROVE Traces'
    <3>1. Traced(pairs[h].v)
      BY DEF Traced
    <3> QED BY <2>1, <2>2, <2>9, <3>1, TransferDoes
  <2>10. CASE UNCHANGED vars
    BY <2>1, <2>2, <2>10 DEF vars
  <2> QED BY <1>2, <2>4, <2>5, <2>6, <2>7, <2>8, <2>9, <2>10
<1> QED BY <1>1, <1>2, OtherSteps

(* Where no seeding torrent is taken out of the session, no pause reports    *)
(* E_ABORT and no video is added again: who is told that a clip was removed, *)
(* or erases a download, deals with one the user deleted.                    *)
Calm == Without({"rotate", "abort", "add-again"})

Kept ==
    /\ \A a \in Range(alerts) : a.code = "REMOVED" \/ a.hr = "E_ABORT" => Gone(a.v)
    /\ \A c \in Range(calls) : c.do = "EraseDownload" => Gone(c.v)

LEMMA KeptInit == Init => Kept
<1> SUFFICES ASSUME Init PROVE Kept
  OBVIOUS
<1>1. Range(alerts) = {} /\ Range(calls) = {}
  BY NoEntries DEF Init
<1> QED BY <1>1 DEF Kept

(* Nothing brings a deleted download back, as long as it has left a trace.   *)
LEMMA GoneStays ==
    ASSUME TInv, Calm, [Next]_vars, NEW v \in Videos, Gone(v), Traced(v)
    PROVE  Gone(v)'
<1>1. ~May("add-again")
  BY DEF Calm, Without, May
<1>2. ASSUME NEW w \in Videos, Body(w) PROVE Gone(v)'
  BY <1>2, BodyIsSeen DEF BodySeen
<1>3. ASSUME listed' = listed, item[v].flags \subseteq item'[v].flags \cup {"FINISHED"}
      PROVE  Gone(v)'
  BY <1>3 DEF Gone, Is
<1>4. ASSUME NEW w \in Videos, User(w) PROVE Gone(v)'
  <2>1. CASE AddDownload(w)
    <3>1. v # w
      BY <1>1, <2>1, AddDoes DEF Traced
    <3>2. item'[v] = item[v] /\ listed' = listed \cup {w}
      BY <2>1, <3>1, AddDoes
    <3> QED BY <3>1, <3>2 DEF Gone, Is
  <2>2. CASE StartQueuedDownload(w)
    <3>1. item[v].flags \subseteq item'[v].flags \cup {"FINISHED"}
      BY <2>2, StartDoes
    <3> QED BY <1>3, <2>2, <3>1, StartDoes
  <2>3. CASE RemoveDownload(w)
    <3>1. item[v].flags \subseteq item'[v].flags \cup {"FINISHED"}
      BY <2>3, RemoveDoes DEF Reflagged
    <3> QED BY <1>3, <2>3, <3>1, RemoveDoes
  <2>4. CASE PauseDownload(w)
    <3>1. item[v].flags \subseteq item'[v].flags \cup {"FINISHED"}
      BY <2>4, PauseDoes DEF Reflagged
    <3> QED BY <1>3, <2>4, <3>1, PauseDoes
  <2>5. CASE ResumeDownload(w)
    BY <1>3, <2>5, ResumeCallsDo
  <2> QED BY <1>4, <2>1, <2>2, <2>3, <2>4, <2>5 DEF User
<1>5. ASSUME NEW w \in Videos, ProcessSchedule(w) PROVE Gone(v)'
  BY <1>3, <1>5, ScheduleDoes
<1>6. CASE PauseAll
  BY <1>3, <1>6, PauseAllDoes
<1>7. CASE ResumeAll
  BY <1>3, <1>7, ResumeCallsDo
<1>8. CASE Notify
  <2>1. CASE OnItemRemoved
    BY <2>1, ItemRemovedDoes DEF Gone, Is
  <2>2. CASE OnItemFinished
    BY <1>3, <2>2, FinishedDoes
  <2>3. CASE OnTorrentFound
    <3>1. item[v].flags \subseteq item'[v].flags \cup {"FINISHED"}
      BY <2>3, TorrentFoundDoes
    <3> QED BY <1>3, <2>3, <3>1, TorrentFoundDoes
  <2>4. CASE OnScheduledEvent
    BY <1>3, <2>4, ScheduledDoes
  <2> QED BY <1>8, <2>1, <2>2, <2>3, <2>4 DEF Notify
<1>9. ASSUME NEW h \in DOMAIN pairs, TransferStep(h) PROVE Gone(v)'
  BY <1>3, <1>9, TransferDoes
<1>10. CASE UNCHANGED vars
  BY <1>3, <1>10 DEF vars
<1> QED BY <1>2, <1>4, <1>5, <1>6, <1>7, <1>8, <1>9, <1>10 DEF Next, TransferStep

LEMMA KeptStep == TInv /\ Traces /\ Kept /\ Calm /\ [Next]_vars => Kept' /\ Calm'
<1> SUFFICES ASSUME TInv, Traces, Kept, Calm, [Next]_vars PROVE Kept' /\ Calm'
  OBVIOUS
<1>0. /\ \A a \in Range(alerts) : a \in AlertSet /\ a.v \in Videos /\ Traced(a.v)
      /\ \A c \in Range(calls) : c \in CallSet /\ c.v \in Videos
  BY SeqEntries DEF TInv, Traces, AlertSet, CallSet
<1>1. \A a \in Range(alerts) : a.code = "REMOVED" \/ a.hr = "E_ABORT" => Gone(a.v)'
  BY <1>0, GoneStays DEF Kept
<1>2. ~May("rotate") /\ ~May("abort") /\ ~May("add-again")
  BY DEF Calm, Without, May
<1>3. ASSUME NEW v \in Videos, Body(v) PROVE Kept' /\ Calm'
  <2>1. BodySeen
    BY <1>3, BodyIsSeen
  <2>2. \A c \in Range(calls') : c.do = "EraseDownload" => Gone(c.v)'
    BY <1>0, <2>1 DEF BodySeen, Kept
  <2> QED BY <1>1, <2>1, <2>2 DEF BodySeen, Kept, Calm, Without
<1>4. CASE /\ SamePairs /\ world' = world
           /\ \/ \E v \in Videos : User(v) \/ ProcessSchedule(v)
              \/ PauseAll \/ ResumeAll \/ Notify
              \/ \E h \in DOMAIN pairs : TransferStep(h)
              \/ UNCHANGED vars
  <2>0. Calm'
    BY <1>4 DEF Calm, Without
  <2>1. ASSUME \A a \in Range(alerts') :
                  \/ a \in Range(alerts)
                  \/ Gone(a.v)'
                  \/ a.code # "REMOVED" /\ a.hr # "E_ABORT",
               \A c \in Range(calls') : c.do = "EraseDownload" => Gone(c.v)'
        PROVE  Kept'
    BY <1>1, <2>1 DEF Kept
  <2>a. ASSUME Range(alerts') \subseteq Range(alerts),
               \A c \in Range(calls') : c.do = "EraseDownload" => Gone(c.v)'
        PROVE  Kept'
    BY <2>1, <2>a
  <2>b. ASSUME \A c \in Range(calls') : c.do # "EraseDownload"
        PROVE  \A c \in Range(calls') : c.do = "EraseDownload" => Gone(c.v)'
    BY <2>b
  <2>2. /\ Range(<<>>) = {}
        /\ \A c \in CallSet : Range(<<c>>) = {c}
        /\ \A c, d \in CallSet : Range(<<c, d>>) = {c, d}
    BY NoEntries, OneEntry, TwoEntries
  <2>3. ASSUME calls = <<>>, calls' = calls
        PROVE  \A c \in Range(calls') : c.do = "EraseDownload" => Gone(c.v)'
    BY <2>2, <2>3
  <2>4. ASSUME NEW v \in Videos, User(v) PROVE Kept'
    <3>0. ASSUME calls' = <<Call("QueueDownload", v)>>
          PROVE  \A c \in Range(calls') : c.do # "EraseDownload"
      <4> DEFINE c == Call("QueueDownload", v)
      <4>1. c \in CallSet /\ c.do = "QueueDownload"
        BY CallsTyped, CallFields DEF OfVideo
      <4> HIDE DEF c
      <4>2. calls' = <<c>>
        BY <3>0 DEF c
      <4> QED BY <2>2, <4>1, <4>2
    <3>1. CASE AddDownload(v)
      <4>1. \A c \in Range(calls') : c.do # "EraseDownload"
        BY <3>0, <3>1, AddDoes
      <4> QED BY <2>1, <3>1, <4>1, AddDoes
    <3>2. CASE StartQueuedDownload(v)
      <4>1. \A c \in Range(calls') : c.do # "EraseDownload"
        BY <3>0, <3>2, StartDoes
      <4> QED BY <2>1, <3>2, <4>1, StartDoes
    <3>3. CASE RemoveDownload(v)
      <4>1. Gone(v)'
        BY <3>3, RemoveDoes DEF Reflagged, Gone, Is
      <4>2. \A a \in Range(alerts') : a \in Range(alerts) \/ Gone(a.v)'
        BY <3>3, <4>1, RemoveDoes
      <4>3. \A c \in Range(calls') : c.do = "EraseDownload" => c.v = v
        <5> DEFINE q == Call("QueueDownload", Head(Unqueued(v)))
                   e == Call("EraseDownload", v)
        <5>1. q.do = "QueueDownload" /\ e.v = v /\ e \in CallSet
          BY CallFields, CallsTyped DEF OfVideo
        <5>2. Head(Unqueued(v)) \in Videos => q \in CallSet
          BY CallsTyped DEF OfVideo
        <5>3. \/ Head(Unqueued(v)) \in Videos /\ (calls' = <<q, e>> \/ calls' = <<q>>)
              \/ calls' = <<e>> \/ calls' = <<>>
          BY <3>3, RemoveDoes
        <5> HIDE DEF q, e
        <5> QED BY <2>2, <5>1, <5>2, <5>3
      <4> QED BY <2>1, <4>1, <4>2, <4>3
    <3>4. CASE PauseDownload(v)
      BY <2>1, <2>3, <3>4, PauseDoes
    <3>5. CASE ResumeDownload(v)
      BY <2>1, <3>5, ResumeCallsDo
    <3> QED BY <2>4, <3>1, <3>2, <3>3, <3>4, <3>5 DEF User
  <2>5. ASSUME NEW v \in Videos, ProcessSchedule(v) PROVE Kept'
    <3>1. \A a \in Range(alerts') : 
              \/ a \in Range(alerts)
              \/ a.code # "REMOVED" /\ a.hr # "E_ABORT"
      BY <2>5, ScheduleDoes
    <3>2. \A c \in Range(calls') : c.do = "EraseDownload" => Gone(c.v)'
      BY <2>5, ScheduleDoes DEF Kept, Gone, Is
    <3> QED BY <2>1, <3>1, <3>2
  <2>6. CASE PauseAll
    BY <2>0, <2>a, <2>3, <2>6, PauseAllDoes
  <2>7. CASE ResumeAll
    <3>1. \A c \in Range(calls') : c.do # "EraseDownload"
      BY <2>7, ResumeCallsDo
    <3> QED BY <2>0, <2>a, <2>b, <2>7, <3>1, ResumeCallsDo
  <2>8. CASE Notify
    <3>1. CASE OnItemRemoved
      BY <2>0, <2>a, <2>3, <3>1, ItemRemovedDoes
    <3>2. CASE OnItemFinished
      <4>1. ASSUME NEW a \in Range(alerts), a.k \in Clips(a.v),
                   calls' = <<Complete(a.v, a.k, a.hr)>>
            PROVE  \A c \in Range(calls') : c.do # "EraseDownload"
        <5> DEFINE c == Complete(a.v, a.k, a.hr)
        <5>1. c \in CallSet /\ c.do # "EraseDownload"
          BY <1>0, <4>1, CallsTyped, CallFields DEF AlertSet
        <5> HIDE DEF c
        <5>2. Range(calls') = {c}
          BY <2>2, <4>1, <5>1 DEF c
        <5> QED BY <5>1, <5>2
      <4>2. \A c \in Range(calls') : c.do # "EraseDownload"
        BY <2>2, <3>2, <4>1, FinishedDoes
      <4> QED BY <2>0, <2>a, <2>b, <3>2, <4>2, FinishedDoes
    <3>3. CASE OnTorrentFound
      <4>1. ASSUME NEW a \in Range(alerts), a.k \in Clips(a.v),
                   calls' = <<CallClip("QueueDownloadItem", a.v, a.k),
                              Call("CountTorrentFound", a.v)>>
            PROVE  \A c \in Range(calls') : c.do # "EraseDownload"
        <5> DEFINE c == CallClip("QueueDownloadItem", a.v, a.k)
                   d == Call("CountTorrentFound", a.v)
        <5>1. /\ c \in CallSet /\ c.do # "EraseDownload"
              /\ d \in CallSet /\ d.do # "EraseDownload"
          BY <1>0, <4>1, CallsTyped, CallFields DEF OfClip, OfVideo
        <5> HIDE DEF c, d
        <5>2. Range(calls') = {c, d}
          BY <2>2, <4>1, <5>1 DEF c, d
        <5> QED BY <5>1, <5>2
      <4>2. \A c \in Range(calls') : c.do = "EraseDownload" => Gone(c.v)'
        BY <2>3, <2>b, <3>3, <4>1, TorrentFoundDoes
      <4> QED BY <2>0, <2>a, <3>3, <4>2, TorrentFoundDoes
    <3>4. CASE OnScheduledEvent
      <4>1. ASSUME NEW a \in Range(alerts), calls' = <<CallClip("QueueDownloadItem", a.v, 1)>>
            PROVE  \A c \in Range(calls') : c.do # "EraseDownload"
        <5> DEFINE c == CallClip("QueueDownloadItem", a.v, 1)
        <5>1. c \in CallSet /\ c.do # "EraseDownload"
          BY <1>0, CallsTyped, CallFields, Settings DEF OfClip
        <5> HIDE DEF c
        <5>2. Range(calls') = {c}
          BY <2>2, <4>1, <5>1 DEF c
        <5> QED BY <5>1, <5>2
      <4>2. \A c \in Range(calls') : c.do # "EraseDownload"
        BY <2>2, <3>4, <4>1, ScheduledDoes
      <4> QED BY <2>0, <2>a, <2>b, <3>4, <4>2, ScheduledDoes
    <3> QED BY <2>8, <3>1, <3>2, <3>3, <3>4 DEF Notify
  <2>9. ASSUME NEW h \in DOMAIN pairs, TransferStep(h) PROVE Kept'
    <3>1. \A a \in Range(alerts') : 
              \/ a \in Range(alerts)
              \/ a.code # "REMOVED" /\ a.hr # "E_ABORT"
      BY <1>2, <2>9, TransferDoes
    <3>2. \A c \in Range(calls') : c.do = "EraseDownload" => Gone(c.v)'
      BY <2>9, TransferDoes DEF Kept, Gone, Is
    <3> QED BY <2>1, <3>1, <3>2
  <2>10. CASE UNCHANGED vars
    <3>1. \A c \in Range(calls') : c.do = "EraseDownload" => Gone(c.v)'
      BY <2>10 DEF vars, Kept, Gone, Is
    <3> QED BY <2>0, <2>a, <2>10, <3>1 DEF vars
  <2> QED BY <1>4, <2>0, <2>4, <2>5, <2>6, <2>7, <2>8, <2>9, <2>10
<1> QED BY <1>3, <1>4, OtherSteps

LEMMA OnlyDeleted ==
    ASSUME TInv, Kept, [Next]_vars, NEW v \in listed \ listed' PROVE Is(v, "DELETED")
<1>0. v \in Videos
  BY DEF TInv
<1>1. CASE \E w \in Videos : Body(w)
  <2>1. PICK w \in Videos : Body(w)
    BY <1>1
  <2>2. CASE EraseDownload(w)
    <3>1. v = w
      BY <2>2, EraseDoes
    <3>2. Head(calls) \in Range(calls) /\ Head(calls).do = "EraseDownload" /\ Head(calls).v = v
      BY <2>2, <3>1, DoingIs DEF EraseDownload
    <3> QED BY <3>2 DEF Kept, Gone
  <2>3. CASE ~EraseDownload(w)
    <3>1. listed' = listed
      BY <2>1, <2>3, QueueDownloadDoes, QueueNextDoes, QueueItemDoes, AddClipDoes,
         ItemCompleteDoes, CompleteDoes, CountDoes, ResumeDoes DEF Body
    <3> QED BY <3>1
  <2> QED BY <2>2, <2>3
<1>2. CASE OnItemRemoved
  BY <1>2, ItemRemovedDoes DEF Kept, Gone
<1>3. ASSUME NEW w \in Videos, User(w) \/ ProcessSchedule(w) PROVE listed \subseteq listed'
  BY <1>3, AddDoes, StartDoes, RemoveDoes, PauseDoes, ResumeCallsDo, ScheduleDoes DEF User
<1>4. CASE PauseAll \/ ResumeAll
  BY <1>4, PauseAllDoes, ResumeCallsDo
<1>5. CASE OnItemFinished \/ OnTorrentFound \/ OnScheduledEvent
  BY <1>5, FinishedDoes, TorrentFoundDoes, ScheduledDoes
<1>6. ASSUME NEW h \in DOMAIN pairs, TransferStep(h) PROVE listed' = listed
  BY <1>6, TransferDoes
<1>7. CASE UNCHANGED vars
  BY <1>7 DEF vars
<1> QED BY <1>1, <1>2, <1>3, <1>4, <1>5, <1>6, <1>7 DEF Next, Notify, TransferStep

(* OnItemRemoved drops any download whose count of clips falls to 0.  Where  *)
(* the clip downloader only reports the removal of a clip when the user      *)
(* deleted its download, it never drops another one, in any order of calls   *)
(* and alerts: without a rotated torrent, an aborted pause and a video that  *)
(* is added again, a download leaves the collection only when it is deleted. *)
THEOREM KeptWithoutRotation == Spec => KeptUntilDeleted
<1> DEFINE Keeps == Without({"rotate", "abort", "add-again"})
                    => \A v \in listed \ listed' : Is(v, "DELETED")
<1>1. [Next]_vars /\ TInv /\ ~Calm => ~Calm'
  <2>1. TInv /\ [Next]_vars => world' = world
    BY BodyIsSeen, OtherSteps DEF BodySeen
  <2> QED BY <2>1 DEF Calm, Without
<1>2. TInv /\ Kept /\ [Next]_vars => [Keeps]_vars
  BY OnlyDeleted
<1>3. ~Calm /\ [Next]_vars => [Keeps]_vars
  BY DEF Calm
<1> HIDE DEF Keeps
<1>4. Spec => []TInv
  BY TInit, TStep, PTL DEF Spec
<1>5. Spec => []Traces
  BY <1>4, TracesInit, TracesStep, PTL DEF Spec
<1>6. Spec /\ Calm => []Kept
  BY <1>4, <1>5, KeptInit, KeptStep, PTL DEF Spec
<1>7. Spec /\ ~Calm => []~Calm
  BY <1>1, <1>4, PTL DEF Spec
<1>8. Spec => [][Keeps]_vars
  BY <1>2, <1>3, <1>4, <1>6, <1>7, PTL DEF Spec
<1> QED BY <1>8 DEF Keeps, KeptUntilDeleted

-----------------------------------------------------------------------------
(* The queue.  Only these calls wait behind another one.                     *)
Later == {"AddClip", "EraseDownload", "CountTorrentFound", "Resume"}

Stacked == \A c \in Behind(calls) : c.do \in Later

(* A video that was deleted is not added again, and no one chooses "Start"   *)
(* from an old menu while the disk is full.                                  *)
Orderly == ~May("add-again") /\ (May("stale-start") => ~May("disk"))

(* Nothing has been fetched for v, and nothing is about to be.               *)
Untouched(v) ==
    /\ ~Traced(v)
    /\ \A c \in Range(calls) :
          c.v = v => c.do \in {"QueueDownload", "EraseDownload", "Resume"}

Asked(v)   == calls # <<>> /\ Head(calls).do = "QueueDownload" /\ Head(calls).v = v
Erasing(v) == \E c \in Range(calls) : c.do = "EraseDownload" /\ c.v = v

(* Why the queue and the flag QUEUED agree between calls: a download gets    *)
(* the flag before anything is fetched for it, and whoever takes it out of   *)
(* the queue goes on with it at once.                                        *)
QOf(v) ==
    /\ v \in Range(queue) => v \in listed /\ Is(v, "QUEUED") /\ ~Erasing(v) /\ ~Asked(v)
    /\ v \in listed /\ Is(v, "QUEUED") =>
          /\ Untouched(v) /\ ~Is(v, "FINISHED") /\ ~Is(v, "PAUSED") /\ ~IsStream(v)
          /\ v \in Range(queue) \/ Asked(v) \/ Erasing(v)
    /\ Asked(v) =>
          /\ v \in listed /\ ~Erasing(v)
          /\ Untouched(v) \/ (Is(v, "FORCE") /\ ~May("disk") /\ ~Is(v, "QUEUED"))
    /\ v \in listed /\ IsStream(v) =>
          /\ ~Traced(v) /\ \A k \in Clips(v) : item[v].type[k] = "stream"
          /\ \A c \in Range(calls) :
                c.v = v => c.do \notin {"AddClip", "CountTorrentFound"} /\ c.hr = "S_OK"

QInv == Stacked /\ IsInjective(queue) /\ \A v \in Videos : QOf(v)

(* What is left to be done, after a body that calls some of N.               *)
LEMMA CallsLeft ==
    ASSUME TInv, Stacked, NEW f, NEW v \in Videos, Doing(f, v), NEW N \in SUBSET CallSet,
           \/ Then(<<>>)
           \/ \E c \in N : Then(<<c>>)
           \/ \E c, d \in N : Then(<<c, d>>) /\ d.do \in Later
    PROVE  /\ Stacked'
           /\ Behind(calls) \subseteq Range(calls')
           /\ \A c \in Behind(calls) : c \in Range(calls) /\ c.do \in Later
           /\ \A c \in Range(calls') : c \in Behind(calls) \/ c \in N
           /\ calls' # <<>> => Head(calls').do \in Later \/ Head(calls') \in N
<1>1. /\ calls # <<>> /\ calls \in Seq(CallSet)
      /\ Behind(calls) \subseteq Range(calls)
  BY DoingIs
<1>2. \A c \in Behind(calls) : c \in Range(calls) /\ c.do \in Later
  BY <1>1 DEF Stacked
<1>3. CASE Then(<<>>)
  BY <1>1, <1>2, <1>3, ThenNothing DEF Stacked
<1>4. ASSUME NEW c \in N, Then(<<c>>)
      PROVE  /\ Behind(calls) \subseteq Range(calls') /\ Behind(calls') = Behind(calls)
             /\ \A e \in Range(calls') : e \in Behind(calls) \/ e \in N
             /\ Head(calls') \in N
  BY <1>1, <1>4, ThenCall
<1>5. ASSUME NEW c \in N, NEW d \in N, Then(<<c, d>>), d.do \in Later
      PROVE  /\ Behind(calls) \subseteq Range(calls')
             /\ \A e \in Behind(calls') : e.do \in Later
             /\ \A e \in Range(calls') : e \in Behind(calls) \/ e \in N
             /\ Head(calls') \in N
  BY <1>1, <1>2, <1>5, ThenTwoCalls
<1> QED BY <1>1, <1>2, <1>3, <1>4, <1>5 DEF Stacked

(* Nothing changes for a download that no call is about.                     *)
LEMMA Elsewhere ==
    ASSUME NEW v \in Videos, QOf(v), Stacked', world' = world,
           calls # <<>> => Head(calls).v # v,
           item'[v] = item[v], v \in listed' <=> v \in listed,
           v \in Range(queue') <=> v \in Range(queue), Traced(v)' => Traced(v),
           \A c \in Range(calls) : c.v = v => c \in Range(calls'),
           \A c \in Range(calls') : c.v = v => c \in Range(calls),
           calls' # <<>> => Head(calls').do # "QueueDownload" \/ Head(calls').v # v
    PROVE  QOf(v)'
<1>1. ~Asked(v) /\ ~Asked(v)'
  BY DEF Asked
<1>2. Erasing(v)' <=> Erasing(v)
  BY DEF Erasing
<1>3. Untouched(v) => Untouched(v)'
  BY DEF Untouched
<1>4. /\ \A flag : Is(v, flag)' <=> Is(v, flag)
      /\ IsStream(v)' <=> IsStream(v)
  BY DEF Is, IsStream
<1>5. v \in Range(queue') => v \in listed' /\ Is(v, "QUEUED")' /\ ~Erasing(v)' /\ ~Asked(v)'
  BY <1>1, <1>2, <1>4 DEF QOf
<1>6. v \in listed' /\ Is(v, "QUEUED")' =>
          /\ Untouched(v)' /\ ~Is(v, "FINISHED")' /\ ~Is(v, "PAUSED")' /\ ~IsStream(v)'
          /\ v \in Range(queue') \/ Asked(v)' \/ Erasing(v)'
  BY <1>1, <1>2, <1>3, <1>4 DEF QOf
<1>7. v \in listed' /\ IsStream(v)' =>
          /\ ~Traced(v)' /\ \A k \in Clips(v) : item'[v].type[k] = "stream"
          /\ \A c \in Range(calls') :
                c.v = v => c.do \notin {"AddClip", "CountTorrentFound"} /\ c.hr = "S_OK"
  BY <1>4 DEF QOf
<1> QED BY <1>1, <1>5, <1>6, <1>7 DEF QOf

(* A download that is not in the queue any more, or never was.               *)
LEMMA Unflagged ==
    ASSUME NEW v \in Videos, QOf(v), world' = world,
           v \notin Range(queue'), v \in listed' => v \in listed,
           v \in listed' => ~Is(v, "QUEUED")', ~Asked(v)',
           item'[v].type = item[v].type,
           v \in listed /\ IsStream(v) =>
              /\ ~Traced(v)'
              /\ \A c \in Range(calls') : c.v = v =>
                    \/ c \in Range(calls)
                    \/ c.do \notin {"AddClip", "CountTorrentFound"} /\ c.hr = "S_OK"
    PROVE  QOf(v)'
<1>1. IsStream(v)' <=> IsStream(v)
  BY DEF IsStream
<1>2. v \in listed' /\ IsStream(v)' =>
          /\ ~Traced(v)' /\ \A k \in Clips(v) : item'[v].type[k] = "stream"
          /\ \A c \in Range(calls') :
                c.v = v => c.do \notin {"AddClip", "CountTorrentFound"} /\ c.hr = "S_OK"
  BY <1>1 DEF QOf
<1> QED BY <1>2 DEF QOf

(* The functions that only run once something is fetched.                    *)
AtWork == {"QueueNextDownloadItem", "QueueDownloadItem", "AddClip", "OnItemComplete",
           "OnDownloadComplete", "CountTorrentFound"}

OwnCalls(v) ==
    {c \in CallSet :
        /\ c.v = v /\ c.do \in AtWork
        /\ v \in listed /\ IsStream(v) =>
              c.do \notin {"AddClip", "CountTorrentFound"} /\ c.hr = "S_OK"}

LEMMA NotWaiting ==
    ASSUME TInv, QInv, NEW f \in AtWork, NEW v \in Videos, Doing(f, v)
    PROVE  /\ v \notin Range(queue) /\ (v \in listed => ~Is(v, "QUEUED"))
           /\ v \in listed /\ IsStream(v) =>
                 /\ ~Traced(v) /\ f \notin {"AddClip", "CountTorrentFound"}
                 /\ Head(calls).hr = "S_OK"
                 /\ \A k \in Clips(v) : item[v].type[k] = "stream"
<1>1. Head(calls) \in Range(calls) /\ Head(calls).do = f /\ Head(calls).v = v
  BY DoingIs
<1>2. ~Untouched(v)
  BY <1>1 DEF Untouched, AtWork
<1> QED BY <1>1, <1>2 DEF QInv, QOf

LEMMA AtWorkOn ==
    ASSUME TInv, QInv, NEW f \in AtWork, NEW v \in Videos, Doing(f, v),
           UNCHANGED <<listed, queue, world>>,
           \A w \in Videos : w # v => item'[w] = item[w] /\ (Traced(w)' => Traced(w)),
           Is(v, "QUEUED")' => Is(v, "QUEUED"), item'[v].type = item[v].type,
           Traced(v)' => Traced(v) \/ f = "AddClip",
           \/ Then(<<>>)
           \/ \E c \in OwnCalls(v) : Then(<<c>>)
           \/ \E c, d \in OwnCalls(v) : Then(<<c, d>>) /\ d.do \in Later
    PROVE  QInv'
<1>1. /\ Stacked'
      /\ Behind(calls) \subseteq Range(calls')
      /\ \A c \in Behind(calls) : c \in Range(calls) /\ c.do \in Later
      /\ \A c \in Range(calls') : c \in Behind(calls) \/ c \in OwnCalls(v)
      /\ calls' # <<>> => Head(calls').do \in Later \/ Head(calls') \in OwnCalls(v)
  <2>1. OwnCalls(v) \in SUBSET CallSet
    BY DEF OwnCalls
  <2> QED BY <2>1, CallsLeft DEF QInv
<1>2. /\ calls # <<>> /\ Head(calls).v = v /\ Range(calls) = {Head(calls)} \cup Behind(calls)
  BY DoingIs
<1>3. calls' # <<>> => Head(calls').do # "QueueDownload"
  BY <1>1 DEF Later, OwnCalls, AtWork
<1>4. ASSUME NEW w \in Videos, w # v PROVE QOf(w)'
  <2>1. \A c \in Range(calls) : c.v = w => c \in Range(calls')
    BY <1>1, <1>2, <1>4
  <2>2. \A c \in Range(calls') : c.v = w => c \in Range(calls)
    BY <1>1, <1>4 DEF OwnCalls
  <2> QED BY <1>1, <1>2, <1>3, <1>4, <2>1, <2>2, Elsewhere DEF QInv
<1>5. QOf(v)'
  <2>1. ~Asked(v)'
    BY <1>3 DEF Asked
  <2>2. v \in listed /\ IsStream(v) =>
              /\ ~Traced(v)'
              /\ \A c \in Range(calls') : c.v = v =>
                    \/ c \in Range(calls)
                    \/ c.do \notin {"AddClip", "CountTorrentFound"} /\ c.hr = "S_OK"
    BY <1>1, NotWaiting DEF OwnCalls
  <2> QED BY <2>1, <2>2, NotWaiting, Unflagged DEF QInv
<1> QED BY <1>1, <1>4, <1>5 DEF QInv

LEMMA NextQ ==
    ASSUME TInv, QInv, NEW v \in Videos, QueueNextDownloadItem(v) PROVE QInv'
<1> DEFINE c == CallClip("QueueDownloadItem", v, item[v].cur + 1)
<1>1. Doing("QueueNextDownloadItem", v) /\ "QueueNextDownloadItem" \in AtWork
  BY DEF QueueNextDownloadItem, AtWork
<1>2. Then(<<>>) \/ \E d \in OwnCalls(v) : Then(<<d>>)
  <2>1. ASSUME item[v].cur + 1 \in Clips(v) PROVE c \in OwnCalls(v)
    BY <2>1, CallsTyped, CallFields DEF OwnCalls, OfClip, AtWork
  <2> HIDE DEF c
  <2> QED BY <2>1, QueueNextDoes DEF c
<1>3. \A w \in Videos : Traced(w)' => Traced(w)
  BY QueueNextDoes DEF Traced
<1>4. /\ Is(v, "QUEUED")' => Is(v, "QUEUED")
      /\ UNCHANGED <<listed, queue, world>> /\ item'[v].type = item[v].type
      /\ \A w \in Videos : w # v => item'[w] = item[w]
  BY QueueNextDoes DEF Is
<1> QED BY <1>1, <1>2, <1>3, <1>4, AtWorkOn

LEMMA ItemQ ==
    ASSUME TInv, QInv, NEW v \in Videos, QueueDownloadItem(v) PROVE QInv'
<1>1. Doing("QueueDownloadItem", v) /\ "QueueDownloadItem" \in AtWork
  BY DEF QueueDownloadItem, AtWork
<1>2. PICK k \in Clips(v) :
         \/ Then(<<Complete(v, k, "S_OK")>>)
         \/ item[v].type[k] # "stream" /\ Then(<<CallClip("AddClip", v, k)>>)
         \/ /\ item[v].type[k] # "stream"
            /\ Then(<<Complete(v, k, "S_OK"), CallClip("AddClip", v, k)>>)
  BY QueueItemDoes
<1> DEFINE done == Complete(v, k, "S_OK")
           add  == CallClip("AddClip", v, k)
<1>3. done \in OwnCalls(v)
  BY CallsTyped, CallFields DEF OwnCalls, AtWork, Answers
<1>4. item[v].type[k] # "stream" => add \in OwnCalls(v) /\ add.do \in Later
  <2>1. item[v].type[k] # "stream" => ~(v \in listed /\ IsStream(v))
    BY <1>1, NotWaiting
  <2> QED BY <2>1, CallsTyped, CallFields DEF OwnCalls, AtWork, OfClip, Later
<1>5. /\ UNCHANGED <<listed, item, queue, pairs, world>>
      /\ \A w \in Videos : Traced(w)' => Traced(w)
  BY QueueItemDoes DEF Traced
<1>6. Is(v, "QUEUED")' => Is(v, "QUEUED")
  BY <1>5 DEF Is
<1> HIDE DEF done, add
<1>7. \/ Then(<<done>>)
      \/ item[v].type[k] # "stream" /\ (Then(<<add>>) \/ Then(<<done, add>>))
  BY <1>2 DEF done, add
<1>8. \/ \E c \in OwnCalls(v) : Then(<<c>>)
      \/ \E c, d \in OwnCalls(v) : Then(<<c, d>>) /\ d.do \in Later
  BY <1>3, <1>4, <1>7
<1> QED BY <1>1, <1>5, <1>6, <1>8, AtWorkOn

LEMMA AddClipQ ==
    ASSUME TInv, QInv, NEW v \in Videos, AddClip(v) PROVE QInv'
<1>1. Doing("AddClip", v) /\ "AddClip" \in AtWork
  BY DEF AddClip, AtWork
<1>2. ~(v \in listed /\ IsStream(v))
  BY <1>1, NotWaiting
<1>3. PICK k \in Clips(v) :
         /\ pairs' = pairs \/ \E p \in PairSet : p.v = v /\ pairs' = Append(pairs, p)
         /\ \/ /\ item'[v].flags = (item[v].flags \ {"FINISHED", "QUEUED"}) \cup {"ACTIVE"}
               /\ Then(<<>>)
            \/ /\ item'[v].flags = item[v].flags
               /\ \E hr \in {"S_OK", "E_FAIL"} : Then(<<Complete(v, k, hr)>>)
  BY AddClipDoes
<1>4. Then(<<>>) \/ \E c \in OwnCalls(v) : Then(<<c>>)
  <2>1. ASSUME NEW hr \in {"S_OK", "E_FAIL"} PROVE Complete(v, k, hr) \in OwnCalls(v)
    BY <1>2, CallsTyped, CallFields DEF OwnCalls, AtWork, Answers, Failures
  <2> QED BY <1>3, <2>1
<1>5. Is(v, "QUEUED")' => Is(v, "QUEUED")
  BY <1>3 DEF Is
<1>6. \A w \in Videos : w # v => (Traced(w)' => Traced(w))
  <2>1. CASE pairs' = pairs
    BY <2>1 DEF Traced
  <2>2. CASE \E p \in PairSet : p.v = v /\ pairs' = Append(pairs, p)
    BY <2>2, TracedGrows
  <2> QED BY <1>3, <2>1, <2>2
<1>7. /\ UNCHANGED <<listed, queue, world>> /\ item'[v].type = item[v].type
      /\ \A w \in Videos : w # v => item'[w] = item[w]
  BY AddClipDoes
<1> QED BY <1>1, <1>4, <1>5, <1>6, <1>7, AtWorkOn

LEMMA ItemCompleteQ ==
    ASSUME TInv, QInv, NEW v \in Videos, OnItemComplete(v) PROVE QInv'
<1> DEFINE goon == Call("QueueNextDownloadItem", v)
           end  == Call("OnDownloadComplete", v)
<1>1. Doing("OnItemComplete", v) /\ "OnItemComplete" \in AtWork
  BY DEF OnItemComplete, AtWork
<1>2. goon \in OwnCalls(v) /\ end \in OwnCalls(v)
  BY CallsTyped, CallFields DEF OwnCalls, OfVideo, AtWork
<1>3. /\ UNCHANGED <<listed, queue, pairs, world>> /\ item'[v].type = item[v].type
      /\ \A w \in Videos : w # v => item'[w] = item[w]
      /\ Then(<<>>) \/ Then(<<goon>>) \/ Then(<<end>>)
      /\ item'[v].flags \in {item[v].flags, item[v].flags \cup {"ERR_NETWORK"}}
  BY ItemCompleteDoes
<1> HIDE DEF goon, end
<1>4. Is(v, "QUEUED")' => Is(v, "QUEUED")
  BY <1>3 DEF Is
<1>5. \A w \in Videos : Traced(w)' => Traced(w)
  BY <1>3 DEF Traced
<1>6. Then(<<>>) \/ \E c \in OwnCalls(v) : Then(<<c>>)
  BY <1>2, <1>3
<1> QED BY <1>1, <1>3, <1>4, <1>5, <1>6, AtWorkOn

LEMMA CountQ ==
    ASSUME TInv, QInv, NEW v \in Videos, CountTorrentFound(v) PROVE QInv'
<1>1. Doing("CountTorrentFound", v) /\ "CountTorrentFound" \in AtWork
  BY DEF CountTorrentFound, AtWork
<1>2. UNCHANGED <<listed, item, queue, pairs, world>> /\ Then(<<>>)
  BY CountDoes
<1>3. (Is(v, "QUEUED")' => Is(v, "QUEUED")) /\ \A w \in Videos : Traced(w)' => Traced(w)
  BY <1>2 DEF Is, Traced
<1> QED BY <1>1, <1>2, <1>3, AtWorkOn

(* Whoever has left the queue is asked for at once.                          *)
LEMMA AskedFor ==
    ASSUME NEW v \in Videos, QOf(v), v \in Range(queue), item'[v] = item[v],
           v \in listed', v \notin Range(queue'), Traced(v)' => Traced(v),
           Asked(v)', ~Erasing(v)',
           \A c \in Range(calls') : c.v = v => c \in Range(calls) \/ c.do = "QueueDownload"
    PROVE  QOf(v)'
<1>1. v \in listed /\ Is(v, "QUEUED")
  BY DEF QOf
<1>2. Untouched(v) /\ ~Is(v, "FINISHED") /\ ~Is(v, "PAUSED") /\ ~IsStream(v)
  BY <1>1 DEF QOf
<1>3. Untouched(v)'
  BY <1>2 DEF Untouched
<1>4. /\ Is(v, "QUEUED")' /\ ~Is(v, "FINISHED")' /\ ~Is(v, "PAUSED")' /\ ~IsStream(v)'
  BY <1>1, <1>2 DEF Is, IsStream
<1> QED BY <1>3, <1>4 DEF QOf

LEMMA CompleteQ ==
    ASSUME TInv, QInv, NEW v \in Videos, OnDownloadComplete(v) PROVE QInv'
<1>1. Doing("OnDownloadComplete", v) /\ "OnDownloadComplete" \in AtWork
  BY DEF OnDownloadComplete, AtWork
<1>2. /\ UNCHANGED <<listed, pairs, world>> /\ item'[v].type = item[v].type
      /\ \A w \in Videos : w # v => item'[w] = item[w]
      /\ item'[v].flags = (item[v].flags \ {"ACTIVE"}) \cup {"FINISHED"}
      /\ \/ Then(<<>>) /\ queue' = queue
         \/ /\ queue # <<>> /\ queue' = Tail(queue)
            /\ Then(<<Call("QueueDownload", Head(queue))>>)
  BY CompleteDoes DEF Reflagged
<1>3. (Is(v, "QUEUED")' => Is(v, "QUEUED")) /\ \A w \in Videos : Traced(w)' <=> Traced(w)
  BY <1>2 DEF Is, Traced
<1>4. CASE Then(<<>>) /\ queue' = queue
  BY <1>1, <1>2, <1>3, <1>4, AtWorkOn
<1>5. CASE /\ queue # <<>> /\ queue' = Tail(queue)
           /\ Then(<<Call("QueueDownload", Head(queue))>>)
  <2>0. PICK h \in Videos : h = Head(queue)
    BY <1>5, HeadAndTail DEF TInv
  <2> DEFINE c == Call("QueueDownload", h)
  <2>1. /\ h \in Range(queue)
        /\ IsInjective(queue') /\ Range(queue') = Range(queue) \ {h}
    BY <1>5, <2>0, HeadAndTail, TailOfDistinct DEF TInv, QInv
  <2>2. c \in CallSet /\ c.do = "QueueDownload" /\ c.v = h /\ c.hr = "S_OK"
    BY <2>1, CallsTyped, CallFields DEF OfVideo
  <2>3. /\ calls # <<>> /\ calls \in Seq(CallSet)
        /\ Head(calls).do = "OnDownloadComplete" /\ Head(calls).v = v
        /\ Range(calls) = {Head(calls)} \cup Behind(calls)
    BY <1>1, DoingIs
  <2>4. Then(<<c>>)
    BY <1>5, <2>0
  <2> HIDE DEF c
  <2>5. /\ Head(calls') = c /\ Behind(calls') = Behind(calls)
        /\ Range(calls') = {c} \cup Behind(calls) /\ calls' # <<>>
    BY <2>2, <2>3, <2>4, ThenCall
  <2>6. Stacked'
    BY <2>5 DEF QInv, Stacked
  <2>7. v \notin Range(queue) /\ h # v
    BY <1>1, <2>1, NotWaiting
  <2>8. ASSUME NEW w \in Videos, w # v, w # h PROVE QOf(w)'
    <3>1. \A e \in Range(calls) : e.v = w => e \in Range(calls')
      BY <2>3, <2>5, <2>8
    <3>2. \A e \in Range(calls') : e.v = w => e \in Range(calls)
      BY <2>2, <2>3, <2>5, <2>8
    <3>3. w \in Range(queue') <=> w \in Range(queue)
      BY <2>1, <2>8
    <3>4. Head(calls').v # w
      BY <2>2, <2>5, <2>8
    <3> QED BY <1>2, <1>3, <2>3, <2>6, <2>8, <3>1, <3>2, <3>3, <3>4, Elsewhere DEF QInv
  <2>9. QOf(v)'
    <3>1. ~Asked(v)'
      BY <2>2, <2>5, <2>7 DEF Asked
    <3>2. \A e \in Range(calls') : e.v = v => e \in Range(calls)
      BY <2>2, <2>3, <2>5, <2>7
    <3>3. v \notin Range(queue')
      BY <2>1, <2>7
    <3>4. v \in listed => ~Is(v, "QUEUED")'
      BY <1>1, <1>3, NotWaiting
    <3>5. v \in listed /\ IsStream(v) => ~Traced(v)'
      BY <1>1, <1>3, NotWaiting
    <3> QED BY <1>2, <3>1, <3>2, <3>3, <3>4, <3>5, Unflagged DEF QInv
  <2>10. QOf(h)'
    <3>0. QOf(h) /\ h \in listed /\ Is(h, "QUEUED") /\ ~Erasing(h) /\ ~Asked(h)
      BY <2>1 DEF QInv, QOf
    <3>2. item'[h] = item[h] /\ h \in listed' /\ h \notin Range(queue')
      BY <1>2, <2>1, <2>7, <3>0
    <3>3. Asked(h)'
      BY <2>2, <2>5 DEF Asked
    <3>4. ~Erasing(h)'
      BY <2>2, <2>3, <2>5, <3>0 DEF Erasing
    <3>5. \A e \in Range(calls') : e.v = h => e \in Range(calls) \/ e.do = "QueueDownload"
      BY <2>2, <2>3, <2>5
    <3> QED BY <1>3, <2>1, <3>0, <3>2, <3>3, <3>4, <3>5, AskedFor
  <2> QED BY <2>1, <2>6, <2>8, <2>9, <2>10 DEF QInv
<1> QED BY <1>2, <1>4, <1>5

(* A body that ends with calls about the same download leaves the others     *)
(* alone.                                                                    *)
LEMMA BodyApart ==
    ASSUME TInv, QInv, NEW f, NEW v \in Videos, Doing(f, v), world' = world,
           NEW N \in SUBSET CallSet, \A c \in N : c.v = v /\ c.do # "QueueDownload",
           Then(<<>>) \/ \E c \in N : Then(<<c>>),
           \A w \in Videos : w # v =>
              /\ item'[w] = item[w] /\ (Traced(w)' => Traced(w))
              /\ (w \in listed' <=> w \in listed) /\ (w \in Range(queue') <=> w \in Range(queue))
    PROVE  /\ Stacked' /\ ~Asked(v)'
           /\ \A w \in Videos : w # v => QOf(w)'
           /\ \A c \in Range(calls') : c \in Range(calls) \/ c \in N
           /\ Behind(calls) \subseteq Range(calls')
           /\ Range(calls) = {Head(calls)} \cup Behind(calls)
<1>1. /\ Stacked'
      /\ Behind(calls) \subseteq Range(calls')
      /\ \A c \in Behind(calls) : c \in Range(calls) /\ c.do \in Later
      /\ \A c \in Range(calls') : c \in Behind(calls) \/ c \in N
      /\ calls' # <<>> => Head(calls').do \in Later \/ Head(calls') \in N
  BY CallsLeft DEF QInv
<1>2. /\ calls # <<>> /\ Head(calls).v = v /\ Range(calls) = {Head(calls)} \cup Behind(calls)
  BY DoingIs
<1>3. calls' # <<>> => Head(calls').do # "QueueDownload"
  BY <1>1 DEF Later
<1>4. ASSUME NEW w \in Videos, w # v PROVE QOf(w)'
  <2>1. \A c \in Range(calls) : c.v = w => c \in Range(calls')
    BY <1>1, <1>2, <1>4
  <2>2. \A c \in Range(calls') : c.v = w => c \in Range(calls)
    BY <1>1, <1>4
  <2> QED BY <1>1, <1>2, <1>3, <1>4, <2>1, <2>2, Elsewhere DEF QInv
<1>5. ~Asked(v)'
  BY <1>3 DEF Asked
<1> QED BY <1>1, <1>2, <1>4, <1>5

(* Only a download that nothing was fetched for is put in the queue: one     *)
(* started by hand has the flag FORCE and waits for the disk alone.          *)
LEMMA QueueDownloadQ ==
    ASSUME TInv, QInv, NEW v \in Videos, QueueDownload(v) PROVE QInv'
<1> DEFINE goon == Call("QueueNextDownloadItem", v)
           N == {goon}
<1>1. /\ UNCHANGED <<listed, pairs, world>> /\ item'[v].type = item[v].type
      /\ \A w \in Videos : w # v => item'[w] = item[w]
      /\ Then(<<>>) \/ Then(<<goon>>)
  BY QueueDownloadDoes DEF Reflagged
<1>2. goon \in CallSet /\ goon.v = v /\ goon.do = "QueueNextDownloadItem" /\ goon.hr = "S_OK"
  BY CallsTyped, CallFields DEF OfVideo
<1>3. Doing("QueueDownload", v) /\ Asked(v)
  BY DEF QueueDownload, Doing, Asked
<1>4. /\ v \notin Range(queue) /\ v \in listed /\ ~Erasing(v)
      /\ Untouched(v) \/ (Is(v, "FORCE") /\ ~May("disk") /\ ~Is(v, "QUEUED"))
      /\ Is(v, "QUEUED") =>
            Untouched(v) /\ ~Is(v, "FINISHED") /\ ~Is(v, "PAUSED") /\ ~IsStream(v)
  BY <1>3 DEF QInv, QOf
<1>5. \A w \in Videos : Traced(w)' <=> Traced(w)
  BY <1>1 DEF Traced
<1> HIDE DEF goon
<1>6. ASSUME \A w \in Videos : w # v => (w \in Range(queue') <=> w \in Range(queue))
      PROVE  /\ Stacked' /\ ~Asked(v)'
             /\ \A w \in Videos : w # v => QOf(w)'
             /\ \A c \in Range(calls') : c \in Range(calls) \/ c \in N
  <2>1. \A c \in N : c.v = v /\ c.do # "QueueDownload"
    BY <1>2
  <2>2. N \in SUBSET CallSet
    BY <1>2
  <2>3. Then(<<>>) \/ \E c \in N : Then(<<c>>)
    BY <1>1
  <2> HIDE DEF N
  <2> QED BY <1>1, <1>3, <1>5, <1>6, <2>1, <2>2, <2>3, BodyApart
<1>7. CASE queue' = queue /\ ~Is(v, "QUEUED")'
  <2>1. /\ Stacked' /\ ~Asked(v)'
        /\ \A w \in Videos : w # v => QOf(w)'
        /\ \A c \in Range(calls') : c \in Range(calls) \/ c \in N
    BY <1>6, <1>7
  <2>2. v \in listed /\ IsStream(v) => ~Traced(v)'
    BY <1>5 DEF QInv, QOf
  <2>3. \A c \in Range(calls') :
           \/ c \in Range(calls)
           \/ c.do \notin {"AddClip", "CountTorrentFound"} /\ c.hr = "S_OK"
    BY <1>2, <2>1 DEF N
  <2>4. QOf(v)'
    BY <1>1, <1>4, <1>7, <2>1, <2>2, <2>3, Unflagged DEF QInv
  <2> QED BY <1>7, <2>1, <2>4 DEF QInv
<1>8. CASE /\ ~(Is(v, "FINISHED") /\ ~Is(v, "PAUSED")) /\ ~IsStream(v)
           /\ ~(Is(v, "PAUSED") /\ ~Is(v, "FORCE"))
           /\ FALSE \in FreeSpace(v) \/ ~Is(v, "FORCE")
           /\ item'[v].flags = item[v].flags \cup {"QUEUED"}
           /\ Then(<<>>) /\ queue' = Append(queue, v)
  <2>1. FALSE \in FreeSpace(v) => May("disk") /\ ~Is(v, "FINISHED") /\ ~Is(v, "PAUSED")
    BY DEF FreeSpace, Is
  <2>2. Untouched(v) /\ ~Is(v, "FINISHED") /\ ~Is(v, "PAUSED") /\ ~IsStream(v)
    BY <1>4, <1>8, <2>1
  <2>3. IsInjective(queue') /\ Range(queue') = Range(queue) \cup {v}
    BY <1>4, <1>8, Appended DEF TInv, QInv
  <2>4. /\ Stacked' /\ ~Asked(v)'
        /\ \A w \in Videos : w # v => QOf(w)'
    BY <1>6, <2>3
  <2>5. \A c \in Range(calls') : c \in Range(calls)
    <3>1. /\ Range(calls') = Behind(calls) /\ Behind(calls) \subseteq Range(calls)
      BY <1>3, <1>8, DoingIs, ThenNothing
    <3> QED BY <3>1
  <2>6. Untouched(v)' /\ ~Erasing(v)'
    BY <1>4, <1>5, <2>2, <2>5 DEF Untouched, Erasing
  <2>7. /\ Is(v, "QUEUED")' /\ ~Is(v, "FINISHED")' /\ ~Is(v, "PAUSED")' /\ ~IsStream(v)'
    BY <1>1, <1>8, <2>2 DEF Is, IsStream
  <2>8. QOf(v)'
    BY <1>1, <1>4, <2>3, <2>4, <2>6, <2>7 DEF QOf
  <2> QED BY <2>3, <2>4, <2>8 DEF QInv
<1>9. \/ item'[v].flags = item[v].flags /\ queue' = queue
         /\ (Is(v, "FINISHED") \/ IsStream(v) \/ Is(v, "PAUSED"))
      \/ item'[v].flags = item[v].flags \ {"QUEUED", "FORCE", "PAUSED"} /\ queue' = queue
      \/ /\ ~(Is(v, "FINISHED") /\ ~Is(v, "PAUSED")) /\ ~IsStream(v)
         /\ ~(Is(v, "PAUSED") /\ ~Is(v, "FORCE"))
         /\ FALSE \in FreeSpace(v) \/ ~Is(v, "FORCE")
         /\ item'[v].flags = item[v].flags \cup {"QUEUED"}
         /\ Then(<<>>) /\ queue' = Append(queue, v)
  BY QueueDownloadDoes
<1> QED BY <1>4, <1>7, <1>8, <1>9 DEF Is

LEMMA EraseQ ==
    ASSUME TInv, QInv, NEW v \in Videos, EraseDownload(v) PROVE QInv'
<1> DEFINE N == {}
<1>1. /\ UNCHANGED <<queue, pairs, world>> /\ listed' = listed \ {v} /\ Then(<<>>)
      /\ \A w \in Videos : w # v => item'[w] = item[w]
  BY EraseDoes DEF EraseDownload
<1>2. Doing("EraseDownload", v) /\ Head(calls) \in Range(calls)
  BY DoingIs DEF EraseDownload
<1>3. v \notin Range(queue)
  BY <1>2 DEF QInv, QOf, Erasing, Doing
<1>4. \A w \in Videos : Traced(w)' <=> Traced(w)
  BY <1>1 DEF Traced
<1>5. /\ Stacked' /\ ~Asked(v)' /\ \A w \in Videos : w # v => QOf(w)'
  <2>1. /\ N \in SUBSET CallSet /\ \A c \in N : c.v = v /\ c.do # "QueueDownload"
    OBVIOUS
  <2> HIDE DEF N
  <2> QED BY <1>1, <1>2, <1>4, <2>1, BodyApart
<1>6. QOf(v)'
  BY <1>1, <1>3, <1>5 DEF QOf
<1> QED BY <1>1, <1>5, <1>6 DEF QInv

LEMMA ResumeQ ==
    ASSUME TInv, QInv, NEW v \in Videos, ResumeStep(v) PROVE QInv'
<1> DEFINE goon == Call("QueueNextDownloadItem", v)
           N == {goon}
<1>1. /\ SamePairs /\ UNCHANGED <<listed, queue, world>> /\ item'[v].type = item[v].type
      /\ \A w \in Videos : w # v => item'[w] = item[w]
      /\ item'[v].flags \in {item[v].flags, item[v].flags \ {"PAUSED"}}
      /\ Then(<<>>) \/ (~Is(v, "QUEUED") /\ Then(<<goon>>))
  BY ResumeDoes DEF Reflagged
<1>2. goon \in CallSet /\ goon.v = v /\ goon.do = "QueueNextDownloadItem" /\ goon.hr = "S_OK"
  BY CallsTyped, CallFields DEF OfVideo
<1> HIDE DEF goon
<1>3. Doing("Resume", v) /\ ~Asked(v)
  BY DEF ResumeStep, Doing, Asked
<1>4. \A w \in Videos : Traced(w)' <=> Traced(w)
  BY <1>1, TracedSame
<1>5. /\ Stacked' /\ ~Asked(v)' /\ \A w \in Videos : w # v => QOf(w)'
      /\ \A c \in Range(calls') : c \in Range(calls) \/ c \in N
      /\ Behind(calls) \subseteq Range(calls')
      /\ Range(calls) = {Head(calls)} \cup Behind(calls)
  <2>1. N \in SUBSET CallSet /\ \A c \in N : c.v = v /\ c.do # "QueueDownload"
    BY <1>2
  <2>2. Then(<<>>) \/ \E c \in N : Then(<<c>>)
    BY <1>1
  <2> HIDE DEF N
  <2> QED BY <1>1, <1>3, <1>4, <2>1, <2>2, BodyApart
<1>6. QOf(v)
  BY DEF QInv
<1>7. /\ Is(v, "QUEUED")' <=> Is(v, "QUEUED")
      /\ Is(v, "FINISHED")' <=> Is(v, "FINISHED")
      /\ Is(v, "PAUSED")' => Is(v, "PAUSED")
      /\ IsStream(v)' <=> IsStream(v)
  BY <1>1 DEF Is, IsStream
<1>8. v \in listed /\ IsStream(v) =>
          /\ ~Traced(v)'
          /\ \A c \in Range(calls') : c.v = v =>
                \/ c \in Range(calls)
                \/ c.do \notin {"AddClip", "CountTorrentFound"} /\ c.hr = "S_OK"
  BY <1>2, <1>4, <1>5, <1>6 DEF QOf
<1>9. CASE ~(v \in listed /\ Is(v, "QUEUED"))
  <2>1. v \notin Range(queue)
    BY <1>6, <1>9 DEF QOf
  <2> QED BY <1>1, <1>5, <1>6, <1>7, <1>8, <1>9, <2>1, Unflagged DEF QInv
<1>10. CASE v \in listed /\ Is(v, "QUEUED")
  <2>1. Untouched(v) /\ ~Is(v, "FINISHED") /\ ~Is(v, "PAUSED") /\ ~IsStream(v)
        /\ (v \in Range(queue) \/ Erasing(v))
    BY <1>3, <1>6, <1>10 DEF QOf
  <2>2. \A c \in Range(calls') : c \in Range(calls)
    <3>1. /\ Range(calls') = Behind(calls) /\ Behind(calls) \subseteq Range(calls)
      BY <1>1, <1>3, <1>10, DoingIs, ThenNothing
    <3> QED BY <3>1
  <2>3. Erasing(v)' <=> Erasing(v)
    BY <1>3, <1>5, <2>2 DEF Erasing, Doing
  <2>4. Untouched(v)'
    BY <1>4, <2>1, <2>2 DEF Untouched
  <2>5. QOf(v)'
    BY <1>1, <1>5, <1>6, <1>7, <1>10, <2>1, <2>3, <2>4 DEF QOf
  <2> QED BY <1>1, <1>5, <2>5 DEF QInv
<1> QED BY <1>9, <1>10

(* The user adds a video: it was not in the collection, and in an orderly    *)
(* world nothing was ever fetched for it.                                    *)
LEMMA AddQ ==
    ASSUME TInv, QInv, Orderly, NEW v \in Videos, AddDownload(v) PROVE QInv'
<1> DEFINE c == Call("QueueDownload", v)
<1>1. /\ UNCHANGED <<queue, pairs, world>> /\ listed' = listed \cup {v}
      /\ calls = <<>> /\ v \notin listed /\ calls' = <<c>> /\ ~Traced(v)
      /\ \A w \in Videos : w # v => item'[w] = item[w]
      /\ item'[v].flags \subseteq {"FINISHED", "PAUSED"}
      /\ item'[v].type = [k \in Clips(v) |-> ClipType[v]]
  BY AddDoes DEF Orderly, Traced
<1>2. c \in CallSet /\ c.v = v /\ c.do = "QueueDownload" /\ c.hr = "S_OK"
  BY CallsTyped, CallFields DEF OfVideo
<1> HIDE DEF c
<1>3. calls' # <<>> /\ Head(calls') = c /\ Range(calls') = {c} /\ Behind(calls') = {}
      /\ Range(calls) = {}
  BY <1>1, <1>2, OneEntry, NoEntries
<1>4. \A w \in Videos : Traced(w)' <=> Traced(w)
  BY <1>1 DEF Traced
<1>5. Stacked'
  BY <1>3 DEF Stacked
<1>6. ASSUME NEW w \in Videos, w # v PROVE QOf(w)'
  BY <1>1, <1>2, <1>3, <1>4, <1>5, <1>6, Elsewhere DEF QInv
<1>7. QOf(v)'
  <2>1. v \notin Range(queue') /\ ~Is(v, "QUEUED")' /\ v \in listed'
    BY <1>1 DEF QInv, QOf, Is
  <2>2. ~Erasing(v)' /\ Untouched(v)'
    BY <1>1, <1>2, <1>3, <1>4 DEF Erasing, Untouched
  <2>3. IsStream(v)' => \A k \in Clips(v) : item'[v].type[k] = "stream"
    BY <1>1, Settings DEF IsStream
  <2>4. ~Traced(v)'
    BY <1>1, <1>4
  <2> QED BY <1>2, <1>3, <2>1, <2>2, <2>3, <2>4 DEF QOf
<1> QED BY <1>1, <1>5, <1>6, <1>7 DEF QInv

(* "Start" takes a download out of the queue and asks for it.                *)
LEMMA StartQ ==
    ASSUME TInv, QInv, Orderly, NEW v \in Videos, StartQueuedDownload(v) PROVE QInv'
<1> DEFINE c == Call("QueueDownload", v)
<1>1. /\ UNCHANGED <<listed, pairs, world>>
      /\ calls = <<>> /\ v \in listed /\ calls' = <<c>>
      /\ Is(v, "QUEUED") \/ (Is(v, "FINISHED") /\ IsStream(v)) \/ May("stale-start")
      /\ queue' = IF Is(v, "QUEUED") THEN Unqueued(v) ELSE queue
      /\ \A w \in Videos : w # v => item'[w] = item[w]
      /\ \/ /\ Is(v, "QUEUED") \/ ~IsStream(v)
            /\ item'[v].flags = item[v].flags \cup {"FORCE"}
            /\ item'[v].type = item[v].type
         \/ /\ ~Is(v, "QUEUED") /\ IsStream(v)
            /\ item'[v].flags = (item[v].flags \ {"FINISHED"}) \cup {"FORCE"}
            /\ item'[v].type[1] = "http"
  BY StartDoes
<1>2. c \in CallSet /\ c.v = v /\ c.do = "QueueDownload" /\ c.hr = "S_OK"
  BY CallsTyped, CallFields DEF OfVideo
<1> HIDE DEF c
<1>3. calls' # <<>> /\ Head(calls') = c /\ Range(calls') = {c} /\ Behind(calls') = {}
      /\ Range(calls) = {}
  BY <1>1, <1>2, OneEntry, NoEntries
<1>4. \A w \in Videos : Traced(w)' <=> Traced(w)
  BY <1>1 DEF Traced
<1>5. Stacked'
  BY <1>3 DEF Stacked
<1>6. /\ IsInjective(queue') /\ v \notin Range(queue')
      /\ \A w : w # v => (w \in Range(queue') <=> w \in Range(queue))
  <2>1. CASE Is(v, "QUEUED")
    BY <1>1, <2>1, RemovedFirst DEF TInv, QInv, Unqueued
  <2>2. CASE ~Is(v, "QUEUED")
    BY <1>1, <2>2 DEF QInv, QOf
  <2> QED BY <2>1, <2>2
<1>7. ASSUME NEW w \in Videos, w # v PROVE QOf(w)'
  BY <1>1, <1>2, <1>3, <1>4, <1>5, <1>6, <1>7, Elsewhere DEF QInv
<1>8. QOf(v)'
  <2>1. ~Erasing(v)' /\ v \in listed'
    BY <1>1, <1>2, <1>3 DEF Erasing
  <2>2. Asked(v)'
    BY <1>2, <1>3 DEF Asked
  <2>3. Untouched(v)' <=> ~Traced(v)
    BY <1>2, <1>3, <1>4 DEF Untouched
  <2>4. QOf(v)
    BY DEF QInv
  <2>5. CASE Is(v, "QUEUED")
    <3>1. ~Traced(v) /\ ~Is(v, "FINISHED") /\ ~Is(v, "PAUSED") /\ ~IsStream(v)
      BY <1>1, <2>4, <2>5 DEF QOf, Untouched
    <3>2. /\ Is(v, "QUEUED")' /\ ~Is(v, "FINISHED")' /\ ~Is(v, "PAUSED")' /\ ~IsStream(v)'
      BY <1>1, <2>5, <3>1 DEF Is, IsStream
    <3> QED BY <1>6, <2>1, <2>2, <2>3, <3>1, <3>2 DEF QOf
  <2>6. CASE ~Is(v, "QUEUED") /\ ~IsStream(v)
    <3>1. ~Is(v, "QUEUED")' /\ Is(v, "FORCE")' /\ ~IsStream(v)'
      BY <1>1, <2>6 DEF Is, IsStream
    <3>2. ~May("disk")'
      BY <1>1, <2>6 DEF Orderly, May
    <3> QED BY <1>6, <2>1, <2>2, <3>1, <3>2 DEF QOf
  <2>7. CASE ~Is(v, "QUEUED") /\ IsStream(v)
    <3>1. ~Is(v, "QUEUED")' /\ ~IsStream(v)'
      BY <1>1, <2>7 DEF Is, IsStream
    <3>2. Untouched(v)'
      BY <1>1, <2>3, <2>4, <2>7 DEF QOf
    <3> QED BY <1>6, <2>1, <2>2, <3>1, <3>2 DEF QOf
  <2> QED BY <2>5, <2>6, <2>7
<1> QED BY <1>5, <1>6, <1>7, <1>8 DEF QInv

(* Deleting a download takes it out of the queue and erases it at once when  *)
(* it waits there; its slot goes to another one that waits.                  *)
LEMMA RemoveQ ==
    ASSUME TInv, QInv, NEW v \in Videos, RemoveDownload(v) PROVE QInv'
<1> DEFINE W == Unqueued(v)
           erase == Call("EraseDownload", v)
<1>1. /\ SamePairs /\ UNCHANGED <<listed, world>> /\ calls = <<>> /\ v \in listed
      /\ \A w \in Videos : w # v => item'[w] = item[w]
      /\ item'[v].flags = item[v].flags \cup {"DELETED", "STOPPED"}
      /\ item'[v].type = item[v].type
  BY RemoveDoes DEF Reflagged
<1>2. /\ W \in Seq(Videos) /\ IsInjective(W) /\ Range(W) = Range(queue) \ {v}
  BY RemovedFirst DEF TInv, QInv, Unqueued
<1>3. erase \in CallSet /\ erase.v = v /\ erase.do = "EraseDownload" /\ erase.hr = "S_OK"
  BY CallsTyped, CallFields DEF OfVideo
<1>4. \A w \in Videos : Traced(w)' <=> Traced(w)
  BY <1>1, TracedSame
<1>5. Range(calls) = {}
  BY <1>1, NoEntries
<1>6. Is(v, "QUEUED") => ErasedAtOnce(v)
  BY DEF Is, ErasedAtOnce
<1>7. \/ \E h \in Videos : LET ask == Call("QueueDownload", h) IN
             /\ W # <<>> /\ Head(W) = h /\ queue' = Tail(W)
             /\ calls' = IF ErasedAtOnce(v) THEN <<ask, erase>> ELSE <<ask>>
      \/ queue' = W /\ calls' = IF ErasedAtOnce(v) THEN <<erase>> ELSE <<>>
  BY RemoveDoes
<1> HIDE DEF W, erase
(* What is left to show of v itself: it has left the queue.                  *)
<1>8. ASSUME v \notin Range(queue'), ~Asked(v)', ErasedAtOnce(v) => Erasing(v)',
             \A c \in Range(calls') : c.hr = "S_OK" /\ c.do \in {"QueueDownload", "EraseDownload"}
      PROVE  QOf(v)'
  <2>1. /\ Is(v, "QUEUED")' <=> Is(v, "QUEUED")
        /\ Is(v, "FINISHED")' <=> Is(v, "FINISHED")
        /\ Is(v, "PAUSED")' <=> Is(v, "PAUSED")
        /\ IsStream(v)' <=> IsStream(v)
    BY <1>1 DEF Is, IsStream
  <2>2. QOf(v)
    BY DEF QInv
  <2>3. Is(v, "QUEUED") =>
           Untouched(v)' /\ ~Is(v, "FINISHED") /\ ~Is(v, "PAUSED") /\ ~IsStream(v)
    BY <1>1, <1>4, <1>8, <2>2 DEF QOf, Untouched
  <2>4. IsStream(v) => ~Traced(v)' /\ \A k \in Clips(v) : item'[v].type[k] = "stream"
    BY <1>1, <1>4, <2>2 DEF QOf
  <2> QED BY <1>6, <1>8, <2>1, <2>3, <2>4 DEF QOf
<1>9. CASE queue' = W /\ calls' = IF ErasedAtOnce(v) THEN <<erase>> ELSE <<>>
  <2>1. /\ Range(calls') = IF ErasedAtOnce(v) THEN {erase} ELSE {}
        /\ Behind(calls') = {} /\ (calls' # <<>> => Head(calls') = erase)
    BY <1>3, <1>9, OneEntry, NoEntries
  <2>2. Stacked'
    BY <2>1 DEF Stacked
  <2>3. ASSUME NEW w \in Videos, w # v PROVE QOf(w)'
    BY <1>1, <1>2, <1>3, <1>4, <1>5, <1>9, <2>1, <2>2, <2>3, Elsewhere DEF QInv
  <2>4. QOf(v)'
    <3>1. ErasedAtOnce(v) => Erasing(v)'
      BY <1>3, <2>1 DEF Erasing
    <3>2. ~Asked(v)'
      BY <1>3, <2>1 DEF Asked
    <3>3. \A c \in Range(calls') : c.hr = "S_OK" /\ c.do \in {"QueueDownload", "EraseDownload"}
      BY <1>3, <2>1
    <3> QED BY <1>2, <1>8, <1>9, <3>1, <3>2, <3>3
  <2> QED BY <1>2, <1>9, <2>2, <2>3, <2>4 DEF QInv
<1>10. ASSUME NEW h \in Videos, W # <<>>, Head(W) = h, queue' = Tail(W),
              calls' = IF ErasedAtOnce(v) THEN <<Call("QueueDownload", h), erase>>
                       ELSE <<Call("QueueDownload", h)>>
       PROVE  QInv'
  <2> DEFINE ask == Call("QueueDownload", h)
  <2>1. ask \in CallSet /\ ask.v = h /\ ask.do = "QueueDownload" /\ ask.hr = "S_OK"
    BY CallsTyped, CallFields DEF OfVideo
  <2>2. calls' = IF ErasedAtOnce(v) THEN <<ask, erase>> ELSE <<ask>>
    BY <1>10
  <2> HIDE DEF ask
  <2>3. /\ Range(calls') = IF ErasedAtOnce(v) THEN {ask, erase} ELSE {ask}
        /\ Behind(calls') \subseteq {erase} /\ calls' # <<>> /\ Head(calls') = ask
    BY <1>3, <2>1, <2>2, OneEntry, TwoEntries
  <2>4. /\ h \in Range(queue) /\ h # v
        /\ IsInjective(queue') /\ Range(queue') = Range(queue) \ {v, h}
    <3>1. h \in Range(W) /\ IsInjective(Tail(W)) /\ Range(Tail(W)) = Range(W) \ {h}
      BY <1>2, <1>10, HeadAndTail, TailOfDistinct
    <3> QED BY <1>2, <1>10, <3>1
  <2>5. Stacked'
    BY <1>3, <2>3 DEF Stacked, Later
  <2>6. ASSUME NEW w \in Videos, w # v, w # h PROVE QOf(w)'
    <3>1. w \in Range(queue') <=> w \in Range(queue)
      BY <2>4, <2>6
    <3>2. \A c \in Range(calls') : c.v # w
      BY <1>3, <2>1, <2>3, <2>6
    <3>3. Head(calls').v # w
      BY <2>1, <2>3, <2>6
    <3> QED BY <1>1, <1>4, <1>5, <2>5, <2>6, <3>1, <3>2, <3>3, Elsewhere DEF QInv
  <2>7. QOf(v)'
    <3>1. ErasedAtOnce(v) => Erasing(v)'
      BY <1>3, <2>3 DEF Erasing
    <3>2. ~Asked(v)'
      BY <2>1, <2>3, <2>4 DEF Asked
    <3>3. \A c \in Range(calls') : c.hr = "S_OK" /\ c.do \in {"QueueDownload", "EraseDownload"}
      BY <1>3, <2>1, <2>3
    <3> QED BY <1>8, <2>4, <3>1, <3>2, <3>3
  <2>8. QOf(h)'
    <3>1. QOf(h) /\ h \in listed
      BY <2>4 DEF QInv, QOf
    <3>2. Asked(h)'
      BY <2>1, <2>3 DEF Asked
    <3>3. ~Erasing(h)'
      BY <1>3, <2>1, <2>3, <2>4 DEF Erasing
    <3>4. \A c \in Range(calls') : c.v = h => c.do = "QueueDownload"
      BY <1>3, <2>1, <2>3, <2>4
    <3> QED BY <1>1, <1>4, <2>4, <3>1, <3>2, <3>3, <3>4, AskedFor
  <2> QED BY <2>4, <2>5, <2>6, <2>7, <2>8 DEF QInv
<1> QED BY <1>7, <1>9, <1>10

(* Steps that do not touch the queue, nor the flags of what waits in it.     *)
LEMMA QueueAlone ==
    ASSUME TInv, QInv, UNCHANGED <<listed, queue, calls, world>>,
           \A w \in Videos : Traced(w)' => Traced(w),
           \A w \in Videos :
              /\ item'[w].type = item[w].type
              /\ \/ item'[w].flags = item[w].flags
                 \/ calls = <<>> /\ ~Is(w, "QUEUED") /\ ~Is(w, "QUEUED")'
    PROVE  QInv'
<1> SUFFICES ASSUME NEW v \in Videos PROVE QOf(v)'
  BY DEF QInv, Stacked
<1>1. QOf(v)
  BY DEF QInv
<1>2. /\ Asked(v)' <=> Asked(v)
      /\ Erasing(v)' <=> Erasing(v)
      /\ Untouched(v) => Untouched(v)'
      /\ IsStream(v)' <=> IsStream(v)
  BY DEF Asked, Erasing, Untouched, IsStream
<1>3. CASE item'[v].flags = item[v].flags
  <2>1. \A flag : Is(v, flag)' <=> Is(v, flag)
    BY <1>3 DEF Is
  <2>2. May("disk")' <=> May("disk")
    BY DEF May
  <2> QED BY <1>1, <1>2, <2>1, <2>2 DEF QOf
<1>4. CASE calls = <<>> /\ ~Is(v, "QUEUED") /\ ~Is(v, "QUEUED")'
  <2>1. ~Asked(v)
    BY <1>4 DEF Asked
  <2> QED BY <1>1, <1>2, <1>4, <2>1 DEF QOf
<1> QED BY <1>3, <1>4

LEMMA PauseQ ==
    ASSUME TInv, QInv, PauseAll \/ \E v \in Videos : PauseDownload(v) PROVE QInv'
<1>1. ASSUME NEW v \in Videos, PauseDownload(v) PROVE QInv'
  <2>1. /\ SamePairs /\ UNCHANGED <<listed, queue, calls, world>> /\ calls = <<>>
        /\ \A w \in Videos : w # v => item'[w] = item[w]
        /\ item'[v].type = item[v].type
        /\ \/ item'[v].flags = item[v].flags
           \/ item'[v].flags = item[v].flags \cup {"PAUSED"} /\ ~Is(v, "QUEUED")
    BY <1>1, PauseDoes DEF Reflagged
  <2>2. \A w \in Videos :
              /\ item'[w].type = item[w].type
              /\ \/ item'[w].flags = item[w].flags
                 \/ calls = <<>> /\ ~Is(w, "QUEUED") /\ ~Is(w, "QUEUED")'
    BY <2>1 DEF Is
  <2> QED BY <2>1, <2>2, TracedSame, QueueAlone
<1>2. CASE PauseAll
  <2>1. /\ SamePairs /\ UNCHANGED <<listed, queue, calls, world>> /\ calls = <<>>
        /\ \A w \in Videos :
              /\ item'[w].type = item[w].type
              /\ \/ item'[w].flags = item[w].flags
                 \/ item'[w].flags = item[w].flags \cup {"PAUSED"} /\ ~Is(w, "QUEUED")
    BY <1>2, PauseAllDoes
  <2>2. \A w \in Videos :
              /\ item'[w].type = item[w].type
              /\ \/ item'[w].flags = item[w].flags
                 \/ calls = <<>> /\ ~Is(w, "QUEUED") /\ ~Is(w, "QUEUED")'
    BY <2>1 DEF Is
  <2> QED BY <2>1, <2>2, TracedSame, QueueAlone
<1> QED BY <1>1, <1>2

LEMMA ResumeCallsQ ==
    ASSUME TInv, QInv, ResumeAll \/ \E v \in Videos : ResumeDownload(v) PROVE QInv'
<1>1. /\ UNCHANGED <<listed, item, queue, pairs, world>> /\ calls = <<>>
      /\ \A c \in Range(calls') : c.do = "Resume" /\ c.hr = "S_OK"
      /\ calls' # <<>> => Head(calls').do = "Resume"
      /\ \A c \in Behind(calls') : c.do = "Resume"
  BY ResumeCallsDo
<1>2. Stacked'
  BY <1>1 DEF Stacked, Later
<1>3. ASSUME NEW v \in Videos PROVE QOf(v)'
  <2>1. ~Asked(v)' /\ ~Asked(v) /\ ~Erasing(v)' /\ ~Erasing(v)
    BY <1>1, NoEntries DEF Asked, Erasing
  <2>2. /\ Traced(v)' <=> Traced(v)
        /\ \A flag : Is(v, flag)' <=> Is(v, flag)
        /\ IsStream(v)' <=> IsStream(v)
    BY <1>1 DEF Traced, Is, IsStream
  <2>3. Untouched(v) => Untouched(v)'
    BY <1>1, <2>2 DEF Untouched
  <2>4. QOf(v)
    BY DEF QInv
  <2> QED BY <1>1, <2>1, <2>2, <2>3, <2>4 DEF QOf
<1> QED BY <1>1, <1>2, <1>3 DEF QInv

(* An alert is about a video something was fetched for: it does not wait in  *)
(* the queue, and it is no stream that was only played.                      *)
LEMMA TracedOn ==
    ASSUME TInv, QInv, NEW v \in Videos, Traced(v), calls = <<>>, Stacked',
           UNCHANGED <<queue, pairs, world>>,
           \A w \in Videos : w # v => item'[w] = item[w] /\ (w \in listed' <=> w \in listed),
           v \in listed' => v \in listed,
           v \in listed' => (Is(v, "QUEUED")' => Is(v, "QUEUED")),
           v \in listed' => (IsStream(v)' => IsStream(v)),
           \A c \in Range(calls') : c.v = v,
           calls' # <<>> => Head(calls').do # "QueueDownload"
    PROVE  QInv'
<1>1. \A w \in Videos : Traced(w)' <=> Traced(w)
  BY DEF Traced
<1>2. Range(calls) = {}
  BY NoEntries
<1>3. ASSUME NEW w \in Videos, w # v PROVE QOf(w)'
  BY <1>1, <1>2, <1>3, Elsewhere DEF QInv
<1>4. v \notin Range(queue) /\ (v \in listed => ~Is(v, "QUEUED") /\ ~IsStream(v))
  BY DEF QInv, QOf, Untouched
<1>5. ~Asked(v)'
  BY DEF Asked
<1>6. QOf(v)'
  BY <1>4, <1>5 DEF QOf
<1> QED BY <1>3, <1>6 DEF QInv

LEMMA NotifyQ ==
    ASSUME TInv, Traces, QInv, Notify PROVE QInv'
<1>0. \A a \in Range(alerts) : Traced(a.v) /\ a.v \in Videos /\ a.hr \in Answers
  BY SeqEntries DEF Traces, TInv, AlertSet
<1>1. /\ Range(<<>>) = {} /\ Behind(<<>>) = {}
      /\ \A c \in CallSet : /\ Range(<<c>>) = {c} /\ Behind(<<c>>) = {}
                            /\ Head(<<c>>) = c
      /\ \A c, d \in CallSet : /\ Range(<<c, d>>) = {c, d} /\ Behind(<<c, d>>) = {d}
                               /\ Head(<<c, d>>) = c
  BY NoEntries, OneEntry, TwoEntries
<1>2. CASE OnItemRemoved
  <2>1. /\ UNCHANGED <<queue, calls, pairs, world>> /\ calls = <<>>
        /\ \E v \in Videos :
              /\ Traced(v)
              /\ \A w \in Videos : w # v => item'[w] = item[w]
              /\ \/ /\ listed' = listed
                    /\ item'[v].flags = item[v].flags /\ item'[v].type = item[v].type
                 \/ v \in listed /\ listed' = listed \ {v}
    BY <1>0, <1>2, ItemRemovedDoes
  <2>2. PICK v \in Videos :
              /\ Traced(v)
              /\ \A w \in Videos : w # v => item'[w] = item[w]
              /\ \/ /\ listed' = listed
                    /\ item'[v].flags = item[v].flags /\ item'[v].type = item[v].type
                 \/ v \in listed /\ listed' = listed \ {v}
    BY <2>1
  <2>3. Stacked' /\ \A c \in Range(calls') : c.v = v
    BY <1>1, <2>1 DEF Stacked
  <2>4. v \in listed' => /\ v \in listed
                         /\ Is(v, "QUEUED")' => Is(v, "QUEUED")
                         /\ IsStream(v)' => IsStream(v)
    BY <2>2 DEF Is, IsStream
  <2>5. \A w \in Videos : w # v => item'[w] = item[w] /\ (w \in listed' <=> w \in listed)
    BY <2>2
  <2> QED BY <2>1, <2>2, <2>3, <2>4, <2>5, TracedOn
<1>3. ASSUME calls = <<>>, UNCHANGED <<listed, item, queue, pairs, world>>,
             \/ calls' = <<>>
             \/ \E v \in listed, c \in CallSet :
                   Traced(v) /\ c.v = v /\ c.do # "QueueDownload" /\ calls' = <<c>>
      PROVE  QInv'
  <2>1. CASE calls' = <<>>
    <3>1. \A w \in Videos : Traced(w)' => Traced(w)
      BY <1>3 DEF Traced
    <3> QED BY <1>3, <2>1, <3>1, QueueAlone
  <2>2. ASSUME NEW v \in listed, NEW c \in CallSet, Traced(v), c.v = v,
               c.do # "QueueDownload", calls' = <<c>>
        PROVE  QInv'
    <3>1. Range(calls') = {c} /\ Behind(calls') = {} /\ Head(calls') = c
      BY <1>1, <2>2
    <3>2. Stacked' /\ v \in Videos
      BY <3>1 DEF Stacked, TInv
    <3>3. /\ Is(v, "QUEUED")' => Is(v, "QUEUED")
          /\ IsStream(v)' => IsStream(v)
      BY <1>3 DEF Is, IsStream
    <3> QED BY <1>3, <2>2, <3>1, <3>2, <3>3, TracedOn
  <2> QED BY <1>3, <2>1, <2>2
<1>4. CASE OnItemFinished
  <2>1. ASSUME NEW a \in Range(alerts), a.k \in Clips(a.v)
        PROVE  LET c == Complete(a.v, a.k, a.hr)
               IN  c \in CallSet /\ c.v = a.v /\ c.do # "QueueDownload"
    BY <1>0, <2>1, CallsTyped, CallFields
  <2>2. /\ calls = <<>> /\ UNCHANGED <<listed, item, queue, pairs, world>>
        /\ \/ calls' = <<>>
           \/ \E a \in Range(alerts) : /\ a.v \in listed /\ a.k \in Clips(a.v)
                                       /\ calls' = <<Complete(a.v, a.k, a.hr)>>
    BY <1>4, FinishedDoes
  <2>3. \/ calls' = <<>>
        \/ \E v \in listed, c \in CallSet :
              Traced(v) /\ c.v = v /\ c.do # "QueueDownload" /\ calls' = <<c>>
    BY <1>0, <2>1, <2>2
  <2> QED BY <1>3, <2>2, <2>3
<1>5. CASE OnScheduledEvent
  <2>1. ASSUME NEW a \in Range(alerts)
        PROVE  LET c == CallClip("QueueDownloadItem", a.v, 1)
               IN  c \in CallSet /\ c.v = a.v /\ c.do # "QueueDownload"
    BY <1>0, <2>1, CallsTyped, CallFields, Settings DEF OfClip
  <2>2. /\ calls = <<>> /\ UNCHANGED <<listed, item, queue, pairs, world>>
        /\ \/ calls' = <<>>
           \/ \E a \in Range(alerts) :
                 a.v \in listed /\ calls' = <<CallClip("QueueDownloadItem", a.v, 1)>>
    BY <1>5, ScheduledDoes
  <2>3. \/ calls' = <<>>
        \/ \E v \in listed, c \in CallSet :
              Traced(v) /\ c.v = v /\ c.do # "QueueDownload" /\ calls' = <<c>>
    BY <1>0, <2>1, <2>2
  <2> QED BY <1>3, <2>2, <2>3
<1>6. CASE OnTorrentFound
  <2>1. /\ calls = <<>> /\ UNCHANGED <<listed, queue, pairs, world>>
        /\ \/ UNCHANGED <<item, calls>>
           \/ \E a \in Range(alerts) :
                 /\ a.v \in listed /\ a.k \in Clips(a.v)
                 /\ \A w \in Videos : w # a.v => item'[w] = item[w]
                 /\ item'[a.v].flags = item[a.v].flags \ {"FINISHED"}
                 /\ item'[a.v].type[1] \in {item[a.v].type[1], "torrent"}
                 /\ calls' = <<CallClip("QueueDownloadItem", a.v, a.k),
                               Call("CountTorrentFound", a.v)>>
    BY <1>6, TorrentFoundDoes
  <2>2. CASE UNCHANGED <<item, calls>>
    BY <1>3, <2>1, <2>2
  <2>3. ASSUME NEW a \in Range(alerts), a.v \in listed, a.k \in Clips(a.v),
               \A w \in Videos : w # a.v => item'[w] = item[w],
               item'[a.v].flags = item[a.v].flags \ {"FINISHED"},
               item'[a.v].type[1] \in {item[a.v].type[1], "torrent"},
               calls' = <<CallClip("QueueDownloadItem", a.v, a.k),
                          Call("CountTorrentFound", a.v)>>
        PROVE  QInv'
    <3>0. PICK v \in Videos : v = a.v /\ Traced(v)
      BY <1>0
    <3> DEFINE c == CallClip("QueueDownloadItem", a.v, a.k)
               d == Call("CountTorrentFound", a.v)
    <3>1. /\ c \in CallSet /\ c.v = v /\ c.do = "QueueDownloadItem"
          /\ d \in CallSet /\ d.v = v /\ d.do = "CountTorrentFound"
      BY <1>0, <2>3, <3>0, CallsTyped, CallFields DEF OfClip, OfVideo
    <3>2. calls' = <<c, d>>
      BY <2>3
    <3> HIDE DEF c, d
    <3>3. Range(calls') = {c, d} /\ Behind(calls') = {d} /\ Head(calls') = c
      BY <1>1, <3>1, <3>2
    <3>4. Stacked'
      BY <3>1, <3>3 DEF Stacked, Later
    <3>5. /\ Is(v, "QUEUED")' => Is(v, "QUEUED")
          /\ IsStream(v)' => IsStream(v)
      BY <2>3, <3>0 DEF Is, IsStream
    <3> QED BY <2>1, <2>3, <3>0, <3>1, <3>3, <3>4, <3>5, TracedOn
  <2> QED BY <2>1, <2>2, <2>3
<1> QED BY <1>2, <1>4, <1>5, <1>6 DEF Notify

LEMMA QInit == Init => QInv
<1> SUFFICES ASSUME Init PROVE QInv
  OBVIOUS
<1>1. /\ calls = <<>> /\ listed = {} /\ Range(calls) = {} /\ Behind(calls) = {}
      /\ Range(queue) = {} /\ IsInjective(queue)
  BY NoEntries DEF Init
<1>2. \A v \in Videos : ~Asked(v)
  BY <1>1 DEF Asked
<1> QED BY <1>1, <1>2 DEF QInv, QOf, Stacked

LEMMA QStep == TInv /\ Traces /\ QInv /\ Orderly /\ [Next]_vars => QInv' /\ Orderly'
<1> SUFFICES ASSUME TInv, Traces, QInv, Orderly, [Next]_vars PROVE QInv' /\ Orderly'
  OBVIOUS
<1>1. ASSUME NEW v \in Videos, Body(v) PROVE QInv' /\ Orderly'
  <2>1. QInv'
    BY <1>1, QueueDownloadQ, NextQ, ItemQ, AddClipQ, ItemCompleteQ, CompleteQ, EraseQ,
       CountQ, ResumeQ DEF Body
  <2> QED BY <1>1, <2>1, BodyIsSeen DEF BodySeen, Orderly, May
<1>2. CASE /\ SamePairs /\ world' = world
           /\ \/ \E v \in Videos : User(v) \/ ProcessSchedule(v)
              \/ PauseAll \/ ResumeAll \/ Notify
              \/ \E h \in DOMAIN pairs : TransferStep(h)
              \/ UNCHANGED vars
  <2>1. \A v : Traced(v)' <=> Traced(v)
    BY <1>2, TracedSame
  <2>2. ASSUME listed' = listed, item' = item, queue' = queue, calls' = calls PROVE QInv'
    BY <1>2, <2>1, <2>2, QueueAlone
  <2>3. ASSUME NEW v \in Videos, User(v) PROVE QInv'
    BY <2>3, AddQ, StartQ, RemoveQ, PauseQ, ResumeCallsQ DEF User
  <2>4. ASSUME NEW v \in Videos, ProcessSchedule(v) PROVE QInv'
    BY <2>2, <2>4, ScheduleDoes
  <2>5. ASSUME NEW h \in DOMAIN pairs, TransferStep(h) PROVE QInv'
    BY <2>2, <2>5, TransferDoes
  <2>6. ASSUME UNCHANGED vars PROVE QInv'
    <3>1. listed' = listed /\ item' = item /\ queue' = queue /\ calls' = calls
      BY <2>6 DEF vars
    <3> QED BY <2>2, <3>1
  <2>7. Orderly'
    BY <1>2 DEF Orderly, May
  <2> QED BY <1>2, <2>3, <2>4, <2>5, <2>6, <2>7, PauseQ, ResumeCallsQ, NotifyQ
<1> QED BY <1>1, <1>2, OtherSteps

LEMMA QueueIsRange ==
    ASSUME TInv PROVE Queued = Range(queue)
BY SeqEntries DEF TInv, Queued, Range

LEMMA AgreesAtRest ==
    ASSUME TInv, QInv PROVE QueueAgrees
<1>1. Queued = Range(queue) /\ Cardinality(Range(queue)) = Len(queue)
  BY QueueIsRange, DistinctLength DEF TInv, QInv
<1>2. Range(queue) \subseteq listed
  BY SeqEntries DEF TInv, QInv, QOf
<1>3. ASSUME AtRest, NEW v \in listed PROVE Is(v, "QUEUED") <=> v \in Range(queue)
  <2>1. ~Asked(v) /\ ~Erasing(v)
    BY <1>3, NoEntries DEF AtRest, Asked, Erasing
  <2> QED BY <1>3, <2>1 DEF TInv, QInv, QOf
<1> QED BY <1>1, <1>2, <1>3 DEF QueueAgrees

(* The queue and the flag QUEUED agree, for any videos, slots and alerts, in *)
(* every world where a deleted video is not added again and "Start" is not   *)
(* chosen from an old menu: no call of the user, alert, failed transfer, and *)
(* no full disk, lets a download wait in the queue twice, or carry the flag  *)
(* and not be there (FDownloadMgr.cpp:197-243, 514-581).                     *)
THEOREM QueueAlwaysAgrees == Spec => []QueueAgrees
<1> DEFINE Two == Without({"add-again", "stale-start"})
<1>1. Init /\ Two => Orderly
  BY DEF Without, Orderly, May
<1>2. [Next]_vars /\ TInv /\ ~Two => ~Two'
  <2>1. TInv /\ [Next]_vars => world' = world
    BY BodyIsSeen, OtherSteps DEF BodySeen
  <2> QED BY <2>1 DEF Without
<1>3. ~Two => QueueAgrees
  BY DEF QueueAgrees
<1>4. TInv /\ QInv => QueueAgrees
  BY AgreesAtRest
<1> HIDE DEF Two
<1>5. Spec => []TInv
  BY TInit, TStep, PTL DEF Spec
<1>6. Spec => []Traces
  BY <1>5, TracesInit, TracesStep, PTL DEF Spec
<1>7. Spec /\ Orderly => []QInv
  BY <1>5, <1>6, QInit, QStep, PTL DEF Spec
<1>8. Spec /\ ~Two => []~Two
  BY <1>2, <1>5, PTL DEF Spec
<1> QED BY <1>1, <1>3, <1>4, <1>5, <1>7, <1>8, PTL DEF Spec

-----------------------------------------------------------------------------
(* The slots.  While the disk has room, a download waits only when every     *)
(* slot is taken, or when the slot that was just given back is about to go   *)
(* to the download that left the queue for it.                               *)
Roomy == Orderly /\ ~May("disk")

Promised(v) == v \in listed /\ Asked(v) /\ Is(v, "QUEUED")

SlotsTaken ==
    queue # <<>> =>
        \/ active >= MaxDownloads
        \/ active >= MaxDownloads - 1 /\ \E v \in Videos : Promised(v)

LEMMA NoShortage == ASSUME Roomy, NEW v PROVE FreeSpace(v) = {TRUE}
BY DEF Roomy, FreeSpace

(* A step that gives back no slot, puts nothing in the queue and leaves the  *)
(* promise alone.                                                            *)
LEMMA NoSlotLost ==
    ASSUME TInv, TInv', SlotsTaken, active' >= active,
           queue' # <<>> => queue # <<>>,
           \/ \A v \in Videos : ~Promised(v)
           \/ active' > active
    PROVE  SlotsTaken'
BY Settings DEF SlotsTaken, TInv

LEMMA OneAsked ==
    ASSUME TInv, NEW f, NEW v \in Videos, Doing(f, v), NEW w, Asked(w)
    PROVE  f = "QueueDownload" /\ w = v
BY DEF Doing, Asked

LEMMA QueueDownloadS ==
    ASSUME TInv, QInv, Roomy, SlotsTaken, NEW v \in Videos, QueueDownload(v)
    PROVE  SlotsTaken'
<1>1. /\ active \in Int /\ active' \in Int /\ MaxDownloads \in Nat
      /\ Doing("QueueDownload", v) /\ QOf(v) /\ FreeSpace(v) = {TRUE}
  BY QueueDownloadDoes, Settings, NoShortage DEF TInv, QInv, QueueDownload
<1>2. queue # <<>> => \/ active >= MaxDownloads
                      \/ active >= MaxDownloads - 1 /\ v \in listed /\ Is(v, "QUEUED")
  BY <1>1, OneAsked DEF SlotsTaken, Promised
<1>3. v \in listed /\ Is(v, "QUEUED") =>
         ~Is(v, "FINISHED") /\ ~IsStream(v) /\ ~Is(v, "PAUSED")
  BY <1>1 DEF QOf
<1>4. \/ /\ Is(v, "FINISHED") \/ IsStream(v) \/ Is(v, "PAUSED")
         /\ active' = active /\ queue' = queue
      \/ active' = active + 1 /\ queue' = queue
      \/ active' = active /\ ~(active < MaxDownloads)
  BY <1>1, QueueDownloadDoes
<1> QED BY <1>1, <1>2, <1>3, <1>4 DEF SlotsTaken

(* The slot that a download gives back is promised to the head of the queue. *)
LEMMA SlotPassedOn ==
    ASSUME TInv, TInv', SlotsTaken, \A w \in Videos : ~Promised(w), queue # <<>>,
           active' = active - 1, NEW h \in Videos, Promised(h)'
    PROVE  SlotsTaken'
<1>1. active \in Int /\ MaxDownloads \in Nat /\ active >= MaxDownloads
  BY Settings DEF TInv, SlotsTaken
<1>2. active' >= MaxDownloads - 1
  BY <1>1
<1> QED BY <1>2 DEF SlotsTaken

LEMMA CompleteS ==
    ASSUME TInv, QInv, Roomy, SlotsTaken, NEW v \in Videos, OnDownloadComplete(v)
    PROVE  SlotsTaken'
<1>1. /\ Doing("OnDownloadComplete", v) /\ TInv' /\ active \in Int
      /\ "OnDownloadComplete" \in AtWork
  BY CompleteDoes DEF OnDownloadComplete, AtWork, TInv
<1>2. \A w \in Videos : ~Promised(w)
  BY <1>1, OneAsked DEF Promised
<1>3. /\ UNCHANGED <<listed, pairs>>
      /\ \A w \in Videos : w # v => item'[w] = item[w]
      /\ \/ active' = active /\ queue' = queue
         \/ queue' = queue /\ (queue = <<>> \/ FALSE \in FreeSpace(Head(queue)))
         \/ /\ queue # <<>> /\ active' = active - 1 /\ queue' = Tail(queue)
            /\ Then(<<Call("QueueDownload", Head(queue))>>)
  BY CompleteDoes DEF Reflagged
<1>4. CASE active' = active /\ queue' = queue
  BY <1>1, <1>2, <1>4, NoSlotLost
<1>5. CASE queue' = queue /\ (queue = <<>> \/ FALSE \in FreeSpace(Head(queue)))
  BY <1>5, NoShortage DEF SlotsTaken
<1>6. CASE /\ queue # <<>> /\ active' = active - 1 /\ queue' = Tail(queue)
           /\ Then(<<Call("QueueDownload", Head(queue))>>)
  <2>1. PICK h \in Videos : h = Head(queue) /\ h \in Range(queue)
    BY <1>6, HeadAndTail DEF TInv
  <2>2. h # v /\ h \in listed /\ Is(h, "QUEUED")
    BY <1>1, <2>1, NotWaiting DEF QInv, QOf
  <2> DEFINE c == Call("QueueDownload", h)
  <2>3. c \in CallSet /\ c.do = "QueueDownload" /\ c.v = h /\ Then(<<c>>)
    BY <1>6, <2>1, CallsTyped, CallFields DEF OfVideo
  <2> HIDE DEF c
  <2>4. calls' # <<>> /\ Head(calls') = c
    BY <1>1, <2>3, DoingIs, ThenCall
  <2>5. Promised(h)'
    BY <1>3, <2>2, <2>3, <2>4 DEF Promised, Asked, Is
  <2> QED BY <1>1, <1>2, <1>6, <2>5, SlotPassedOn
<1> QED BY <1>3, <1>4, <1>5, <1>6

LEMMA RemoveS ==
    ASSUME TInv, QInv, Roomy, SlotsTaken, NEW v \in Videos, RemoveDownload(v)
    PROVE  SlotsTaken'
<1> DEFINE W == Unqueued(v)
<1>1. /\ TInv' /\ listed' = listed /\ calls = <<>>
      /\ \A w \in Videos : w # v => item'[w] = item[w]
  BY RemoveDoes DEF Reflagged
<1>2. /\ W \in Seq(Videos) /\ Range(W) = Range(queue) \ {v}
      /\ W # <<>> => queue # <<>>
  <2>1. W \in Seq(Videos) /\ Range(W) = Range(queue) \ {v}
    BY RemovedFirst DEF TInv, QInv, Unqueued
  <2>2. W # <<>> => Range(W) # {}
    BY <2>1, HeadAndTail
  <2> QED BY <2>1, <2>2, NoEntries
<1>3. \A w \in Videos : ~Promised(w)
  BY <1>1 DEF Promised, Asked
<1>4. \/ \E h \in Videos :
            LET ask == Call("QueueDownload", h)
                erase == Call("EraseDownload", v) IN
             /\ W # <<>> /\ Head(W) = h /\ active' = active - 1
             /\ calls' = <<ask, erase>> \/ calls' = <<ask>>
      \/ queue' = W /\ (queue' # <<>> => active' = active)
  BY RemoveDoes
<1> HIDE DEF W
<1>5. CASE queue' = W /\ (queue' # <<>> => active' = active)
  BY <1>1, <1>2, <1>3, <1>5, Settings DEF SlotsTaken, TInv
<1>6. ASSUME NEW h \in Videos, W # <<>>, Head(W) = h, active' = active - 1,
             \/ calls' = <<Call("QueueDownload", h), Call("EraseDownload", v)>>
             \/ calls' = <<Call("QueueDownload", h)>>
      PROVE  SlotsTaken'
  <2> DEFINE ask == Call("QueueDownload", h)
             erase == Call("EraseDownload", v)
  <2>1. /\ ask \in CallSet /\ ask.v = h /\ ask.do = "QueueDownload"
        /\ erase \in CallSet
    BY CallsTyped, CallFields DEF OfVideo
  <2>2. calls' = <<ask, erase>> \/ calls' = <<ask>>
    BY <1>6
  <2> HIDE DEF ask, erase
  <2>3. calls' # <<>> /\ Head(calls') = ask
    BY <2>1, <2>2, OneEntry, TwoEntries
  <2>4. h \in Range(W)
    BY <1>2, <1>6, HeadAndTail
  <2>5. h # v /\ h \in listed /\ Is(h, "QUEUED")
    BY <1>2, <2>4 DEF QInv, QOf
  <2>6. Promised(h)'
    BY <1>1, <2>1, <2>3, <2>5 DEF Promised, Asked, Is
  <2> QED BY <1>1, <1>2, <1>3, <1>6, <2>6, SlotPassedOn
<1> QED BY <1>4, <1>5, <1>6

LEMMA StartS ==
    ASSUME TInv, QInv, SlotsTaken, NEW v \in Videos, StartQueuedDownload(v)
    PROVE  SlotsTaken'
<1>1. /\ TInv' /\ active' = active /\ calls = <<>>
      /\ queue' = Unqueued(v) \/ queue' = queue
  BY StartDoes
<1>2. queue' # <<>> => queue # <<>>
  <2>1. Range(queue') \subseteq Range(queue)
    BY <1>1, RemovedFirst DEF TInv, Unqueued
  <2>2. queue' # <<>> => Range(queue') # {}
    <3>1. PICK q \in Seq(Videos) : q = queue'
      BY <1>1 DEF TInv
    <3>2. ASSUME q # <<>> PROVE Head(q) \in Range(q)
      BY <3>2, HeadAndTail
    <3> QED BY <3>1, <3>2
  <2> QED BY <2>1, <2>2, NoEntries
<1>3. \A w \in Videos : ~Promised(w)
  BY <1>1 DEF Promised, Asked
<1>4. active' >= active
  BY <1>1 DEF TInv
<1> QED BY <1>1, <1>2, <1>3, <1>4, NoSlotLost

LEMMA SInit == Init => SlotsTaken
BY DEF Init, SlotsTaken

LEMMA SStep ==
    TInv /\ Traces /\ QInv /\ Roomy /\ SlotsTaken /\ [Next]_vars => SlotsTaken' /\ Roomy'
<1> SUFFICES ASSUME TInv, Traces, QInv, Roomy, SlotsTaken, [Next]_vars
             PROVE  SlotsTaken' /\ Roomy'
  OBVIOUS
<1>0. TInv' /\ active \in Int
  BY TStep DEF TInv
<1>1. ASSUME \A w \in Videos : ~Promised(w), queue' = queue,
             active' = active \/ active' = active + 1
      PROVE  SlotsTaken'
  BY <1>0, <1>1, NoSlotLost
<1>2. ASSUME calls = <<>> PROVE \A w \in Videos : ~Promised(w)
  BY <1>2 DEF Promised, Asked
<1>3. ASSUME NEW f, NEW v \in Videos, Doing(f, v), f # "QueueDownload"
      PROVE  \A w \in Videos : ~Promised(w)
  BY <1>3, OneAsked DEF Promised
<1>4. ASSUME NEW v \in Videos, Body(v) PROVE SlotsTaken' /\ Roomy'
  <2>1. ASSUME QueueNextDownloadItem(v) \/ QueueDownloadItem(v) \/ AddClip(v)
               \/ OnItemComplete(v) \/ EraseDownload(v) \/ CountTorrentFound(v)
               \/ ResumeStep(v)
        PROVE  SlotsTaken'
    <3>1. queue' = queue /\ (active' = active \/ active' = active + 1)
      BY <2>1, QueueNextDoes, QueueItemDoes, AddClipDoes, ItemCompleteDoes, EraseDoes,
         CountDoes, ResumeDoes
    <3>2. \/ Doing("QueueNextDownloadItem", v) \/ Doing("QueueDownloadItem", v)
          \/ Doing("AddClip", v) \/ Doing("OnItemComplete", v)
          \/ Doing("EraseDownload", v) \/ Doing("CountTorrentFound", v)
          \/ Doing("Resume", v)
      BY <2>1 DEF QueueNextDownloadItem, QueueDownloadItem, AddClip, OnItemComplete,
                  EraseDownload, CountTorrentFound, ResumeStep
    <3>3. \A w \in Videos : ~Promised(w)
      BY <1>3, <3>2
    <3> QED BY <1>1, <3>1, <3>3
  <2>2. SlotsTaken'
    BY <1>4, <2>1, QueueDownloadS, CompleteS DEF Body
  <2>3. Roomy'
    BY <1>4, BodyIsSeen DEF BodySeen, Roomy, Orderly, May
  <2> QED BY <2>2, <2>3
<1>5. CASE /\ SamePairs /\ world' = world
           /\ \/ \E v \in Videos : User(v) \/ ProcessSchedule(v)
              \/ PauseAll \/ ResumeAll \/ Notify
              \/ \E h \in DOMAIN pairs : TransferStep(h)
              \/ UNCHANGED vars
  <2>1. ASSUME calls = <<>>, queue' = queue, active' = active PROVE SlotsTaken'
    BY <1>1, <1>2, <2>1
  <2>2. ASSUME listed' = listed, item' = item, queue' = queue, calls' = calls,
               active' = active
        PROVE  SlotsTaken'
    <3>1. \A v : Promised(v)' <=> Promised(v)
      BY <2>2 DEF Promised, Asked, Is
    <3> QED BY <2>2, <3>1 DEF SlotsTaken
  <2>3. ASSUME NEW v \in Videos, User(v) PROVE SlotsTaken'
    <3>1. CASE AddDownload(v)
      BY <2>1, <3>1, AddDoes
    <3>2. CASE PauseDownload(v)
      BY <2>1, <3>2, PauseDoes
    <3>3. CASE ResumeDownload(v)
      BY <2>1, <3>3, ResumeCallsDo
    <3> QED BY <2>3, <3>1, <3>2, <3>3, StartS, RemoveS DEF User
  <2>4. ASSUME NEW v \in Videos, ProcessSchedule(v) PROVE SlotsTaken'
    BY <2>2, <2>4, ScheduleDoes
  <2>5. ASSUME PauseAll \/ ResumeAll PROVE SlotsTaken'
    BY <2>1, <2>5, PauseAllDoes, ResumeCallsDo
  <2>6. ASSUME Notify PROVE SlotsTaken'
    BY <2>1, <2>6, ItemRemovedDoes, FinishedDoes, TorrentFoundDoes, ScheduledDoes DEF Notify
  <2>7. ASSUME NEW h \in DOMAIN pairs, TransferStep(h) PROVE SlotsTaken'
    BY <2>2, <2>7, TransferDoes
  <2>8. ASSUME UNCHANGED vars PROVE SlotsTaken'
    <3>1. /\ listed' = listed /\ item' = item /\ queue' = queue
          /\ calls' = calls /\ active' = active
      BY <2>8 DEF vars
    <3> QED BY <2>2, <3>1
  <2>9. Roomy'
    BY <1>5 DEF Roomy, Orderly, May
  <2> QED BY <1>5, <2>3, <2>4, <2>5, <2>6, <2>7, <2>8, <2>9
<1> QED BY <1>4, <1>5, OtherSteps

(* No slot stays empty while a download waits, in every world where the disk *)
(* has room and a deleted video is not added again: between calls, whoever   *)
(* waits in m_QueuedDownloads waits for MaxDownloads others                  *)
(* (FDownloadMgr.cpp:545-558, 1026-1031).                                    *)
THEOREM SlotsAreUsed == Spec => []WorkConserving
<1> DEFINE Two == Without({"disk", "add-again"})
<1>1. Two <=> Roomy
  BY DEF Without, Roomy, Orderly, May
<1>2. [Next]_vars /\ TInv /\ ~Two => ~Two'
  <2>1. TInv /\ [Next]_vars => world' = world
    BY BodyIsSeen, OtherSteps DEF BodySeen
  <2> QED BY <2>1 DEF Without
<1>3. ~Two => WorkConserving
  BY DEF WorkConserving
<1>4. SlotsTaken => WorkConserving
  BY DEF SlotsTaken, Promised, Asked, AtRest, WorkConserving
<1> HIDE DEF Two
<1>5. Spec => []TInv
  BY TInit, TStep, PTL DEF Spec
<1>6. Spec => []Traces
  BY <1>5, TracesInit, TracesStep, PTL DEF Spec
<1>7. Roomy => Orderly
  BY DEF Roomy
<1>8. Spec /\ Orderly => []QInv
  BY <1>5, <1>6, QInit, QStep, PTL DEF Spec
<1>9. Spec /\ Roomy => []SlotsTaken
  BY <1>5, <1>6, <1>7, <1>8, SInit, SStep, PTL DEF Spec
<1>10. Spec /\ ~Two => []~Two
  BY <1>2, <1>5, PTL DEF Spec
<1> QED BY <1>1, <1>3, <1>4, <1>9, <1>10, PTL DEF Spec
=============================================================================
