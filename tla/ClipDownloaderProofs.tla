------------------------- MODULE ClipDownloaderProofs -------------------------
(***************************************************************************)
(* Results on FClipDownloaderEx, for any clips, any size of the session,   *)
(* any number of calls and any order of results, alerts and checks.        *)
(***************************************************************************)
EXTENDS ClipDownloader, SequenceLemmas

Pair == [of : Files \cup Torrents, done : BOOLEAN, paused : BOOLEAN, handle : BOOLEAN,
         started : {"never", "lately", "long ago"}, given : BOOLEAN]

Place   == [at : {"out", "checking", "leeching", "seeding"}, paused : BOOLEAN]
Net     == {"none", "running", "paused", "stopping", "ended"}
Work    == [Stages -> Nat]
Said    == {"nothing", "finished", "failed", "removed", "late"}
Results == [h : Handles, hr : {"S_OK", "E_FAIL", "E_ABORT"}]

(* The types, with what is implicit in TypeOK: pairs, net, work and told are *)
(* sequences of the same length.                                             *)
TInv ==
    /\ pairs \in Seq(Pair) /\ Len(pairs) <= MaxAdds
    /\ net \in Seq(Net) /\ Len(net) = Len(pairs)
    /\ work \in Seq(Work) /\ Len(work) = Len(pairs)
    /\ freed \subseteq Handles
    /\ told \in Seq(Said) /\ Len(told) = Len(pairs)
    /\ downloads \subseteq Handles
    /\ iqueue \in Seq(Handles)
    /\ cqueue \in Seq(Handles)
    /\ swarm \in [Torrents -> Place]
    /\ lib \in Seq(LibAlert)
    /\ http \in Seq(Results) /\ Len(http) <= HttpCapacity
    /\ handling \in LibAlert \cup {None}
    /\ complete \subseteq Torrents
    /\ world \in Worlds
    /\ phase \in {"running", "joined", "stopped"}
    /\ swapped \in BOOLEAN
    /\ outpaced \in BOOLEAN
    /\ calls \in 0..world.calls

LEMMA Shape ==
    ASSUME TInv
    PROVE  /\ Handles = 1..Len(pairs) /\ Len(pairs) \in Nat
           /\ pairs \in [Handles -> Pair]
           /\ net \in [Handles -> Net]
           /\ work \in [Handles -> Work]
           /\ told \in [Handles -> Said]
<1>1. Handles = 1..Len(pairs) /\ Len(pairs) \in Nat
  BY SeqEntries DEF TInv, Handles
<1>2. /\ pairs \in [1..Len(pairs) -> Pair] /\ net \in [1..Len(net) -> Net]
      /\ work \in [1..Len(work) -> Work] /\ told \in [1..Len(told) -> Said]
  BY LenProperties DEF TInv
<1> QED BY <1>1, <1>2 DEF TInv

LEMMA Typed == TInv => TypeOK
<1> SUFFICES ASSUME TInv PROVE TypeOK
  OBVIOUS
<1>1. ASSUME NEW h \in Handles PROVE pairs[h] \in Pair
  BY <1>1, Shape
<1>2. /\ \A h \in Handles :
            /\ pairs[h].of \in Files \cup Torrents
            /\ pairs[h].started \in {"never", "lately", "long ago"}
            /\ pairs[h].done \in BOOLEAN /\ pairs[h].paused \in BOOLEAN
            /\ pairs[h].handle \in BOOLEAN /\ pairs[h].given \in BOOLEAN
  BY <1>1 DEF Pair
<1>3. net \in [Handles -> Net] /\ told \in [Handles -> Said] /\ work \in [Handles -> Work]
  BY Shape
<1> QED BY <1>2, <1>3 DEF TInv, TypeOK, Place, Net, Work, Said, Results

(* A function on the handles is a sequence as long as pairs.                 *)
LEMMA PerHandle ==
    ASSUME TInv, NEW S, NEW q \in [Handles -> S]
    PROVE  q \in Seq(S) /\ Len(q) = Len(pairs) /\ DOMAIN q = Handles
<1>1. Handles = 1..Len(pairs) /\ Len(pairs) \in Nat
  BY Shape
<1>2. q \in Seq(S)
  BY <1>1, SeqDef
<1>3. DOMAIN q = 1..Len(q) /\ Len(q) \in Nat
  BY <1>2, SeqEntries
<1>4. 1..Len(q) = 1..Len(pairs)
  BY <1>1, <1>3
<1>5. Len(q) = Len(pairs)
  BY <1>1, <1>3, <1>4
<1> QED BY <1>1, <1>2, <1>5

(* What a step that adds no pair has to establish.                           *)
Steps ==
    /\ pairs' \in [Handles -> Pair]
    /\ net' \in [Handles -> Net]
    /\ work' \in [Handles -> Work]
    /\ freed' \subseteq Handles
    /\ told' \in [Handles -> Said]
    /\ downloads' \subseteq Handles
    /\ iqueue' \in Seq(Handles)
    /\ cqueue' \in Seq(Handles)
    /\ swarm' \in [Torrents -> Place]
    /\ lib' \in Seq(LibAlert)
    /\ http' \in Seq(Results) /\ Len(http') <= HttpCapacity
    /\ handling' \in LibAlert \cup {None}
    /\ complete' \subseteq Torrents
    /\ world' \in Worlds
    /\ phase' \in {"running", "joined", "stopped"}
    /\ swapped' \in BOOLEAN
    /\ outpaced' \in BOOLEAN
    /\ calls' \in 0..world'.calls

LEMMA Stepped ==
    ASSUME TInv, Steps PROVE TInv' /\ Handles' = Handles
<1>1. /\ pairs' \in Seq(Pair) /\ Len(pairs') = Len(pairs) /\ DOMAIN pairs' = Handles
      /\ net' \in Seq(Net) /\ Len(net') = Len(pairs)
      /\ work' \in Seq(Work) /\ Len(work') = Len(pairs)
      /\ told' \in Seq(Said) /\ Len(told') = Len(pairs)
  BY PerHandle DEF Steps
<1>2. Handles' = Handles
  BY <1>1 DEF Handles
<1> QED BY <1>1, <1>2 DEF TInv, Steps, Results

(* Nothing needs to be said of what does not change.                         *)
LEMMA Unstepped ==
    ASSUME TInv
    PROVE  /\ pairs \in [Handles -> Pair] /\ net \in [Handles -> Net]
           /\ work \in [Handles -> Work] /\ freed \subseteq Handles
           /\ told \in [Handles -> Said] /\ downloads \subseteq Handles
           /\ iqueue \in Seq(Handles) /\ cqueue \in Seq(Handles)
           /\ swarm \in [Torrents -> Place] /\ lib \in Seq(LibAlert)
           /\ http \in Seq(Results) /\ Len(http) <= HttpCapacity
           /\ handling \in LibAlert \cup {None} /\ complete \subseteq Torrents
           /\ world \in Worlds /\ phase \in {"running", "joined", "stopped"}
           /\ swapped \in BOOLEAN /\ outpaced \in BOOLEAN /\ calls \in 0..world.calls
BY Shape DEF TInv

-----------------------------------------------------------------------------
(* The session of libtorrent, as the checks of the queues see it.            *)
Sessions ==
    [pairs : [Handles -> Pair], swarm : [Torrents -> Place], told : [Handles -> Said],
     cqueue : Seq(Handles), lib : Seq(LibAlert)]

LEMMA HeardTyped ==
    ASSUME NEW was \in Said, NEW code \in {"finished", "failed", "removed", "other"}
    PROVE  Heard(was, code) \in Said
BY DEF Heard, Said

LEMMA SessionTyped == ASSUME TInv PROVE Session \in Sessions
BY Shape DEF Session, Sessions, TInv

(* AddTorrent does nothing, finds the torrent in the session, or adds it.    *)
LEMMA AddTorrentDoes ==
    ASSUME TInv, NEW s \in Sessions, NEW h \in Handles,
           NEW t \in Torrents, t = s.pairs[h].of, NEW r, r = AddTorrent(s, h)
    PROVE  /\ r \in Sessions /\ r.cqueue = s.cqueue /\ r.lib = s.lib
           /\ \/ r = s /\ (h \notin downloads \/ t \in world.unreadable)
              \/ /\ s.swarm[t].at # "out" /\ h \in downloads
                 /\ r.pairs = [s.pairs EXCEPT ![h].handle = FALSE]
                 /\ r.swarm = s.swarm /\ r.told = s.told
              \/ /\ s.swarm[t].at = "out" /\ h \in downloads
                 /\ t \notin world.unreadable
                 /\ r.pairs = [s.pairs EXCEPT ![h].handle = TRUE]
                 /\ r.swarm = [s.swarm EXCEPT
                      ![t] = [at |-> "checking", paused |-> s.pairs[h].paused]]
                 /\ r.told = [s.told EXCEPT ![h] = Heard(@, "other")]
<1>1. CASE h \notin downloads \/ t \in world.unreadable
  <2>1. r = s
    BY <1>1 DEF AddTorrent
  <2> QED BY <1>1, <2>1
<1>2. CASE h \in downloads /\ t \notin world.unreadable /\ s.swarm[t].at # "out"
  <2>1. r = [s EXCEPT !.pairs[h].handle = FALSE]
    BY <1>2 DEF AddTorrent
  <2>2. [s.pairs EXCEPT ![h].handle = FALSE] \in [Handles -> Pair]
    BY DEF Sessions, Pair
  <2>3. /\ r \in Sessions /\ r.cqueue = s.cqueue /\ r.lib = s.lib
        /\ r.pairs = [s.pairs EXCEPT ![h].handle = FALSE]
        /\ r.swarm = s.swarm /\ r.told = s.told
    BY <2>1, <2>2 DEF Sessions
  <2> QED BY <1>2, <2>3
<1>3. CASE h \in downloads /\ t \notin world.unreadable /\ s.swarm[t].at = "out"
  <2> DEFINE place == [at |-> "checking", paused |-> s.pairs[h].paused]
             heard == Heard(s.told[h], "other")
  <2>1. r = [s EXCEPT !.pairs[h].handle = TRUE, !.swarm[t] = place, !.told[h] = heard]
    BY <1>3 DEF AddTorrent, Sessions
  <2>2. [s.pairs EXCEPT ![h].handle = TRUE] \in [Handles -> Pair] /\ place \in Place
    <3>1. s.pairs \in [Handles -> Pair] /\ s.pairs[h] \in Pair
      BY DEF Sessions
    <3>2. s.pairs[h].paused \in BOOLEAN
      BY <3>1 DEF Pair
    <3> QED BY <3>1, <3>2 DEF Pair, Place
  <2>3. heard \in Said
    BY HeardTyped DEF Sessions
  <2> HIDE DEF place, heard
  <2>4. /\ [s.swarm EXCEPT ![t] = place] \in [Torrents -> Place]
        /\ [s.told EXCEPT ![h] = heard] \in [Handles -> Said]
    BY <2>2, <2>3 DEF Sessions
  <2>5. /\ r \in Sessions /\ r.cqueue = s.cqueue /\ r.lib = s.lib
        /\ r.pairs = [s.pairs EXCEPT ![h].handle = TRUE]
        /\ r.swarm = [s.swarm EXCEPT ![t] = place]
        /\ r.told = [s.told EXCEPT ![h] = heard]
    BY <2>1, <2>2, <2>4 DEF Sessions
  <2> QED BY <1>3, <2>5 DEF place, heard
<1> QED BY <1>1, <1>2, <1>3

LEMMA OutTyped ==
    ASSUME NEW s \in [Torrents -> Place], NEW t \in Torrents
    PROVE  /\ Out(s, t) \in [Torrents -> Place]
           /\ Out(s, t)[t].at = "out"
           /\ \A u \in Torrents : u # t => Out(s, t)[u] = s[u]
BY DEF Out, Place

LEMMA StoppedTyped ==
    ASSUME NEW l \in Seq(LibAlert), NEW t \in Torrents
    PROVE  Stopped(l, t) \subseteq Seq(LibAlert)
<1>1. [kind |-> "stopped", of |-> t] \in LibAlert
  BY DEF LibAlert
<1>2. Append(l, [kind |-> "stopped", of |-> t]) \in Seq(LibAlert)
  BY <1>1, Appended
<1> QED BY <1>2 DEF Stopped

(* RemoveCompletedTorrent takes one seed out, or none.                       *)
LEMMA EvictionsDo ==
    ASSUME TInv, NEW s \in Evictions
    PROVE  /\ s \in Sessions /\ s.pairs = pairs /\ s.told = told
           /\ \/ /\ s = Session
                 /\ ~Full \/ \A t \in SwarmSet : ~IsSeed(t) \/ Owners(pairs, t) = {}
              \/ \E t \in SwarmSet, g \in downloads :
                    /\ Full /\ IsSeed(t)
                    /\ pairs[g].handle /\ pairs[g].of = t
                    /\ s.cqueue = Append(cqueue, g)
                    /\ s.swarm = Out(swarm, t)
<1> DEFINE seeds == {t \in SwarmSet : IsSeed(t) /\ Owners(pairs, t) # {}}
<1>1. CASE ~Full \/ seeds = {}
  <2>1. s = Session
    BY <1>1 DEF Evictions
  <2> QED BY <1>1, <2>1, SessionTyped DEF Session
<1>2. CASE Full /\ seeds # {}
  <2>1. s \in UNION {{[Session EXCEPT !.cqueue = Append(@, CHOOSE h \in Owners(pairs, t) : TRUE),
                                      !.swarm = Out(@, t), !.lib = l] : l \in Stopped(lib, t)}
                     : t \in seeds}
    BY <1>2 DEF Evictions
  <2>0. PICK t \in seeds : \E l \in Stopped(lib, t) :
           s = [Session EXCEPT !.cqueue = Append(@, CHOOSE h \in Owners(pairs, t) : TRUE),
                               !.swarm = Out(@, t), !.lib = l]
    BY <2>1
  <2>2. PICK l \in Stopped(lib, t) :
           s = [Session EXCEPT !.cqueue = Append(@, CHOOSE h \in Owners(pairs, t) : TRUE),
                               !.swarm = Out(@, t), !.lib = l]
    BY <2>0
  <2>3. PICK g \in Owners(pairs, t) : g = CHOOSE h \in Owners(pairs, t) : TRUE
    BY <2>2
  <2>4. /\ s.pairs = pairs /\ s.told = told /\ s.cqueue = Append(cqueue, g)
        /\ s.swarm = Out(swarm, t) /\ s.lib = l
        /\ s = [pairs |-> pairs, swarm |-> Out(swarm, t), told |-> told,
                cqueue |-> Append(cqueue, g), lib |-> l]
    BY <2>2, <2>3 DEF Session
  <2>5. g \in downloads /\ g \in Handles /\ pairs[g].handle /\ pairs[g].of = t
    BY <2>3 DEF Owners, TInv
  <2>6. t \in Torrents /\ t \in SwarmSet /\ IsSeed(t)
    BY <2>2 DEF SwarmSet
  <2>7. Append(cqueue, g) \in Seq(Handles)
    BY <2>5, Appended DEF TInv
  <2>8. Out(swarm, t) \in [Torrents -> Place] /\ l \in Seq(LibAlert)
    BY <2>2, <2>6, OutTyped, StoppedTyped DEF TInv
  <2>9. s \in Sessions
    BY <2>4, <2>7, <2>8, Shape DEF Sessions
  <2> QED BY <1>2, <2>4, <2>5, <2>6, <2>9
<1> QED BY <1>1, <1>2

(* A turn of the loop that has something to do.                              *)
LEMMA SwapDoes ==
    ASSUME TInv, NEW s \in Sessions, NEW t \in Torrents, NEW h \in Handles, NEW quiet,
           Eligible(s, t), s.pairs[h].of \in Torrents, h \in downloads, s.cqueue # <<>>
    PROVE  \E s2 \in Sessions :
              /\ s2.told = s.told /\ s2.cqueue = s.cqueue
              /\ s2.swarm = Out(s.swarm, t)
              /\ \A g \in Handles :
                    /\ s2.pairs[g].of = s.pairs[g].of
                    /\ s2.pairs[g].given = s.pairs[g].given
                    /\ s2.pairs[g].paused = s.pairs[g].paused
                    /\ s2.pairs[g].handle = s.pairs[g].handle
              /\ Swap(s, t, h, quiet)
                    = [AddTorrent(s2, h) EXCEPT !.cqueue = Append(Tail(@), h)]
<1> DEFINE g == CHOOSE g \in Owners(s.pairs, t) : TRUE
           gone == [kind |-> "stopped", of |-> t]
           l  == IF t \in quiet THEN s.lib ELSE Append(s.lib, gone)
           p1 == [s.pairs EXCEPT ![g].started = "never"]
           p2 == [p1 EXCEPT ![h].started = "never"]
           s1 == [s EXCEPT !.swarm = Out(@, t), !.lib = l, !.pairs[g].started = "never"]
           s2 == [s1 EXCEPT !.pairs[h].started = "never"]
<1>1. g \in Owners(s.pairs, t)
  BY DEF Eligible
<1>2. g \in Handles
  BY <1>1 DEF Owners, TInv
<1>3. gone \in LibAlert
  BY DEF LibAlert
<1>4. l \in Seq(LibAlert)
  BY <1>3, Appended DEF Sessions
<1>5. Out(s.swarm, t) \in [Torrents -> Place]
  BY OutTyped DEF Sessions
<1>6. Swap(s, t, h, quiet) = [AddTorrent(s2, h) EXCEPT !.cqueue = Append(Tail(@), h)]
  BY DEF Swap
<1> HIDE DEF g, l
<1>7. s.pairs \in [Handles -> Pair]
  BY DEF Sessions
<1>8. /\ p1 \in [Handles -> Pair] /\ p2 \in [Handles -> Pair]
      /\ \A f \in Handles :
            /\ p2[f].of = s.pairs[f].of /\ p2[f].given = s.pairs[f].given
            /\ p2[f].paused = s.pairs[f].paused /\ p2[f].handle = s.pairs[f].handle
  BY <1>2, <1>7 DEF Pair
<1>9. s1 = [s EXCEPT !.swarm = Out(s.swarm, t), !.lib = l, !.pairs = p1]
  BY DEF Sessions
<1>10. /\ s1.pairs = p1 /\ s1.swarm = Out(s.swarm, t) /\ s1.told = s.told
       /\ s1.cqueue = s.cqueue /\ s1.lib = l /\ s1 \in Sessions
  BY <1>4, <1>5, <1>8, <1>9 DEF Sessions
<1> HIDE DEF s1
<1>11. /\ s2.pairs = p2 /\ s2.swarm = Out(s.swarm, t) /\ s2.told = s.told
       /\ s2.cqueue = s.cqueue /\ s2 \in Sessions
  BY <1>8, <1>10 DEF Sessions
<1> QED BY <1>6, <1>8, <1>11

LEMMA OrderIs ==
    ASSUME NEW order \in SetToSeqs(SwarmSet)
    PROVE  \E n \in Nat : /\ n = Len(order) /\ n = Cardinality(SwarmSet)
                          /\ \A i \in 1..n : order[i] \in SwarmSet /\ order[i] \in Torrents
                          /\ \A i, j \in 1..n : order[i] = order[j] => i = j
<1> DEFINE n == Cardinality(SwarmSet)
<1>1. IsFiniteSet(SwarmSet) /\ SwarmSet \subseteq Torrents
  BY FS_Subset, ClipDownloaderAssumption DEF SwarmSet
<1>2. n \in Nat
  BY <1>1, FS_CardinalityType
<1>3. order \in [1..n -> SwarmSet] /\ \A i, j \in 1..n : i # j => order[i] # order[j]
  BY DEF SetToSeqs
<1> HIDE DEF n
<1>4. order \in Seq(SwarmSet)
  BY <1>2, <1>3, SeqDef
<1>5. Len(order) = n
  BY <1>2, <1>3, <1>4, SeqEntries
<1> QED BY <1>1, <1>2, <1>3, <1>5 DEF n

(* The loop: there is a state after each turn, and the last is its result.   *)
LEMMA SwapsRun ==
    ASSUME NEW order, NEW n \in Nat, n = Len(order), NEW quiet
    PROVE  \E after :
              /\ after[0] = Session
              /\ \A i \in 1..n : after[i] = Swap(after[i - 1], order[i], Head(cqueue), quiet)
              /\ Swaps(order, quiet) = after[n]
<1> DEFINE Turn(f, i) == IF i = 0 THEN Session
                         ELSE Swap(f[i - 1], order[i], Head(cqueue), quiet)
           Runs(f, m) == f = [i \in 0..m |-> Turn(f, i)]
           Stuck == {m \in Nat : ~\E f : Runs(f, m)}
<1>1. 0 \notin Stuck
  <2> DEFINE f == [i \in 0..0 |-> Session]
  <2>1. Runs(f, 0)
    <3>1. \A i \in 0..0 : Turn(f, i) = Session
      OBVIOUS
    <3> HIDE DEF Turn
    <3> QED BY <3>1
  <2> QED BY <2>1
<1>2. ASSUME NEW m \in Nat, NEW f, Runs(f, m) PROVE m + 1 \notin Stuck
  <2> DEFINE next == Swap(f[m], order[m + 1], Head(cqueue), quiet)
             g == [i \in 0..m + 1 |-> IF i <= m THEN f[i] ELSE next]
  <2>1. \A i \in 0..m : f[i] = Turn(f, i)
    BY <1>2
  <2>2. \A i \in 0..m : Turn(g, i) = Turn(f, i)
    <3> SUFFICES ASSUME NEW i \in 0..m, i # 0 PROVE g[i - 1] = f[i - 1]
      OBVIOUS
    <3>1. i - 1 \in 0..m + 1 /\ i - 1 <= m
      OBVIOUS
    <3> HIDE DEF next
    <3> QED BY <3>1
  <2>3. Turn(g, m + 1) = next
    <3>1. g[m] = f[m]
      <4> HIDE DEF next
      <4> QED OBVIOUS
    <3>2. m + 1 # 0 /\ (m + 1) - 1 = m
      OBVIOUS
    <3> HIDE DEF g
    <3> QED BY <3>1, <3>2
  <2>4. \A i \in 0..m + 1 : g[i] = Turn(g, i)
    <3> SUFFICES ASSUME NEW i \in 0..m + 1 PROVE g[i] = Turn(g, i)
      OBVIOUS
    <3> HIDE DEF next, Turn
    <3>1. CASE i <= m
      BY <2>1, <2>2, <3>1
    <3>2. CASE i = m + 1
      BY <2>3, <3>2
    <3> QED BY <3>1, <3>2
  <2>5. Runs(g, m + 1)
    <3>1. g = [i \in 0..m + 1 |-> g[i]]
      OBVIOUS
    <3> HIDE DEF g, Turn
    <3> QED BY <2>4, <3>1
  <2> QED BY <2>5
<1>3. Stuck = {}
  <2> SUFFICES ASSUME Stuck # {} PROVE FALSE
    OBVIOUS
  <2>1. PICK m \in Stuck : \A j \in Stuck : m <= j
    BY LeastNumber
  <2>2. m \in Nat /\ m # 0
    BY <1>1
  <2>3. m - 1 \in Nat /\ m - 1 \notin Stuck /\ (m - 1) + 1 = m
    BY <2>1, <2>2
  <2>4. PICK f : Runs(f, m - 1)
    BY <2>3
  <2> HIDE DEF Runs, Stuck
  <2>5. (m - 1) + 1 \notin Stuck
    BY <1>2, <2>3, <2>4
  <2> QED BY <2>1, <2>3, <2>5
<1>4. \E f : Runs(f, n)
  BY <1>3
<1> DEFINE after == CHOOSE f : Runs(f, n)
<1>5. Runs(after, n)
  <2> HIDE DEF Runs
  <2> QED BY <1>4
<1>6. Swaps(order, quiet) = after[n]
  BY DEF Swaps
<1> HIDE DEF after
<1>7. \A i \in 0..n : after[i] = Turn(after, i)
  BY <1>5
<1>8. after[0] = Session
  BY <1>7
<1>9. \A i \in 1..n : after[i] = Swap(after[i - 1], order[i], Head(cqueue), quiet)
  BY <1>7
<1> QED BY <1>6, <1>8, <1>9

-----------------------------------------------------------------------------
(* At most one clip of a name is listed that AddDownload has given a handle; *)
(* only such clips are fetched, queued or handed to libtorrent.              *)
Apart ==
    /\ \A g, h \in downloads :
          pairs[g].given /\ pairs[h].given /\ pairs[g].of = pairs[h].of => g = h
    /\ \A h \in Handles :
          /\ ~pairs[h].given => net[h] = "none" /\ ~Busy(h, Stages)
          /\ pairs[h].handle => pairs[h].given /\ IsTorrent(h)
    /\ \A h \in Range(iqueue) \cup Range(cqueue) : pairs[h].given /\ IsTorrent(h)
    /\ \A r \in Range(http) : pairs[r.h].given

Silent ==
    \A h \in Handles : told[h] # "late" /\ (told[h] = "removed" => h \notin downloads)

Inv == TInv /\ Apart /\ Silent /\ PauseAgrees

(* A state of the session in which pairs are about the same clips, nothing   *)
(* was said of them, and pauses agree.                                       *)
Sound(s) ==
    /\ s \in Sessions
    /\ s.told = told
    /\ \A g \in Handles :
          /\ s.pairs[g].of = pairs[g].of
          /\ s.pairs[g].given = pairs[g].given
          /\ s.pairs[g].paused = pairs[g].paused
          /\ s.pairs[g].handle => pairs[g].given /\ IsTorrent(g)
    /\ \A g \in downloads :
          s.pairs[g].handle /\ s.swarm[pairs[g].of].at # "out" =>
              pairs[g].paused = s.swarm[pairs[g].of].paused
    /\ \A g \in Range(s.cqueue) : pairs[g].given /\ IsTorrent(g)

LEMMA SessionSound == ASSUME Inv PROVE Sound(Session)
BY SessionTyped DEF Inv, Sound, Session, Apart, PauseAgrees, TInv, Valid, InSession

LEMMA EvictionsSound == ASSUME Inv, NEW s \in Evictions PROVE Sound(s)
<1>1. s \in Sessions /\ s.pairs = pairs /\ s.told = told
  BY EvictionsDo DEF Inv
<1>2. CASE s = Session
  BY <1>2, SessionSound
<1>3. ASSUME NEW t \in SwarmSet, NEW g \in downloads, pairs[g].handle, pairs[g].of = t,
             s.cqueue = Append(cqueue, g), s.swarm = Out(swarm, t)
      PROVE  Sound(s)
  <2>1. g \in Handles /\ t \in Torrents /\ pairs[g].given /\ IsTorrent(g)
    BY <1>3 DEF Inv, TInv, Apart, SwarmSet
  <2>2. Range(s.cqueue) = Range(cqueue) \cup {g}
    BY <1>3, <2>1, Appended DEF Inv, TInv
  <2>3. /\ s.swarm[t].at = "out"
        /\ \A u \in Torrents : u # t => s.swarm[u] = swarm[u]
    <3>1. /\ Out(swarm, t)[t].at = "out"
          /\ \A u \in Torrents : u # t => Out(swarm, t)[u] = swarm[u]
      BY <2>1, OutTyped DEF Inv, TInv
    <3> QED BY <1>3, <3>1
  <2>4. Sound(Session)
    BY SessionSound
  <2> QED BY <1>1, <2>1, <2>2, <2>3, <2>4 DEF Sound, Session, IsTorrent, Inv, TInv
<1> QED BY <1>2, <1>3, EvictionsDo DEF Inv

LEMMA HandleSet ==
    ASSUME NEW p \in [Handles -> Pair], NEW h \in Handles, NEW b \in BOOLEAN,
           NEW q, q = [p EXCEPT ![h].handle = b]
    PROVE  \A g \in Handles :
              /\ q[g].of = p[g].of /\ q[g].given = p[g].given /\ q[g].paused = p[g].paused
              /\ q[g].handle = IF g = h THEN b ELSE p[g].handle
BY DEF Pair

LEMMA AddTorrentSound ==
    ASSUME Inv, NEW s, Sound(s), NEW h \in Handles, pairs[h].given, IsTorrent(h)
    PROVE  Sound(AddTorrent(s, h)) /\ AddTorrent(s, h).cqueue = s.cqueue
<1> DEFINE t == s.pairs[h].of
           r == AddTorrent(s, h)
<1>1. s \in Sessions /\ t \in Torrents /\ t = pairs[h].of
  BY DEF Sound, IsTorrent
<1>2. /\ r \in Sessions /\ r.cqueue = s.cqueue
      /\ \/ r = s
         \/ /\ h \in downloads
            /\ r.pairs = [s.pairs EXCEPT ![h].handle = FALSE]
            /\ r.swarm = s.swarm /\ r.told = s.told
         \/ /\ h \in downloads
            /\ r.pairs = [s.pairs EXCEPT ![h].handle = TRUE]
            /\ r.swarm = [s.swarm EXCEPT
                            ![t] = [at |-> "checking", paused |-> s.pairs[h].paused]]
            /\ r.told = [s.told EXCEPT ![h] = Heard(@, "other")]
  BY <1>1, AddTorrentDoes DEF Inv
<1>3. s.pairs \in [Handles -> Pair] /\ s.swarm \in [Torrents -> Place]
  BY <1>1 DEF Sessions
<1> HIDE DEF r, t
<1>4. CASE r = s
  BY <1>4 DEF r
<1>5. CASE /\ h \in downloads
           /\ r.pairs = [s.pairs EXCEPT ![h].handle = FALSE]
           /\ r.swarm = s.swarm /\ r.told = s.told
  <2>1. \A g \in Handles :
           /\ r.pairs[g].of = s.pairs[g].of /\ r.pairs[g].given = s.pairs[g].given
           /\ r.pairs[g].paused = s.pairs[g].paused
           /\ r.pairs[g].handle => s.pairs[g].handle
    BY <1>3, <1>5, HandleSet
  <2>2. downloads \subseteq Handles
    BY DEF Inv, TInv
  <2>3. Sound(r)
    BY <1>2, <1>5, <2>1, <2>2 DEF Sound
  <2> QED BY <1>2, <2>3 DEF r
<1>6. CASE /\ h \in downloads
           /\ r.pairs = [s.pairs EXCEPT ![h].handle = TRUE]
           /\ r.swarm = [s.swarm EXCEPT
                           ![t] = [at |-> "checking", paused |-> s.pairs[h].paused]]
           /\ r.told = [s.told EXCEPT ![h] = Heard(@, "other")]
  <2>1. \A g \in Handles :
           /\ r.pairs[g].of = s.pairs[g].of /\ r.pairs[g].given = s.pairs[g].given
           /\ r.pairs[g].paused = s.pairs[g].paused
           /\ g # h => r.pairs[g].handle = s.pairs[g].handle
    <3>1. PICK p \in [Handles -> Pair] : p = s.pairs
      BY <1>3
    <3>2. PICK q : q = r.pairs
      OBVIOUS
    <3> DEFINE b == TRUE
    <3>3. q = [p EXCEPT ![h].handle = b] /\ b \in BOOLEAN
      BY <1>6, <3>1, <3>2
    <3> HIDE DEF b
    <3>4. \A g \in Handles :
             /\ q[g].of = p[g].of /\ q[g].given = p[g].given /\ q[g].paused = p[g].paused
             /\ g # h => q[g].handle = p[g].handle
      BY <3>3, HandleSet
    <3> QED BY <3>1, <3>2, <3>4
  <2>2. downloads \subseteq Handles
    BY DEF Inv, TInv
  <2>3. r.told = told
    <3>1. told[h] \notin {"removed", "late"} /\ s.told = told
      BY <1>6 DEF Inv, Silent, Sound
    <3>2. Heard(told[h], "other") = told[h]
      BY <3>1 DEF Heard
    <3>3. told \in [Handles -> Said]
      BY Shape DEF Inv
    <3> QED BY <1>6, <3>1, <3>2, <3>3
  <2>4. /\ r.swarm[t].paused = pairs[h].paused
        /\ \A u \in Torrents : u # t => r.swarm[u] = s.swarm[u]
    BY <1>1, <1>3, <1>6 DEF Place, Sound
  <2>5. \A g \in Handles : r.pairs[g].handle => pairs[g].given /\ IsTorrent(g)
    BY <2>1 DEF Sound
  <2>6. ASSUME NEW g \in downloads, r.pairs[g].handle, r.swarm[pairs[g].of].at # "out"
        PROVE  pairs[g].paused = r.swarm[pairs[g].of].paused
    <3>1. CASE pairs[g].of = t
      <4>1. g = h
        BY <1>1, <1>6, <2>2, <2>5, <2>6, <3>1 DEF Inv, Apart
      <4> QED BY <2>4, <3>1, <4>1
    <3>2. CASE pairs[g].of # t
      <4>1. pairs[g].of \in Torrents /\ g # h
        BY <1>1, <2>2, <2>5, <2>6, <3>2 DEF IsTorrent
      <4> QED BY <2>1, <2>2, <2>4, <2>6, <3>2, <4>1 DEF Sound
    <3> QED BY <3>1, <3>2
  <2>7. Sound(r)
    BY <1>2, <2>1, <2>3, <2>5, <2>6 DEF Sound
  <2> QED BY <1>2, <2>7 DEF r
<1> QED BY <1>2, <1>4, <1>5, <1>6

LEMMA SwapSound ==
    ASSUME Inv, NEW s, Sound(s), s.cqueue # <<>>, NEW t \in Torrents,
           NEW h \in downloads, pairs[h].given, IsTorrent(h), NEW quiet
    PROVE  Sound(Swap(s, t, h, quiet)) /\ Swap(s, t, h, quiet).cqueue # <<>>
<1>1. s \in Sessions /\ h \in Handles /\ s.pairs[h].of \in Torrents
  BY DEF Sound, Inv, TInv, IsTorrent
<1>2. CASE ~Eligible(s, t)
  BY <1>2 DEF Swap
<1>3. CASE Eligible(s, t)
  <2>1. PICK s2 \in Sessions :
              /\ s2.told = s.told /\ s2.cqueue = s.cqueue
              /\ s2.swarm = Out(s.swarm, t)
              /\ \A g \in Handles :
                    /\ s2.pairs[g].of = s.pairs[g].of
                    /\ s2.pairs[g].given = s.pairs[g].given
                    /\ s2.pairs[g].paused = s.pairs[g].paused
                    /\ s2.pairs[g].handle = s.pairs[g].handle
              /\ Swap(s, t, h, quiet)
                    = [AddTorrent(s2, h) EXCEPT !.cqueue = Append(Tail(@), h)]
    BY <1>1, <1>3, SwapDoes DEF Inv
  <2>2. /\ s2.swarm[t].at = "out"
        /\ \A u \in Torrents : u # t => s2.swarm[u] = s.swarm[u]
    <3>1. s.swarm \in [Torrents -> Place]
      BY <1>1 DEF Sessions
    <3> QED BY <2>1, <3>1, OutTyped
  <2>3. Sound(s2)
    <3>1. \A g \in downloads : g \in Handles /\ pairs[g].of \in Files \cup Torrents
      BY Shape DEF Inv, TInv, Pair
    <3>2. ASSUME NEW g \in downloads, s2.pairs[g].handle, s2.swarm[pairs[g].of].at # "out"
          PROVE  pairs[g].paused = s2.swarm[pairs[g].of].paused
      <4>1. s.pairs[g].handle /\ g \in Handles /\ pairs[g].of \in Torrents /\ pairs[g].of # t
        BY <2>1, <2>2, <3>1, <3>2 DEF Sound, IsTorrent
      <4> QED BY <2>2, <3>2, <4>1 DEF Sound
    <3> QED BY <2>1, <3>2 DEF Sound
  <2> DEFINE r == AddTorrent(s2, h)
             q == Append(Tail(s.cqueue), h)
  <2>4. Sound(r) /\ r.cqueue = s.cqueue
    BY <1>1, <2>1, <2>3, AddTorrentSound
  <2>5. /\ q \in Seq(Handles) /\ q # <<>>
        /\ Range(q) \subseteq Range(s.cqueue) \cup {h}
    <3>1. s.cqueue \in Seq(Handles)
      BY <1>1 DEF Sessions
    <3>2. Tail(s.cqueue) \in Seq(Handles) /\ Range(Tail(s.cqueue)) \subseteq Range(s.cqueue)
      BY <3>1, HeadAndTail
    <3> DEFINE e == Tail(s.cqueue)
    <3>3. e \in Seq(Handles) /\ h \in Handles
      BY <1>1, <3>2
    <3>4. Range(e) \subseteq Range(s.cqueue)
      BY <3>2
    <3> HIDE DEF e
    <3>5. /\ Append(e, h) \in Seq(Handles) /\ Append(e, h) # <<>>
          /\ Range(Append(e, h)) = Range(e) \cup {h}
      BY <3>3, Appended
    <3> QED BY <3>4, <3>5 DEF e
  <2>6. Swap(s, t, h, quiet) = [r EXCEPT !.cqueue = q]
    BY <2>1, <2>4
  <2> HIDE DEF r, q
  <2>7. [r EXCEPT !.cqueue = q] \in Sessions
    BY <2>4, <2>5 DEF Sound, Sessions
  <2> DEFINE u == [r EXCEPT !.cqueue = q]
  <2>8. /\ u.pairs = r.pairs /\ u.swarm = r.swarm /\ u.told = r.told /\ u.cqueue = q
    BY <2>4 DEF Sound, Sessions
  <2> HIDE DEF u
  <2>9. Sound(u)
    BY <2>4, <2>5, <2>7, <2>8 DEF Sound, u
  <2> QED BY <2>5, <2>6, <2>8, <2>9 DEF u
<1> QED BY <1>2, <1>3

(* Any number of turns.                                                      *)
LEMMA SwapsSound ==
    ASSUME Inv, cqueue # <<>>, Head(cqueue) \in downloads,
           NEW order \in SetToSeqs(SwarmSet), NEW quiet
    PROVE  Sound(Swaps(order, quiet))
<1> DEFINE h == Head(cqueue)
<1>1. h \in downloads /\ pairs[h].given /\ IsTorrent(h)
  BY HeadAndTail DEF Inv, TInv, Apart
<1>2. PICK n \in Nat : n = Len(order) /\ \A i \in 1..n : order[i] \in Torrents
  BY OrderIs
<1>a. PICK r : r = Swaps(order, quiet)
  OBVIOUS
<1>3. PICK after :
         /\ after[0] = Session
         /\ \A i \in 1..n : after[i] = Swap(after[i - 1], order[i], h, quiet)
         /\ Swaps(order, quiet) = after[n]
  BY <1>2, <1>a, SwapsRun
<1> HIDE DEF h
<1> DEFINE Bad == {i \in 0..n : ~(Sound(after[i]) /\ after[i].cqueue # <<>>)}
<1>4. 0 \notin Bad
  BY <1>3, SessionSound DEF Session
<1>5. ASSUME NEW i \in 1..n, i - 1 \notin Bad PROVE i \notin Bad
  <2>1. Sound(after[i - 1]) /\ after[i - 1].cqueue # <<>>
    BY <1>5
  <2> QED BY <1>1, <1>2, <1>3, <2>1, SwapSound
<1>6. Bad = {}
  <2> SUFFICES ASSUME Bad # {} PROVE FALSE
    OBVIOUS
  <2>0. Bad \in SUBSET Nat
    BY <1>2
  <2>1. PICK m \in Bad : \A j \in Bad : m <= j
    BY <2>0, LeastNumber
  <2>2. m \in 1..n /\ m - 1 \in 0..n /\ m - 1 < m
    BY <1>2, <1>4, <2>1
  <2> QED BY <1>5, <2>1, <2>2
<1> QED BY <1>3, <1>6

-----------------------------------------------------------------------------
LEMMA InvInit == Init => Inv
<1> SUFFICES ASSUME Init PROVE Inv
  OBVIOUS
<1>1. Handles = {} /\ Len(pairs) = 0
  BY EmptySeq, SeqEntries DEF Init, Handles
<1>2. Range(iqueue) = {} /\ Range(cqueue) = {} /\ Range(http) = {}
  BY NoEntries DEF Init
<1>3. DOMAIN http = {}
  BY EmptySeq, SeqEntries DEF Init
<1>4. TInv
  <2>1. /\ pairs \in Seq(Pair) /\ net \in Seq(Net) /\ told \in Seq(Said)
        /\ work \in Seq(Work) /\ Len(work) = 0
        /\ iqueue \in Seq(Handles) /\ cqueue \in Seq(Handles) /\ lib \in Seq(LibAlert)
        /\ http \in Seq(Results) /\ Len(http) = 0 /\ Len(net) = 0 /\ Len(told) = 0
    BY EmptySeq DEF Init
  <2>2. swarm \in [Torrents -> Place]
    BY DEF Init, Place
  <2>3. /\ Len(pairs) <= MaxAdds /\ Len(http) <= HttpCapacity /\ calls \in 0..world.calls
    BY <1>1, <2>1, ClipDownloaderAssumption DEF Init, World
  <2>4. world \in Worlds /\ complete \subseteq Torrents
    BY ClipDownloaderAssumption DEF Init, World
  <2>5. /\ downloads \subseteq Handles /\ complete \subseteq Torrents /\ world \in Worlds
        /\ handling \in LibAlert \cup {None} /\ swapped \in BOOLEAN /\ outpaced \in BOOLEAN
        /\ freed \subseteq Handles
        /\ phase \in {"running", "joined", "stopped"}
    BY <2>4 DEF Init
  <2> QED BY <1>1, <2>1, <2>2, <2>3, <2>5 DEF TInv
<1>5. Apart /\ Silent /\ PauseAgrees
  BY <1>1, <1>2, <1>3 DEF Init, Apart, Silent, PauseAgrees
<1> QED BY <1>4, <1>5 DEF Inv

(* Pairs stay about the same clips, handles only come to torrents.           *)
SameClips ==
    /\ Handles' = Handles
    /\ \A h \in Handles :
          /\ pairs'[h].of = pairs[h].of /\ pairs'[h].given = pairs[h].given
          /\ pairs'[h].handle => pairs[h].given /\ IsTorrent(h)

LEMMA ResultsAre ==
    ASSUME TInv PROVE \A r \in Range(http) : r \in Results /\ r.h \in Handles
<1>1. Range(http) \subseteq Results
  BY SeqEntries DEF TInv
<1> QED BY <1>1 DEF Results

LEMMA ApartKept ==
    ASSUME TInv, Apart, SameClips, downloads' \subseteq downloads,
           \A h \in Range(iqueue') \cup Range(cqueue') :
               h \in Handles /\ pairs[h].given /\ IsTorrent(h),
           UNCHANGED <<net, work, http>>
    PROVE  Apart'
<1>1. downloads \subseteq Handles
  BY DEF TInv
<1>2. /\ \A r \in Range(http') : pairs'[r.h].given
      /\ \A h \in Handles : ~pairs[h].given => net'[h] = "none" /\ ~Busy(h, Stages)'
  BY ResultsAre DEF Apart, SameClips, Busy
<1>3. \A h \in Range(iqueue') \cup Range(cqueue') : pairs'[h].given /\ pairs'[h].of \in Torrents
  BY DEF SameClips, IsTorrent
<1> QED BY <1>1, <1>2, <1>3 DEF Apart, SameClips, IsTorrent

(* What is in the queues.                                                    *)
LEMMA QueuedClips ==
    ASSUME TInv, Apart
    PROVE  \A h \in Range(iqueue) \cup Range(cqueue) :
              h \in Handles /\ pairs[h].given /\ IsTorrent(h)
<1>1. Range(iqueue) \subseteq Handles /\ Range(cqueue) \subseteq Handles
  BY SeqEntries DEF TInv
<1> QED BY <1>1 DEF Apart

(* The step leaves pairs alone.                                              *)
LEMMA SamePairs ==
    ASSUME TInv, Apart, UNCHANGED pairs
    PROVE  SameClips
BY DEF SameClips, Apart, Handles

LEMMA RemoveDownloadKeeps ==
    ASSUME Inv, NEW h \in Handles, RemoveDownload(h) PROVE Inv'
<1>1. /\ pairs' = pairs /\ http' = http /\ handling' = handling /\ complete' = complete
      /\ phase' = phase /\ world' = world /\ swapped' = swapped /\ calls' = calls
      /\ work' = work /\ freed' = freed /\ outpaced' = outpaced
      /\ iqueue' = Dequeued(iqueue, h) /\ cqueue' = Dequeued(cqueue, h)
      /\ downloads' = downloads \ {h} /\ pairs[h].given
      /\ Handles' = Handles
  BY DEF RemoveDownload, alerts, rest, Unqueued, Unlisted, Handles
<1>2. /\ iqueue' \in Seq(Handles) /\ Range(iqueue') \subseteq Range(iqueue)
      /\ cqueue' \in Seq(Handles) /\ Range(cqueue') \subseteq Range(cqueue)
  BY <1>1, RemovedFirst DEF Dequeued, Inv, TInv
<1>3. /\ net \in [Handles -> Net] /\ told \in [Handles -> Said]
      /\ swarm \in [Torrents -> Place] /\ lib \in Seq(LibAlert)
  BY Shape DEF Inv, TInv
<1>4. \/ net' = net
      \/ net[h] = "running" /\ net' = [net EXCEPT ![h] = "stopping"]
  BY DEF RemoveDownload, StopDownload
<1>5. /\ net' \in [Handles -> Net]
      /\ \A g \in Handles : g # h => net'[g] = net[g]
  BY <1>3, <1>4 DEF Net
<1>6. \/ told' = told
      \/ h \in downloads /\ told' = [told EXCEPT ![h] = Heard(@, "removed")]
  BY DEF RemoveDownload, Tell
<1>7. /\ told' \in [Handles -> Said]
      /\ \A g \in Handles : g # h => told'[g] = told[g]
      /\ told'[h] # "late"
  <2>1. h \in downloads => Heard(told[h], "removed") = "removed"
    BY DEF Inv, Silent, Heard
  <2> QED BY <1>3, <1>6, <2>1 DEF Said, Inv, Silent
<1>8. \/ swarm' = swarm /\ lib' = lib
      \/ /\ IsTorrent(h)
         /\ swarm' = Out(swarm, pairs[h].of) /\ lib' \in Stopped(lib, pairs[h].of)
  BY DEF RemoveDownload, Torn
<1>9. /\ swarm' \in [Torrents -> Place] /\ lib' \in Seq(LibAlert)
      /\ \A t \in Torrents : swarm'[t].at # "out" => swarm'[t] = swarm[t]
  <2>1. CASE swarm' = swarm /\ lib' = lib
    BY <1>3, <2>1
  <2>2. CASE /\ IsTorrent(h)
             /\ swarm' = Out(swarm, pairs[h].of) /\ lib' \in Stopped(lib, pairs[h].of)
    <3>1. PICK t \in Torrents : t = pairs[h].of
      BY <2>2 DEF IsTorrent
    <3>2. Out(swarm, t) \in [Torrents -> Place] /\ Stopped(lib, t) \subseteq Seq(LibAlert)
      BY <1>3, OutTyped, StoppedTyped
    <3>3. Out(swarm, t)[t].at = "out" /\ \A u \in Torrents : u # t => Out(swarm, t)[u] = swarm[u]
      BY <1>3, OutTyped
    <3> QED BY <2>2, <3>1, <3>2, <3>3
  <2> QED BY <1>8, <2>1, <2>2
<1>10. TInv'
  <2>1. Steps
    BY <1>1, <1>2, <1>5, <1>7, <1>9, Unstepped DEF Steps, Inv, TInv
  <2> QED BY <2>1, Stepped DEF Inv
<1>11. Apart'
  <2>1. \A g \in Handles : ~pairs[g].given => net'[g] = "none" /\ ~Busy(g, Stages)'
    BY <1>1, <1>5 DEF Inv, Apart, Busy
  <2> QED BY <1>1, <1>2, <2>1 DEF Inv, Apart, IsTorrent
<1>12. Silent'
  BY <1>1, <1>7 DEF Inv, Silent
<1>13. PauseAgrees'
  <2> SUFFICES ASSUME NEW g \in downloads', IsTorrent(g)', Valid(g)'
               PROVE  pairs'[g].paused = swarm'[pairs'[g].of].paused
    BY DEF PauseAgrees
  <2>1. g \in downloads /\ IsTorrent(g) /\ pairs[g].handle /\ swarm'[pairs[g].of].at # "out"
    BY <1>1 DEF IsTorrent, Valid, InSession
  <2>2. swarm'[pairs[g].of] = swarm[pairs[g].of]
    BY <1>9, <2>1 DEF IsTorrent
  <2> QED BY <1>1, <2>1, <2>2 DEF Inv, PauseAgrees, Valid, InSession
<1> QED BY <1>10, <1>11, <1>12, <1>13 DEF Inv

(* A new pair, at the end of the list.                                       *)
Added(x, h, p, m, w) ==
    /\ h = Len(pairs) + 1 /\ h \notin Handles
    /\ Handles' = Handles \cup {h} /\ Len(pairs) < MaxAdds /\ phase # "stopped"
    /\ pairs' = Append(pairs, p) /\ pairs'[h] = p
    /\ net' = Append(net, m) /\ net'[h] = m
    /\ work' = Append(work, w) /\ work'[h] = w
    /\ told' = Append(told, "nothing") /\ told'[h] = "nothing"
    /\ \A g \in Handles :
          /\ pairs'[g] = pairs[g] /\ net'[g] = net[g]
          /\ work'[g] = work[g] /\ told'[g] = told[g]
    /\ downloads' = downloads \cup {h}
    /\ \A g \in downloads : pairs[g].given => pairs[g].of # x
    /\ p.of = x /\ ~p.handle
    /\ ~p.given => m = "none"
    /\ w = IF m = "none" THEN Idle ELSE Started
    /\ \/ /\ iqueue' = iqueue /\ cqueue' = cqueue
          /\ p.given /\ x \in Torrents => m = "running"
       \/ /\ p.given /\ x \in Torrents /\ m = "none"
          /\ \/ iqueue' = iqueue /\ cqueue' = Append(cqueue, h)
             \/ iqueue' = Append(iqueue, h) /\ cqueue' = cqueue
    /\ UNCHANGED <<swarm, lib, freed, http, handling, complete, phase, world, swapped,
                   outpaced, calls>>

LEMMA StartedTyped == Idle \in Work /\ Started \in Work
BY DEF Idle, Started, Work, Stages

LEMMA AddDownloadAdds ==
    ASSUME TInv, NEW x, NEW done \in BOOLEAN, NEW paused \in BOOLEAN,
           AddDownload(x, done, paused)
    PROVE  \E h \in Nat, p \in Pair, m \in {"none", "running"}, w \in Work :
              Added(x, h, p, m, w)
<1> DEFINE h == Len(pairs) + 1
           P(got) == [of |-> x, done |-> done, paused |-> paused, handle |-> FALSE,
                      started |-> "never", given |-> got # "refused"]
<1>1. PICK got \in {"metadata", "transfer", "refused"} :
          /\ pairs' = Append(pairs, P(got))
          /\ downloads' = downloads \cup {h}
          /\ told' = Append(told, "nothing")
          /\ net' = Append(net, IF got = "transfer" THEN "running" ELSE "none")
          /\ work' = Append(work, IF got = "transfer" THEN Started ELSE Idle)
          /\ IF got = "metadata" /\ x \in Torrents
             THEN QueueTorrent(h, done) ELSE UNCHANGED queues
  BY DEF AddDownload
<1>2. /\ Len(pairs) < MaxAdds /\ phase # "stopped" /\ x \in world.clips
      /\ \A g \in downloads : pairs[g].given => pairs[g].of # x
      /\ UNCHANGED <<swarm, lib, freed, http, handling, complete, phase, world, swapped,
                     outpaced, calls>>
  <2>1. world.adds \in 0..MaxAdds /\ MaxAdds \in Nat /\ Len(pairs) \in Nat
    BY ClipDownloaderAssumption, LenProperties DEF TInv, World
  <2> QED BY <2>1 DEF AddDownload, alerts, rest
<1>3. x \in Files \cup Torrents
  BY <1>2, ClipDownloaderAssumption DEF TInv, World
<1> DEFINE p == P(got)
           m == IF got = "transfer" THEN "running" ELSE "none"
           w == IF got = "transfer" THEN Started ELSE Idle
<1>4. /\ p \in Pair /\ p.of = x /\ ~p.handle /\ (p.given <=> got # "refused")
      /\ m \in {"none", "running"} /\ (m = "running" <=> got = "transfer")
      /\ m \in Net /\ "nothing" \in Said
      /\ w \in Work /\ w = IF m = "none" THEN Idle ELSE Started
  BY <1>3, StartedTyped DEF Pair, Net, Said
<1>5. /\ pairs' = Append(pairs, p) /\ net' = Append(net, m) /\ work' = Append(work, w)
  BY <1>1
<1>6. /\ Handles = 1..Len(pairs) /\ Len(pairs) \in Nat /\ Len(net) = Len(pairs)
      /\ Len(told) = Len(pairs) /\ work \in Seq(Work) /\ Len(work) = Len(pairs)
      /\ pairs \in Seq(Pair) /\ net \in Seq(Net) /\ told \in Seq(Said)
  BY Shape DEF TInv
<1> HIDE DEF p, m, w
<1>7. /\ pairs' \in Seq(Pair) /\ Len(pairs') = h /\ pairs'[h] = p
      /\ \A g \in 1..Len(pairs) : pairs'[g] = pairs[g]
  BY <1>4, <1>5, <1>6, AppendProperties
<1>8. /\ net'[h] = m /\ \A g \in 1..Len(pairs) : net'[g] = net[g]
      /\ work'[h] = w /\ \A g \in 1..Len(pairs) : work'[g] = work[g]
  BY <1>4, <1>5, <1>6, AppendProperties
<1>9. told'[h] = "nothing" /\ \A g \in 1..Len(pairs) : told'[g] = told[g]
  BY <1>1, <1>4, <1>6, AppendProperties
<1>10. DOMAIN pairs' = 1..h
  BY <1>7, SeqEntries
<1>11. h \in Nat /\ h \notin Handles /\ 1..h = Handles \cup {h}
  BY <1>6
<1>12. Handles' = Handles \cup {h}
  BY <1>10, <1>11 DEF Handles
<1>13. \/ /\ iqueue' = iqueue /\ cqueue' = cqueue
          /\ p.given /\ x \in Torrents => m = "running"
       \/ /\ p.given /\ x \in Torrents /\ m = "none"
          /\ \/ iqueue' = iqueue /\ cqueue' = Append(cqueue, h)
             \/ iqueue' = Append(iqueue, h) /\ cqueue' = cqueue
  BY <1>1, <1>4 DEF QueueTorrent, queues
<1> HIDE DEF P
<1>14. /\ downloads' = downloads \cup {h} /\ told' = Append(told, "nothing")
       /\ h = Len(pairs) + 1
  BY <1>1
<1>15. \A g \in Handles : /\ pairs'[g] = pairs[g] /\ net'[g] = net[g]
                           /\ work'[g] = work[g] /\ told'[g] = told[g]
  BY <1>6, <1>7, <1>8, <1>9
<1> HIDE DEF h
<1>16. Added(x, h, p, m, w)
  BY <1>2, <1>4, <1>5, <1>7, <1>8, <1>9, <1>11, <1>12, <1>13, <1>14, <1>15 DEF Added
<1> QED BY <1>4, <1>11, <1>16

LEMMA AddDownloadKeeps ==
    ASSUME Inv, NEW x, NEW done \in BOOLEAN, NEW paused \in BOOLEAN,
           AddDownload(x, done, paused)
    PROVE  Inv'
<1>0. PICK h \in Nat, p \in Pair, m \in {"none", "running"}, w \in Work :
         Added(x, h, p, m, w)
  BY AddDownloadAdds DEF Inv
<1>2. TInv /\ Apart /\ Silent /\ PauseAgrees /\ downloads \subseteq Handles
  BY DEF Inv, TInv
<1>3. iqueue \in Seq(Handles') /\ cqueue \in Seq(Handles')
  BY <1>0, WiderSeq DEF Inv, TInv, Added
<1>4. /\ iqueue' \in Seq(Handles') /\ cqueue' \in Seq(Handles')
      /\ Range(iqueue') \cup Range(cqueue') \subseteq Range(iqueue) \cup Range(cqueue) \cup {h}
      /\ \/ Range(iqueue') \cup Range(cqueue') = Range(iqueue) \cup Range(cqueue)
         \/ p.given /\ IsTorrent(h)'
  <2>0. PICK H : H = Handles' /\ h \in H
    BY <1>0 DEF Added
  <2>1. /\ Append(iqueue, h) \in Seq(H) /\ Append(cqueue, h) \in Seq(H)
        /\ Range(Append(iqueue, h)) = Range(iqueue) \cup {h}
        /\ Range(Append(cqueue, h)) = Range(cqueue) \cup {h}
    BY <1>3, <2>0, Appended
  <2>2. IsTorrent(h)' <=> x \in Torrents
    BY <1>0 DEF Added, IsTorrent
  <2>3. \/ iqueue' = iqueue /\ cqueue' = cqueue
        \/ /\ p.given /\ x \in Torrents
           /\ \/ iqueue' = iqueue /\ cqueue' = Append(cqueue, h)
              \/ iqueue' = Append(iqueue, h) /\ cqueue' = cqueue
    BY <1>0 DEF Added
  <2>4. CASE iqueue' = iqueue /\ cqueue' = cqueue
    BY <1>3, <2>4
  <2>5. CASE p.given /\ x \in Torrents /\ iqueue' = iqueue /\ cqueue' = Append(cqueue, h)
    BY <1>3, <2>0, <2>1, <2>2, <2>5
  <2>6. CASE p.given /\ x \in Torrents /\ iqueue' = Append(iqueue, h) /\ cqueue' = cqueue
    BY <1>3, <2>0, <2>1, <2>2, <2>6
  <2> QED BY <2>3, <2>4, <2>5, <2>6
<1>5. TInv'
  <2>1. /\ pairs' \in Seq(Pair) /\ net' \in Seq(Net) /\ told' \in Seq(Said)
        /\ Len(pairs') = Len(pairs) + 1 /\ Len(net') = Len(pairs) + 1
        /\ Len(told') = Len(pairs) + 1
        /\ work' \in Seq(Work) /\ Len(work') = Len(pairs) + 1
    <3>1. "nothing" \in Said /\ m \in Net
      BY DEF Said, Net
    <3> QED BY <1>0, <3>1, Appended DEF Inv, TInv, Added
  <2>2. http \in Seq(Results')
    <3>1. Results \subseteq Results'
      BY <1>0 DEF Results, Added
    <3> QED BY <3>1, WiderSeq DEF Inv, TInv
  <2>3. /\ Len(pairs') <= MaxAdds /\ downloads' \subseteq Handles'
        /\ freed' \subseteq Handles'
    BY <1>0, <1>2, <2>1, Shape, ClipDownloaderAssumption DEF Added, TInv
  <2> QED BY <1>0, <1>2, <1>4, <2>1, <2>2, <2>3 DEF TInv, Added
<1>6. Apart'
  <2>1. \A r \in Range(http') : pairs'[r.h].given
    BY <1>0, <1>2, ResultsAre DEF Apart, Added
  <2>2. \A h1 \in Range(iqueue) \cup Range(cqueue) : pairs'[h1].given /\ IsTorrent(h1)'
    BY <1>0, <1>2, QueuedClips DEF IsTorrent, Added
  <2>3. \A h1 \in Range(iqueue') \cup Range(cqueue') : pairs'[h1].given /\ IsTorrent(h1)'
    BY <1>0, <1>4, <2>2 DEF Added
  <2>4. \A g, h1 \in downloads' :
           pairs'[g].given /\ pairs'[h1].given /\ pairs'[g].of = pairs'[h1].of => g = h1
    <3>1. ASSUME NEW g \in downloads PROVE g \in Handles /\ pairs'[g] = pairs[g]
      BY <1>0, <1>2 DEF Added
    <3>2. pairs'[h].of = x /\ downloads' = downloads \cup {h}
      BY <1>0 DEF Added
    <3>3. \A g \in downloads : pairs[g].given => pairs[g].of # x
      BY <1>0 DEF Added
    <3> QED BY <1>2, <3>1, <3>2, <3>3 DEF Apart
  <2>5. ASSUME NEW h1 \in Handles'
        PROVE  /\ ~pairs'[h1].given => net'[h1] = "none" /\ ~Busy(h1, Stages)'
               /\ pairs'[h1].handle => pairs'[h1].given /\ IsTorrent(h1)'
    <3>1. CASE h1 = h
      <4>1. \A st \in Stages : ~(Idle[st] > 0)
        BY DEF Idle
      <4> QED BY <1>0, <3>1, <4>1 DEF Added, Busy
    <3>2. CASE h1 # h
      <4>1. /\ h1 \in Handles /\ pairs'[h1] = pairs[h1] /\ net'[h1] = net[h1]
            /\ work'[h1] = work[h1]
        BY <1>0, <3>2 DEF Added
      <4> QED BY <1>2, <4>1 DEF Apart, IsTorrent, Busy
    <3> QED BY <3>1, <3>2
  <2> QED BY <2>1, <2>3, <2>4, <2>5 DEF Apart
<1>7. Silent'
  BY <1>0, <1>2 DEF Silent, Added
<1>8. PauseAgrees'
  <2>1. /\ downloads' = downloads \cup {h} /\ swarm' = swarm /\ ~pairs'[h].handle
        /\ \A g \in downloads : pairs'[g] = pairs[g]
    BY <1>0, <1>2 DEF Added
  <2> QED BY <1>2, <2>1 DEF PauseAgrees, Valid, InSession, IsTorrent
<1> QED BY <1>5, <1>6, <1>7, <1>8 DEF Inv

(* Torrents and pauses: what is in the session stays as it was, or goes.     *)
LEMMA PausesKept ==
    ASSUME Inv, SameClips, downloads' \subseteq downloads,
           \A g \in downloads' : pairs'[g].paused = pairs[g].paused,
           \A g \in downloads' : pairs'[g].handle = pairs[g].handle,
           \A t \in Torrents : swarm'[t].at # "out" =>
               swarm[t].at # "out" /\ swarm'[t].paused = swarm[t].paused
    PROVE  PauseAgrees'
<1> SUFFICES ASSUME NEW g \in downloads', IsTorrent(g)', Valid(g)'
             PROVE  pairs'[g].paused = swarm'[pairs'[g].of].paused
  BY DEF PauseAgrees
<1>1. g \in downloads /\ g \in Handles /\ pairs'[g].of = pairs[g].of
  BY DEF Inv, TInv, SameClips
<1>2. IsTorrent(g) /\ pairs[g].handle /\ swarm'[pairs[g].of].at # "out"
  BY <1>1 DEF IsTorrent, Valid, InSession
<1>3. Valid(g) /\ swarm'[pairs[g].of].paused = swarm[pairs[g].of].paused
  BY <1>2 DEF IsTorrent, Valid, InSession
<1> QED BY <1>1, <1>2, <1>3 DEF Inv, PauseAgrees

(* What a call of Pause or Resume does to the record.                        *)
LEMMA PauseDoes ==
    ASSUME TInv, NEW h \in Handles, Pause(h)
    PROVE  /\ net' \in [Handles -> Net] /\ work' = work /\ outpaced' \in BOOLEAN
           /\ \A g \in Handles : g # h => net'[g] = net[g]
           /\ \/ net' = net
              \/ /\ net[h] = "running" /\ net'[h] = "paused"
                 /\ outpaced' = (outpaced \/ Busy(h, {"passed", "reported"}))
<1>1. net \in [Handles -> Net] /\ outpaced \in BOOLEAN
  BY Shape DEF TInv
<1>2. CASE /\ net[h] = "running" /\ net' = [net EXCEPT ![h] = "paused"] /\ work' = work
           /\ outpaced' = (outpaced \/ Busy(h, {"passed", "reported"}))
  BY <1>1, <1>2 DEF Net
<1>3. CASE UNCHANGED <<net, work, outpaced>>
  BY <1>1, <1>3
<1> QED BY <1>2, <1>3 DEF Pause

LEMMA ResumeDoes ==
    ASSUME TInv, NEW h \in Handles, Resume(h)
    PROVE  /\ net' \in [Handles -> Net] /\ work' \in [Handles -> Work] /\ outpaced' \in BOOLEAN
           /\ \A g \in Handles : g # h => net'[g] = net[g] /\ work'[g] = work[g]
           /\ \/ net' = net /\ work' = work
              \/ /\ net[h] = "paused" /\ net'[h] = "running"
                 /\ work'[h] = [work[h] EXCEPT !["fetching"] = @ + 1]
                 /\ outpaced' = (outpaced \/ Busy(h, Stages))
<1>1. net \in [Handles -> Net] /\ work \in [Handles -> Work] /\ outpaced \in BOOLEAN
  BY Shape DEF TInv
<1>2. CASE /\ net[h] = "paused" /\ net' = [net EXCEPT ![h] = "running"]
           /\ work' = [work EXCEPT ![h]["fetching"] = @ + 1]
           /\ outpaced' = (outpaced \/ Busy(h, Stages))
  <2>1. net' \in [Handles -> Net] /\ net'[h] = "running"
        /\ \A g \in Handles : g # h => net'[g] = net[g]
    BY <1>1, <1>2 DEF Net
  <2>2. work[h] \in Work /\ "fetching" \in Stages
    BY <1>1 DEF Stages
  <2> DEFINE more == [work[h] EXCEPT !["fetching"] = @ + 1]
  <2>3. more \in Work
    BY <2>2 DEF Work
  <2>4. work' = [work EXCEPT ![h] = more]
    BY <1>2
  <2> HIDE DEF more
  <2>5. work' \in [Handles -> Work] /\ work'[h] = more
        /\ \A g \in Handles : g # h => work'[g] = work[g]
    BY <1>1, <2>3, <2>4
  <2> QED BY <1>1, <1>2, <2>1, <2>5 DEF more
<1>3. CASE UNCHANGED <<net, work, outpaced>>
  BY <1>1, <1>3
<1> QED BY <1>2, <1>3 DEF Resume

LEMMA PauseResumeKeeps ==
    ASSUME Inv, NEW h \in Handles, NEW pause \in BOOLEAN, PauseResume(h, pause) PROVE Inv'
<1>1. /\ UNCHANGED <<downloads, iqueue, cqueue, lib, freed, http, handling, complete, world,
                     phase, told, swapped>>
      /\ calls' = calls + 1 /\ calls < world.calls /\ h \in downloads /\ pairs[h].given
      /\ pairs' = [pairs EXCEPT ![h].paused = pause]
  BY DEF PauseResume, queues, alerts
<1>2. /\ pairs \in [Handles -> Pair] /\ net \in [Handles -> Net] /\ swarm \in [Torrents -> Place]
      /\ Apart /\ Silent /\ TInv /\ PauseAgrees /\ downloads \subseteq Handles
  BY Shape DEF Inv, TInv
<1>3. /\ pairs' \in [Handles -> Pair]
      /\ \A g \in Handles :
            /\ pairs'[g].of = pairs[g].of /\ pairs'[g].given = pairs[g].given
            /\ pairs'[g].handle = pairs[g].handle
            /\ g # h => pairs'[g].paused = pairs[g].paused
            /\ pairs'[h].paused = pause
  BY <1>1, <1>2 DEF Pair
<1>4. \/ /\ IsTorrent(h) /\ Valid(h)
         /\ swarm' = [swarm EXCEPT ![pairs[h].of].paused = pause]
         /\ UNCHANGED <<net, work, outpaced>>
      \/ /\ ~(IsTorrent(h) /\ Valid(h))
         /\ Pause(h) \/ Resume(h)
         /\ swarm' = swarm
  BY DEF PauseResume
<1>5. /\ net' \in [Handles -> Net]
      /\ work' \in [Handles -> Work]
      /\ outpaced' \in BOOLEAN
      /\ \A g \in Handles : g # h => net'[g] = net[g] /\ work'[g] = work[g]
  BY <1>4, PauseDoes, ResumeDoes, Shape DEF Inv, TInv
<1>6. /\ swarm' \in [Torrents -> Place]
      /\ \A t \in Torrents : swarm'[t].at = swarm[t].at
      /\ \A t \in Torrents : swarm'[t].paused # swarm[t].paused =>
            IsTorrent(h) /\ Valid(h) /\ t = pairs[h].of
  BY <1>2, <1>4 DEF Place, IsTorrent
<1>7. TInv' /\ Handles' = Handles
  <2>1. calls' \in 0..world'.calls
    <3>1. world.calls \in Nat
      BY ClipDownloaderAssumption DEF Inv, TInv, World
    <3> QED BY <1>1, <3>1 DEF Inv, TInv
  <2>2. Steps
    BY <1>1, <1>3, <1>5, <1>6, <2>1, Unstepped DEF Steps, Inv
  <2> QED BY <2>2, Stepped DEF Inv
<1>8. Apart'
  <2>1. \A r \in Range(http') : pairs'[r.h].given
    BY <1>1, <1>2, <1>3, ResultsAre DEF Apart
  <2>2. \A g \in Range(iqueue) \cup Range(cqueue) :
           g \in Handles /\ pairs'[g].given /\ pairs'[g].of \in Torrents
    BY <1>2, <1>3, QueuedClips DEF IsTorrent
  <2>3. \A g \in Handles : ~pairs'[g].given => net'[g] = "none" /\ ~Busy(g, Stages)'
    BY <1>1, <1>2, <1>3, <1>5 DEF Apart, Busy
  <2>4. \A g \in Handles : pairs'[g].handle => pairs'[g].given /\ pairs'[g].of \in Torrents
    BY <1>2, <1>3 DEF Apart, IsTorrent
  <2>5. \A f, g \in downloads :
           pairs'[f].given /\ pairs'[g].given /\ pairs'[f].of = pairs'[g].of => f = g
    BY <1>2, <1>3 DEF Apart
  <2> QED BY <1>1, <1>7, <2>1, <2>2, <2>3, <2>4, <2>5 DEF Apart, IsTorrent
<1>9. Silent'
  BY <1>1, <1>2, <1>7 DEF Silent
<1>10. PauseAgrees'
  <2> SUFFICES ASSUME NEW g \in downloads, pairs[g].of \in Torrents, pairs[g].handle,
                      swarm[pairs[g].of].at # "out"
               PROVE  pairs'[g].paused = swarm'[pairs[g].of].paused
    BY <1>1, <1>2, <1>3, <1>6 DEF PauseAgrees, IsTorrent, Valid, InSession
  <2>1. CASE g = h
    <3>1. IsTorrent(h) /\ Valid(h)
      BY <2>1 DEF IsTorrent, Valid, InSession
    <3>2. swarm' = [swarm EXCEPT ![pairs[h].of].paused = pause]
      BY <1>4, <3>1
    <3>3. swarm'[pairs[h].of].paused = pause
      BY <1>2, <2>1, <3>2 DEF Place
    <3> QED BY <1>2, <1>3, <2>1, <3>3
  <2>2. CASE g # h
    <3>1. pairs[g].of = pairs[h].of => FALSE
      BY <1>1, <1>2, <2>2 DEF Apart
    <3>2. swarm'[pairs[g].of].paused = swarm[pairs[g].of].paused
      BY <1>6, <3>1
    <3> QED BY <1>2, <1>3, <2>2, <3>2 DEF PauseAgrees, IsTorrent, Valid, InSession
  <2> QED BY <2>1, <2>2
<1> QED BY <1>7, <1>8, <1>9, <1>10 DEF Inv

(* A result is delivered, if there is room for it.                           *)
LEMMA DeliverDoes ==
    ASSUME TInv, NEW h \in Handles, NEW hr \in {"S_OK", "E_FAIL", "E_ABORT"}, Deliver(h, hr)
    PROVE  /\ http' \in Seq(Results) /\ Len(http') <= HttpCapacity
           /\ Range(http) \subseteq Range(http')
           /\ \A q \in Range(http') : q \in Range(http) \/ q.h = h
           /\ Len(http) < HttpCapacity => \E q \in Range(http') : q.h = h
           /\ (\A q \in Range(http) : q.h # h)
              /\ (\A i, j \in DOMAIN http : http[i].h = http[j].h => i = j)
                 => \A i, j \in DOMAIN http' : http'[i].h = http'[j].h => i = j
<1> DEFINE r == [h |-> h, hr |-> hr]
           n == Len(http)
<1>1. r \in Results /\ r.h = h
  BY DEF Results
<1>2. /\ n \in Nat /\ DOMAIN http = 1..n /\ http \in Seq(Results) /\ n <= HttpCapacity
      /\ Range(http) = {http[i] : i \in 1..n} /\ HttpCapacity \in Nat
  BY SeqEntries, ClipDownloaderAssumption DEF TInv
<1>3. /\ Append(http, r) \in Seq(Results) /\ Len(Append(http, r)) = n + 1
      /\ Range(Append(http, r)) = Range(http) \cup {r}
      /\ \A i \in 1..n : Append(http, r)[i] = http[i]
      /\ Append(http, r)[n + 1] = r
  BY <1>1, <1>2, Appended, AppendProperties
<1>4. DOMAIN Append(http, r) = 1..n + 1
  BY <1>3, SeqEntries
<1>5. http' = IF n < HttpCapacity THEN Append(http, r) ELSE http
  BY DEF Deliver
<1> HIDE DEF r, n
<1>6. CASE n < HttpCapacity
  <2>1. http' = Append(http, r)
    BY <1>5, <1>6
  <2>2. ASSUME \A q \in Range(http) : q.h # h,
               \A i, j \in DOMAIN http : http[i].h = http[j].h => i = j,
               NEW i \in 1..n + 1, NEW j \in 1..n + 1, http'[i].h = http'[j].h
        PROVE  i = j
    <3>1. (i \in 1..n \/ i = n + 1) /\ (j \in 1..n \/ j = n + 1)
      BY <1>2
    <3>2. \A k \in 1..n : http[k].h # h
      BY <1>2, <2>2
    <3> QED BY <1>1, <1>2, <1>3, <2>1, <2>2, <3>1, <3>2
  <2>3. n + 1 <= HttpCapacity
    BY <1>2, <1>6
  <2>4. \A i, j : i \in DOMAIN http' /\ j \in DOMAIN http' => i \in 1..n + 1 /\ j \in 1..n + 1
    BY <1>4, <2>1
  <2> QED BY <1>1, <1>3, <2>1, <2>2, <2>3, <2>4
<1>7. CASE ~(n < HttpCapacity)
  <2>1. http' = http
    BY <1>5, <1>7
  <2> QED BY <1>2, <1>7, <2>1 DEF n
<1> QED BY <1>6, <1>7 DEF n

(* One worker, at one stage.                                                 *)
At(s) == [r \in Stages |-> IF r = s THEN 1 ELSE 0]

LEMMA AtIs ==
    /\ Started = At("fetching") /\ [Idle EXCEPT !["fetching"] = @ + 1] = At("fetching")
    /\ \A r \in Stages : Idle[r] = 0
    /\ \A s, r \in Stages : At(s)[r] > 0 <=> r = s
<1>1. /\ \A r \in Stages : Idle[r] = 0
      /\ \A s, r \in Stages : At(s)[r] = IF r = s THEN 1 ELSE 0
      /\ \A s : At(s) = [r \in Stages |-> IF r = s THEN 1 ELSE 0]
      /\ Idle = [r \in Stages |-> 0] /\ "fetching" \in Stages
  BY DEF Idle, At, Stages
<1>2. Started = [Idle EXCEPT !["fetching"] = 1]
  BY DEF Started
<1>3. Started = At("fetching") /\ [Idle EXCEPT !["fetching"] = @ + 1] = At("fetching")
  BY <1>1, <1>2
<1> QED BY <1>1, <1>3

(* A worker comes to another stage, or is done with the record.              *)
LEMMA MoveIs ==
    ASSUME TInv, NEW h \in Handles, NEW from \in Stages, NEW to \in Stages, from # to,
           work[h][from] > 0
    PROVE  /\ Move(h, from, to) \in [Handles -> Work]
           /\ \A g \in Handles : g # h => Move(h, from, to)[g] = work[g]
           /\ work[h] = At(from) => Move(h, from, to)[h] = At(to)
<1>1. work \in [Handles -> Work] /\ work[h] \in Work
  BY Shape
<1> DEFINE less == [work[h] EXCEPT ![from] = @ - 1]
           more == [less EXCEPT ![to] = @ + 1]
<1>2. less \in Work /\ more \in Work
  BY <1>1 DEF Work
<1>3. Move(h, from, to) = [[work EXCEPT ![h] = less] EXCEPT ![h] = more]
  BY <1>1 DEF Move
<1>4. work[h] = At(from) => more = At(to)
  BY DEF At
<1> HIDE DEF less, more
<1> QED BY <1>1, <1>2, <1>3, <1>4

LEMMA LeaveIs ==
    ASSUME TInv, NEW h \in Handles, NEW from \in Stages, work[h][from] > 0
    PROVE  /\ Leave(h, from) \in [Handles -> Work]
           /\ \A g \in Handles : g # h => Leave(h, from)[g] = work[g]
           /\ work[h] = At(from) => Leave(h, from)[h] = Idle
<1>1. work \in [Handles -> Work] /\ work[h] \in Work
  BY Shape
<1> DEFINE less == [work[h] EXCEPT ![from] = @ - 1]
<1>2. less \in Work
  BY <1>1 DEF Work
<1>3. Leave(h, from) = [work EXCEPT ![h] = less]
  BY <1>1 DEF Leave
<1>4. work[h] = At(from) => less = Idle
  BY DEF At, Idle
<1> HIDE DEF less
<1> QED BY <1>1, <1>2, <1>3, <1>4

(* Whatever a worker does, it does it with its own record.                   *)
LEMMA HttpStepDoes ==
    ASSUME TInv, NEW h \in Handles, HttpStep(h)
    PROVE  /\ UNCHANGED Elsewhere
           /\ Busy(h, Stages)
           /\ net' \in [Handles -> Net] /\ work' \in [Handles -> Work]
           /\ \A g \in Handles : g # h => net'[g] = net[g] /\ work'[g] = work[g]
           /\ http' \in Seq(Results) /\ Len(http') <= HttpCapacity
           /\ \A q \in Range(http') : q \in Range(http) \/ q.h = h
<1>1. /\ net \in [Handles -> Net] /\ http \in Seq(Results) /\ Len(http) <= HttpCapacity
      /\ {"fetching", "aborting", "passed", "reported"} \subseteq Stages
  BY Shape DEF TInv, Stages
<1>2. ASSUME NEW from \in Stages, work[h][from] > 0,
             work' = Leave(h, from) \/ \E to \in Stages : from # to /\ work' = Move(h, from, to)
      PROVE  /\ Busy(h, Stages) /\ work' \in [Handles -> Work]
             /\ \A g \in Handles : g # h => work'[g] = work[g]
  <2>1. Busy(h, Stages)
    BY <1>2 DEF Busy
  <2>2. CASE work' = Leave(h, from)
    <3>1. /\ Leave(h, from) \in [Handles -> Work]
          /\ \A g \in Handles : g # h => Leave(h, from)[g] = work[g]
      BY <1>2, LeaveIs
    <3> QED BY <2>1, <2>2, <3>1
  <2>3. ASSUME NEW to \in Stages, from # to, work' = Move(h, from, to)
        PROVE  /\ work' \in [Handles -> Work]
               /\ \A g \in Handles : g # h => work'[g] = work[g]
    <3>1. /\ Move(h, from, to) \in [Handles -> Work]
          /\ \A g \in Handles : g # h => Move(h, from, to)[g] = work[g]
      BY <1>2, <2>3, MoveIs
    <3> QED BY <2>3, <3>1
  <2> QED BY <1>2, <2>1, <2>2, <2>3
<1>3. CASE HttpAborts(h)
  <2>1. /\ UNCHANGED Elsewhere /\ net' = net /\ http' = http
        /\ work[h]["fetching"] > 0 /\ work' = Move(h, "fetching", "aborting")
    BY <1>3 DEF HttpAborts
  <2> QED BY <1>1, <1>2, <2>1
<1>4. CASE HttpChecks(h)
  <2>1. /\ UNCHANGED Elsewhere /\ net' = net /\ http' = http
        /\ work[h]["fetching"] > 0
        /\ work' = Move(h, "fetching", "passed") \/ work' = Leave(h, "fetching")
    BY <1>4 DEF HttpChecks
  <2> QED BY <1>1, <1>2, <2>1
<1>5. CASE HttpReports(h)
  <2>1. \A hr \in Outcomes(h) : hr \in {"S_OK", "E_FAIL", "E_ABORT"}
    BY DEF Outcomes
  <2>2. /\ http' \in Seq(Results) /\ Len(http') <= HttpCapacity
        /\ \A q \in Range(http') : q \in Range(http) \/ q.h = h
    BY <1>1, <1>5, <2>1, DeliverDoes DEF HttpReports
  <2>3. /\ UNCHANGED Elsewhere /\ net' = net
        /\ work[h]["passed"] > 0 /\ work' = Move(h, "passed", "reported")
    BY <1>5 DEF HttpReports
  <2> QED BY <1>1, <1>2, <2>2, <2>3
<1>6. CASE HttpGivesUp(h)
  <2>1. /\ http' \in Seq(Results) /\ Len(http') <= HttpCapacity
        /\ \A q \in Range(http') : q \in Range(http) \/ q.h = h
    BY <1>1, <1>6, DeliverDoes DEF HttpGivesUp
  <2>2. /\ UNCHANGED Elsewhere /\ net' = net /\ work[h]["aborting"] > 0
        /\ work' = Move(h, "aborting", "reported") \/ work' = Leave(h, "aborting")
    BY <1>6 DEF HttpGivesUp
  <2> QED BY <1>1, <1>2, <2>1, <2>2
<1>7. CASE HttpUnlists(h)
  <2>1. net' \in [Handles -> Net] /\ \A g \in Handles : g # h => net'[g] = net[g]
    BY <1>1, <1>7 DEF HttpUnlists, Net
  <2>2. /\ UNCHANGED Elsewhere /\ http' = http
        /\ work[h]["reported"] > 0 /\ work' = Leave(h, "reported")
    BY <1>7 DEF HttpUnlists
  <2> QED BY <1>1, <1>2, <2>1, <2>2
<1> QED BY <1>3, <1>4, <1>5, <1>6, <1>7 DEF HttpStep

LEMMA HttpStepKeeps ==
    ASSUME Inv, NEW h \in Handles, HttpStep(h) PROVE Inv'
<1>1. TInv /\ Apart /\ Silent /\ PauseAgrees
  BY DEF Inv
<1>2. /\ UNCHANGED <<pairs, downloads, iqueue, cqueue, swarm, lib, freed, handling, complete,
                     phase, told, world, swapped, outpaced, calls>>
      /\ Busy(h, Stages)
      /\ net' \in [Handles -> Net] /\ work' \in [Handles -> Work]
      /\ \A g \in Handles : g # h => net'[g] = net[g] /\ work'[g] = work[g]
      /\ http' \in Seq(Results) /\ Len(http') <= HttpCapacity
      /\ \A q \in Range(http') : q \in Range(http) \/ q.h = h
  BY <1>1, HttpStepDoes DEF Elsewhere, queues, rest
<1>3. TInv' /\ Handles' = Handles
  <2>1. Steps
    BY <1>1, <1>2, Unstepped DEF Steps
  <2> QED BY <1>1, <2>1, Stepped
<1>4. Apart'
  <2>1. pairs[h].given
    BY <1>1, <1>2 DEF Apart
  <2>2. \A q \in Range(http') : pairs'[q.h].given
    BY <1>1, <1>2, <2>1 DEF Apart
  <2>3. \A g \in Handles : ~pairs[g].given => net'[g] = "none" /\ ~Busy(g, Stages)'
    BY <1>1, <1>2, <2>1 DEF Apart, Busy
  <2> QED BY <1>1, <1>2, <1>3, <2>2, <2>3 DEF Apart, IsTorrent
<1>5. Silent' /\ PauseAgrees'
  BY <1>1, <1>2, <1>3 DEF Silent, PauseAgrees, IsTorrent, Valid, InSession
<1> QED BY <1>3, <1>4, <1>5 DEF Inv

(* The result that is taken, and those that stay.                            *)
LEMMA ResultTaken ==
    ASSUME TInv, Apart, http # <<>>
    PROVE  /\ Last(http) \in Results /\ pairs[Last(http).h].given
           /\ Last(http).h \in Handles /\ Last(http) \in Range(http)
           /\ Front(http) \in Seq(Results) /\ Len(Front(http)) <= HttpCapacity
           /\ Range(Front(http)) \subseteq Range(http)
           /\ \A r \in Range(http) : r = Last(http) \/ r \in Range(Front(http))
           /\ (\A i, j \in DOMAIN http : http[i].h = http[j].h => i = j) =>
                 /\ \A i, j \in DOMAIN Front(http) : Front(http)[i].h = Front(http)[j].h => i = j
                 /\ \A r \in Range(Front(http)) : r.h # Last(http).h
<1> DEFINE n == Len(http)
           u == Front(http)
<1>1. /\ n \in Nat /\ n > 0 /\ DOMAIN http = 1..n /\ n <= HttpCapacity
      /\ http \in Seq(Results)
  BY SeqEntries DEF TInv
<1>2. /\ Last(http) \in Range(http) /\ u \in Seq(Results) /\ Len(u) = n - 1
      /\ Range(u) \subseteq Range(http) /\ Range(http) = Range(u) \cup {Last(http)}
  BY <1>1, FrontAndLast
<1>3. Last(http) = http[n]
  BY DEF Last
<1>4. \A i \in 1..n - 1 : u[i] = http[i]
  <2>1. u = SubSeq(http, 1, n - 1)
    BY DEF Front
  <2>2. \A i \in 1..n - 1 : http[i] \in Results
    BY <1>1, ElementOfSeq
  <2> HIDE DEF n, u
  <2>3. \A i \in 1..n - 1 - 1 + 1 : SubSeq(http, 1, n - 1)[i] = http[1 + i - 1]
    BY <1>1, <2>2, SubSeqProperties
  <2> QED BY <1>1, <2>1, <2>3
<1>5. DOMAIN u = 1..n - 1 /\ Range(u) = {u[i] : i \in 1..n - 1}
  BY <1>2, SeqEntries
<1> HIDE DEF n, u
<1>7. n \in 1..n /\ \A i \in 1..n - 1 : i \in 1..n /\ i # n
  BY <1>1
<1>8. ASSUME \A i, j \in 1..n : http[i].h = http[j].h => i = j
      PROVE  /\ \A i, j \in 1..n - 1 : u[i].h = u[j].h => i = j
             /\ \A r \in Range(u) : r.h # Last(http).h
  BY <1>3, <1>4, <1>5, <1>7, <1>8
<1>10. Last(http) \in Results /\ pairs[Last(http).h].given /\ Last(http).h \in Handles
  BY <1>2, ResultsAre DEF Apart
<1>11. Len(u) <= HttpCapacity
  BY <1>1, <1>2, ClipDownloaderAssumption
<1> QED BY <1>1, <1>2, <1>5, <1>8, <1>10, <1>11 DEF u

LEMMA OnHttpDownloadCompleteKeeps ==
    ASSUME Inv, OnHttpDownloadComplete PROVE Inv'
<1> DEFINE h == Last(http).h
           ok == Last(http).hr = "S_OK"
<1>1. /\ UNCHANGED <<pairs, downloads, swarm, lib, net, work, handling, complete, phase,
                     world, swapped, outpaced, calls>>
      /\ http # <<>> /\ http' = Front(http)
      /\ freed' = freed \/ freed' = freed \cup {h}
  BY DEF OnHttpDownloadComplete, rest
<1>2. \/ UNCHANGED <<iqueue, cqueue, told>>
      \/ /\ h \in downloads /\ ok /\ IsTorrent(h)
         /\ QueueTorrent(h, pairs[h].done)
         /\ told' = [told EXCEPT ![h] = Heard(@, "other")]
      \/ /\ h \in downloads /\ UNCHANGED <<iqueue, cqueue>>
         /\ told' = [told EXCEPT ![h] = Heard(@, IF ok THEN "finished" ELSE "failed")]
  BY DEF OnHttpDownloadComplete, Tell, queues
<1>3. TInv /\ Apart /\ Silent /\ PauseAgrees /\ told \in [Handles -> Said]
  BY Shape DEF Inv
<1>4. /\ h \in Handles /\ pairs[h].given
      /\ http' \in Seq(Results) /\ Len(http') <= HttpCapacity
      /\ Range(http') \subseteq Range(http)
  BY <1>1, <1>3, ResultTaken
<1> HIDE DEF h
<1>6. /\ iqueue' \in Seq(Handles) /\ cqueue' \in Seq(Handles)
      /\ \A g \in Range(iqueue') \cup Range(cqueue') :
            \/ g \in Range(iqueue) \cup Range(cqueue)
            \/ g = h /\ IsTorrent(h)
  <2>1. iqueue \in Seq(Handles) /\ cqueue \in Seq(Handles)
    BY <1>3 DEF TInv
  <2>2. /\ Append(iqueue, h) \in Seq(Handles) /\ Append(cqueue, h) \in Seq(Handles)
        /\ Range(Append(iqueue, h)) = Range(iqueue) \cup {h}
        /\ Range(Append(cqueue, h)) = Range(cqueue) \cup {h}
    BY <1>4, <2>1, Appended
  <2>3. CASE UNCHANGED <<iqueue, cqueue>>
    BY <2>1, <2>3
  <2>4. CASE IsTorrent(h) /\ QueueTorrent(h, pairs[h].done)
    BY <2>1, <2>2, <2>4 DEF QueueTorrent
  <2> QED BY <1>2, <2>3, <2>4
<1>7. /\ told' \in [Handles -> Said]
      /\ \A g \in Handles : g # h => told'[g] = told[g]
      /\ told'[h] = told[h] \/ (h \in downloads /\ told'[h] \in {"finished", "failed"})
  <2>1. h \in downloads => told[h] \notin {"removed", "late"}
    BY <1>3, <1>4 DEF Silent
  <2> QED BY <1>2, <1>3, <1>4, <2>1 DEF Heard, Said
<1>8. TInv' /\ Handles' = Handles
  <2>1. Steps
    BY <1>1, <1>3, <1>4, <1>6, <1>7, Unstepped DEF Steps, TInv
  <2> QED BY <1>3, <2>1, Stepped
<1>9. Apart'
  <2>1. \A g \in Range(iqueue') \cup Range(cqueue') : pairs[g].given /\ IsTorrent(g)
    BY <1>3, <1>4, <1>6 DEF Apart
  <2>2. \A g \in Handles : ~pairs[g].given => net'[g] = "none" /\ ~Busy(g, Stages)'
    BY <1>1, <1>3 DEF Apart, Busy
  <2> QED BY <1>1, <1>3, <1>4, <1>8, <2>1, <2>2 DEF Apart, IsTorrent
<1>10. Silent'
  BY <1>1, <1>3, <1>7, <1>8 DEF Silent
<1>11. PauseAgrees'
  BY <1>1, <1>3 DEF PauseAgrees, IsTorrent, Valid, InSession
<1> QED BY <1>8, <1>9, <1>10, <1>11 DEF Inv

(* The next alert of libtorrent.                                             *)
LEMMA PopAlertKeeps ==
    ASSUME Inv, PopAlert PROVE Inv'
<1>1. /\ UNCHANGED <<downloads, iqueue, cqueue, swarm, net, work, freed, http, complete,
                     phase, told, world, swapped, outpaced, calls>>
      /\ lib # <<>> /\ lib' = Tail(lib) /\ handling' = Head(lib)
      /\ pairs' = [h \in Handles |->
             IF Head(lib).kind = "finished" /\ h \in Owners(pairs, Head(lib).of)
             THEN [pairs[h] EXCEPT !.started = "lately"] ELSE pairs[h]]
  BY DEF PopAlert, queues, transfers, rest
<1>2. /\ TInv /\ Apart /\ Silent /\ PauseAgrees /\ pairs \in [Handles -> Pair]
      /\ downloads \subseteq Handles
  BY Shape DEF Inv, TInv
<1>3. lib' \in Seq(LibAlert) /\ handling' \in LibAlert
  BY <1>1, <1>2, HeadAndTail DEF TInv
<1>4. /\ pairs' \in [Handles -> Pair]
      /\ \A h \in Handles :
            /\ pairs'[h].of = pairs[h].of /\ pairs'[h].given = pairs[h].given
            /\ pairs'[h].handle = pairs[h].handle /\ pairs'[h].paused = pairs[h].paused
  <2>1. \A h \in Handles :
           pairs'[h] = pairs[h] \/ pairs'[h] = [pairs[h] EXCEPT !.started = "lately"]
    BY <1>1
  <2>2. ASSUME NEW h \in Handles
        PROVE  /\ pairs'[h] \in Pair
               /\ pairs'[h].of = pairs[h].of /\ pairs'[h].given = pairs[h].given
               /\ pairs'[h].handle = pairs[h].handle /\ pairs'[h].paused = pairs[h].paused
    <3>1. pairs[h] \in Pair
      BY <1>2
    <3> QED BY <2>1, <3>1 DEF Pair
  <2>3. pairs' = [h \in Handles |-> pairs'[h]]
    BY <1>1
  <2> QED BY <2>2, <2>3
<1>5. TInv' /\ Handles' = Handles
  <2>1. Steps
    BY <1>1, <1>2, <1>3, <1>4, Unstepped DEF Steps
  <2> QED BY <1>2, <2>1, Stepped
<1>6. SameClips
  BY <1>2, <1>4, <1>5 DEF SameClips, Apart
<1>7. Apart'
  BY <1>1, <1>2, <1>6, QueuedClips, ApartKept
<1>8. Silent'
  BY <1>1, <1>2, <1>5 DEF Silent
<1>9. PauseAgrees'
  BY <1>1, <1>2, <1>4, <1>6, PausesKept
<1> QED BY <1>5, <1>7, <1>8, <1>9 DEF Inv

(* SendAlert speaks of the listed pair, of which nothing final was said.     *)
LEMMA SendAlertKeeps ==
    ASSUME Inv, SendAlert PROVE Inv'
<1>1. /\ UNCHANGED <<pairs, downloads, iqueue, cqueue, swarm, lib, net, work, freed, http,
                     complete, phase, world, swapped, outpaced, calls>>
      /\ handling' = None
      /\ told' = [h \in Handles |->
          IF h \in Owners(pairs, handling.of)
          THEN Heard(told[h], IF handling.kind = "finished" THEN "finished" ELSE "other")
          ELSE told[h]]
  BY DEF SendAlert, queues, transfers, rest
<1>2. /\ TInv /\ Apart /\ Silent /\ PauseAgrees /\ told \in [Handles -> Said]
  BY Shape DEF Inv
<1>3. ASSUME NEW h \in Handles
      PROVE  told'[h] \in Said /\ (told'[h] = told[h]
                \/ (h \in downloads /\ told'[h] = "finished"))
  <2>1. h \in Owners(pairs, handling.of) => h \in downloads /\ told[h] \notin {"removed", "late"}
    BY <1>2 DEF Owners, Silent
  <2>2. told[h] \in Said
    BY <1>2
  <2> QED BY <1>1, <2>1, <2>2 DEF Heard, Said
<1>4. told' \in [Handles -> Said]
  BY <1>1, <1>3
<1>5. TInv' /\ Handles' = Handles
  <2>1. Steps
    BY <1>1, <1>2, <1>4, Unstepped DEF Steps
  <2> QED BY <1>2, <2>1, Stepped
<1>6. SameClips
  BY <1>1, <1>2, SamePairs
<1>7. Apart'
  BY <1>1, <1>2, <1>6, QueuedClips, ApartKept
<1>8. Silent'
  BY <1>1, <1>2, <1>3, <1>5 DEF Silent
<1>9. PauseAgrees'
  BY <1>1, <1>2 DEF PauseAgrees, IsTorrent, Valid, InSession
<1> QED BY <1>5, <1>7, <1>8, <1>9 DEF Inv

(* What a check of the queues leaves, when the session is sound.             *)
LEMMA SoundBecomes ==
    ASSUME Inv, NEW s, Sound(s), Becomes(s),
           UNCHANGED <<downloads, net, work, freed, http, handling, complete, phase, world,
                       outpaced, calls>>,
           swapped' \in BOOLEAN,
           iqueue' \in Seq(Handles), Range(iqueue') \subseteq Range(iqueue)
    PROVE  Inv'
<1>1. /\ pairs' = s.pairs /\ swarm' = s.swarm /\ told' = told /\ cqueue' = s.cqueue
      /\ lib' = s.lib /\ s \in Sessions
  BY DEF Becomes, Sound
<1>2. TInv /\ Apart /\ Silent /\ PauseAgrees
  BY DEF Inv
<1>3. /\ pairs' \in [Handles -> Pair] /\ swarm' \in [Torrents -> Place]
      /\ cqueue' \in Seq(Handles) /\ lib' \in Seq(LibAlert)
  BY <1>1 DEF Sessions
<1>4. TInv' /\ Handles' = Handles
  <2>1. Steps
    BY <1>1, <1>2, <1>3, Unstepped DEF Steps
  <2> QED BY <1>2, <2>1, Stepped
<1>5. SameClips
  BY <1>1, <1>4 DEF SameClips, Sound
<1>6. Apart'
  <2>1. \A h \in Range(iqueue') : h \in Handles /\ pairs[h].given /\ IsTorrent(h)
    BY <1>2, QueuedClips
  <2>2. Range(cqueue') \subseteq Handles
    BY <1>3, SeqEntries
  <2>3. \A h \in Range(cqueue') : h \in Handles /\ pairs[h].given /\ IsTorrent(h)
    BY <1>1, <2>2 DEF Sound
  <2> QED BY <1>2, <1>5, <2>1, <2>3, ApartKept
<1>7. Silent'
  BY <1>1, <1>2, <1>4 DEF Silent
<1>8. PauseAgrees'
  <2>1. \A g \in downloads : g \in Handles /\ pairs'[g].of = pairs[g].of
                             /\ pairs'[g].paused = pairs[g].paused
    BY <1>1, <1>2 DEF Sound, TInv
  <2>2. \A g \in downloads :
          pairs'[g].handle /\ swarm'[pairs[g].of].at # "out" =>
              pairs[g].paused = swarm'[pairs[g].of].paused
    BY <1>1 DEF Sound
  <2> QED BY <2>1, <2>2 DEF PauseAgrees, Valid, InSession
<1> QED BY <1>4, <1>6, <1>7, <1>8 DEF Inv

LEMMA CheckIncompleteQueueKeeps ==
    ASSUME Inv, CheckIncompleteQueue PROVE Inv'
<1>1. /\ UNCHANGED <<downloads, net, work, freed, http, handling, complete, phase, world,
                     swapped, outpaced, calls>>
      /\ \/ UNCHANGED <<pairs, iqueue, cqueue, swarm, told, lib>>
         \/ /\ iqueue # <<>>
            /\ \E s \in Evictions : Becomes(AddTorrent(s, Head(iqueue)))
            /\ iqueue' = Tail(iqueue)
  BY DEF CheckIncompleteQueue, queues, transfers, alerts, rest
<1>2. TInv /\ Apart /\ iqueue \in Seq(Handles) /\ swapped \in BOOLEAN
  BY DEF Inv, TInv
<1>3. CASE UNCHANGED <<pairs, iqueue, cqueue, swarm, told, lib>>
  <2>1. Becomes(Session)
    BY <1>3 DEF Becomes, Session
  <2> QED BY <1>1, <1>2, <1>3, <2>1, SessionSound, SoundBecomes
<1>4. ASSUME iqueue # <<>>, NEW s \in Evictions, Becomes(AddTorrent(s, Head(iqueue))),
             iqueue' = Tail(iqueue)
      PROVE  Inv'
  <2>1. /\ Head(iqueue) \in Range(iqueue)
        /\ iqueue' \in Seq(Handles) /\ Range(iqueue') \subseteq Range(iqueue)
    BY <1>2, <1>4, HeadAndTail
  <2>2. Head(iqueue) \in Handles /\ pairs[Head(iqueue)].given /\ IsTorrent(Head(iqueue))
    BY <1>2, <2>1, QueuedClips
  <2>3. Sound(s)
    BY <1>4, EvictionsSound
  <2>4. Sound(AddTorrent(s, Head(iqueue)))
    BY <2>2, <2>3, AddTorrentSound
  <2> QED BY <1>1, <1>2, <1>4, <2>1, <2>4, SoundBecomes
<1> QED BY <1>1, <1>3, <1>4

(* The queue of a session does not matter to what is in it.                  *)
LEMMA RequeuedSound ==
    ASSUME Inv, NEW s, Sound(s), NEW q \in Seq(Handles),
           \A g \in Range(q) : pairs[g].given /\ IsTorrent(g)
    PROVE  Sound([s EXCEPT !.cqueue = q])
<1> DEFINE u == [s EXCEPT !.cqueue = q]
<1>1. /\ u \in Sessions /\ u.pairs = s.pairs /\ u.swarm = s.swarm /\ u.told = s.told
      /\ u.cqueue = q
  BY DEF Sound, Sessions
<1> HIDE DEF u
<1>2. Sound(u)
  BY <1>1 DEF Sound
<1> QED BY <1>2 DEF u

LEMMA CheckCompleteQueueKeeps ==
    ASSUME Inv, CheckCompleteQueue PROVE Inv'
<1>1. /\ UNCHANGED <<downloads, iqueue, net, work, freed, http, handling, complete, phase,
                     world, outpaced, calls>>
      /\ \/ UNCHANGED <<pairs, cqueue, swarm, told, lib, swapped>>
         \/ /\ cqueue # <<>> /\ ~Full
            /\ Becomes([AddTorrent(Session, Head(cqueue)) EXCEPT !.cqueue = Tail(@)])
            /\ UNCHANGED swapped
         \/ /\ cqueue # <<>> /\ Full /\ Head(cqueue) \in downloads
            /\ \E order \in SetToSeqs(SwarmSet), quiet \in SUBSET SwarmSet :
                  Becomes(Swaps(order, quiet))
            /\ swapped' = (swapped \/ \E t \in SwarmSet : Eligible(Session, t))
  BY DEF CheckCompleteQueue, transfers, alerts
<1>2. /\ TInv /\ Apart /\ iqueue \in Seq(Handles) /\ cqueue \in Seq(Handles)
      /\ swapped \in BOOLEAN
  BY DEF Inv, TInv
<1>3. CASE UNCHANGED <<pairs, cqueue, swarm, told, lib, swapped>>
  <2>1. Becomes(Session)
    BY <1>3 DEF Becomes, Session
  <2> QED BY <1>1, <1>2, <1>3, <2>1, SessionSound, SoundBecomes
<1>4. CASE /\ cqueue # <<>> /\ ~Full
           /\ Becomes([AddTorrent(Session, Head(cqueue)) EXCEPT !.cqueue = Tail(@)])
           /\ UNCHANGED swapped
  <2> DEFINE h == Head(cqueue)
             r == AddTorrent(Session, h)
             q == Tail(cqueue)
  <2>1. /\ h \in Range(cqueue) /\ q \in Seq(Handles) /\ Range(q) \subseteq Range(cqueue)
    BY <1>2, <1>4, HeadAndTail
  <2>2. h \in Handles /\ pairs[h].given /\ IsTorrent(h)
    BY <1>2, <2>1, QueuedClips
  <2>3. Sound(r) /\ r.cqueue = cqueue
    BY <2>2, SessionSound, AddTorrentSound DEF Session
  <2>4. Becomes([r EXCEPT !.cqueue = q])
    BY <1>4, <2>3
  <2>5. \A g \in Range(q) : pairs[g].given /\ IsTorrent(g)
    BY <1>2, <2>1, QueuedClips
  <2> HIDE DEF r, q
  <2>6. Sound([r EXCEPT !.cqueue = q])
    BY <2>1, <2>3, <2>5, RequeuedSound
  <2> QED BY <1>1, <1>2, <1>4, <2>4, <2>6, SoundBecomes
<1>5. ASSUME cqueue # <<>>, Head(cqueue) \in downloads,
             NEW order \in SetToSeqs(SwarmSet), NEW quiet, Becomes(Swaps(order, quiet)),
             swapped' = (swapped \/ \E t \in SwarmSet : Eligible(Session, t))
      PROVE  Inv'
  <2>1. Sound(Swaps(order, quiet))
    BY <1>5, SwapsSound
  <2>2. swapped' \in BOOLEAN
    BY <1>5
  <2> QED BY <1>1, <1>2, <1>5, <2>1, <2>2, SoundBecomes
<1> QED BY <1>1, <1>3, <1>4, <1>5

(* A torrent comes on: its place in the session changes, not its pause.      *)
LEMMA Comes ==
    ASSUME Inv, NEW t \in Torrents, swarm[t].at # "out",
           NEW at \in {"leeching", "seeding"}, Joins(t, at),
           lib' \in Seq(LibAlert), complete' \subseteq Torrents,
           UNCHANGED <<pairs, downloads, queues, transfers, alerts, phase, told, rest>>
    PROVE  Inv'
<1>1. TInv /\ Apart /\ Silent /\ PauseAgrees /\ swarm \in [Torrents -> Place]
  BY DEF Inv, TInv
<1>2. UNCHANGED <<pairs, downloads, iqueue, cqueue, net, work, freed, http, handling, phase, told,
                  world, swapped, outpaced, calls>>
  BY DEF queues, transfers, alerts, rest
<1>3. /\ swarm' \in [Torrents -> Place]
      /\ \A u \in Torrents : swarm'[u].paused = swarm[u].paused
      /\ \A u \in Torrents : swarm'[u].at # "out" => swarm[u].at # "out"
  <2>1. swarm' = [swarm EXCEPT ![t].at = at]
    BY DEF Joins
  <2> QED BY <1>1, <2>1 DEF Place
<1>4. TInv' /\ Handles' = Handles
  <2>1. Steps
    BY <1>1, <1>2, <1>3, Unstepped DEF Steps
  <2> QED BY <1>1, <2>1, Stepped
<1>5. SameClips
  BY <1>1, <1>2, SamePairs
<1>6. Apart'
  BY <1>1, <1>2, <1>5, QueuedClips, ApartKept
<1>7. Silent'
  BY <1>1, <1>2, <1>4 DEF Silent
<1>8. PauseAgrees'
  BY <1>2, <1>3, <1>5, PausesKept
<1> QED BY <1>4, <1>6, <1>7, <1>8 DEF Inv

LEMMA LibtorrentKeeps ==
    ASSUME Inv, NEW t \in Torrents, Libtorrent(t) PROVE Inv'
<1>1. lib \in Seq(LibAlert) /\ [kind |-> "finished", of |-> t] \in LibAlert
      /\ complete \subseteq Torrents
  BY DEF Inv, TInv, LibAlert
<1>2. Append(lib, [kind |-> "finished", of |-> t]) \in Seq(LibAlert)
  BY <1>1, Appended
<1>3. CASE Checked(t)
  BY <1>1, <1>2, <1>3, Comes DEF Checked, Finished
<1>4. CASE Leeched(t)
  BY <1>1, <1>2, <1>4, Comes DEF Leeched, Finished
<1> QED BY <1>3, <1>4 DEF Libtorrent

LEMMA SeedTimeOverKeeps ==
    ASSUME Inv, NEW h \in Handles, SeedTimeOver(h) PROVE Inv'
<1>1. /\ UNCHANGED <<downloads, iqueue, cqueue, swarm, lib, net, work, freed, http,
                     handling, complete, phase, told, world, swapped, outpaced, calls>>
      /\ pairs' = [pairs EXCEPT ![h].started = "long ago"]
  BY DEF SeedTimeOver, queues, transfers, alerts, rest
<1>2. /\ TInv /\ Apart /\ Silent /\ PauseAgrees /\ pairs \in [Handles -> Pair]
      /\ downloads \subseteq Handles
  BY Shape DEF Inv, TInv
<1>3. /\ pairs' \in [Handles -> Pair]
      /\ \A g \in Handles :
            /\ pairs'[g].of = pairs[g].of /\ pairs'[g].given = pairs[g].given
            /\ pairs'[g].handle = pairs[g].handle /\ pairs'[g].paused = pairs[g].paused
  BY <1>1, <1>2 DEF Pair
<1>4. TInv' /\ Handles' = Handles
  <2>1. Steps
    BY <1>1, <1>2, <1>3, Unstepped DEF Steps
  <2> QED BY <1>2, <2>1, Stepped
<1>5. SameClips
  BY <1>2, <1>3, <1>4 DEF SameClips, Apart
<1>6. Apart'
  BY <1>1, <1>2, <1>5, QueuedClips, ApartKept
<1>7. Silent'
  BY <1>1, <1>2, <1>4 DEF Silent
<1>8. PauseAgrees'
  BY <1>1, <1>2, <1>3, <1>5, PausesKept
<1> QED BY <1>4, <1>6, <1>7, <1>8 DEF Inv

LEMMA StopAlertsKeeps == ASSUME Inv, StopAlerts PROVE Inv'
<1>1. /\ UNCHANGED <<pairs, downloads, iqueue, cqueue, swarm, lib, net, work, freed,
                     handling, complete, told, world, swapped, outpaced, calls>>
      /\ http' = <<>> /\ phase' = "joined"
  BY DEF StopAlerts, queues, transfers, rest
<1>2. TInv /\ Apart /\ Silent /\ PauseAgrees /\ HttpCapacity \in Nat
  BY ClipDownloaderAssumption DEF Inv
<1>3. <<>> \in Seq(Results) /\ Len(<<>>) = 0
  BY EmptySeq
<1>4. Range(http') = {} /\ DOMAIN http' = {}
  BY <1>1, <1>3, NoEntries, SeqEntries
<1>5. TInv' /\ Handles' = Handles
  <2>1. Steps
    BY <1>1, <1>2, <1>3, Unstepped DEF Steps
  <2> QED BY <1>2, <2>1, Stepped
<1>6. Apart'
  BY <1>1, <1>2, <1>4, <1>5, QueuedClips DEF Apart, IsTorrent, Busy
<1>7. Silent'
  BY <1>1, <1>2, <1>5 DEF Silent
<1>8. PauseAgrees'
  BY <1>1, <1>2 DEF PauseAgrees, IsTorrent, Valid, InSession
<1> QED BY <1>5, <1>6, <1>7, <1>8 DEF Inv

LEMMA StopAllKeeps == ASSUME Inv, StopAll PROVE Inv'
<1>1. /\ UNCHANGED <<pairs, lib, work, freed, http, handling, complete, world, swapped,
                     outpaced, calls>>
      /\ phase' = "stopped" /\ iqueue' = <<>> /\ cqueue' = <<>> /\ downloads' = {}
      /\ told' = [h \in Handles |->
                     IF h \in downloads THEN Heard(told[h], "removed") ELSE told[h]]
      /\ \E F \in SUBSET Stoppable :
            net' = [h \in Handles |-> IF h \in F THEN "stopping" ELSE net[h]]
      /\ swarm' = [t \in Torrents |-> [at |-> "out", paused |-> FALSE]]
  BY DEF StopAll, alerts, rest
<1>2. /\ TInv /\ Apart /\ Silent /\ net \in [Handles -> Net] /\ told \in [Handles -> Said]
  BY Shape DEF Inv
<1>3. <<>> \in Seq(Handles) /\ swarm' \in [Torrents -> Place]
  BY <1>1, EmptySeq DEF Place
<1>4. /\ net' \in [Handles -> Net]
      /\ \A g \in Handles : net'[g] = net[g] \/ (net[g] = "running" /\ net'[g] = "stopping")
  BY <1>1, <1>2 DEF Net, Stoppable
<1>5. told' \in [Handles -> Said] /\ \A g \in Handles : told'[g] # "late"
  <2>1. ASSUME NEW g \in Handles PROVE told'[g] \in Said \ {"late"}
    <3>1. told[g] \in Said \ {"late"} /\ (g \in downloads => told[g] # "removed")
      BY <1>2 DEF Silent
    <3> QED BY <1>1, <3>1 DEF Heard, Said
  <2> QED BY <1>1, <2>1
<1>6. TInv' /\ Handles' = Handles
  <2>1. Steps
    BY <1>1, <1>2, <1>3, <1>4, <1>5, Unstepped DEF Steps
  <2> QED BY <1>2, <2>1, Stepped
<1>7. Apart'
  <2>1. Range(iqueue') = {} /\ Range(cqueue') = {}
    BY <1>1, NoEntries
  <2>2. \A g \in Handles : ~pairs[g].given => net'[g] = "none" /\ ~Busy(g, Stages)'
    BY <1>1, <1>2, <1>4 DEF Apart, Busy
  <2> QED BY <1>1, <1>2, <1>6, <2>1, <2>2 DEF Apart, IsTorrent
<1>8. Silent' /\ PauseAgrees'
  BY <1>1, <1>5, <1>6 DEF Silent, PauseAgrees
<1> QED BY <1>6, <1>7, <1>8 DEF Inv

LEMMA InvStep == Inv /\ [Next]_vars => Inv'
<1> SUFFICES ASSUME Inv, [Next]_vars PROVE Inv'
  OBVIOUS
<1>1. CASE UNCHANGED vars
  <2>1. Becomes(Session) /\ UNCHANGED <<downloads, net, work, freed, http, handling,
                                        complete, phase, world, outpaced, calls, swapped,
                                        iqueue>>
    BY <1>1 DEF Becomes, Session, vars
  <2> QED BY <2>1, SessionSound, SoundBecomes DEF Inv, TInv
<1>2. ASSUME NEW x, NEW done \in BOOLEAN, NEW paused \in BOOLEAN, AddDownload(x, done, paused)
      PROVE  Inv'
  BY <1>2, AddDownloadKeeps
<1>3. ASSUME NEW h \in Handles,
             \/ RemoveDownload(h) \/ HttpStep(h) \/ SeedTimeOver(h)
             \/ \E pause \in BOOLEAN : PauseResume(h, pause)
      PROVE  Inv'
  BY <1>3, RemoveDownloadKeeps, HttpStepKeeps, SeedTimeOverKeeps, PauseResumeKeeps
<1>4. ASSUME NEW t \in Torrents, Libtorrent(t) PROVE Inv'
  BY <1>4, LibtorrentKeeps
<1>5. CASE AlertThread
  BY <1>5, OnHttpDownloadCompleteKeeps, PopAlertKeeps, SendAlertKeeps DEF AlertThread
<1>6. CASE CheckIncompleteQueue \/ CheckCompleteQueue
  BY <1>6, CheckIncompleteQueueKeeps, CheckCompleteQueueKeeps
<1>7. CASE StopAlerts \/ StopAll
  BY <1>7, StopAlertsKeeps, StopAllKeeps
<1> QED BY <1>1, <1>2, <1>3, <1>4, <1>5, <1>6, <1>7 DEF Next

LEMMA Invariance == Spec => []Inv
<1>1. Init => Inv
  BY InvInit
<1>2. Inv /\ [Next]_vars => Inv'
  BY InvStep
<1> QED BY <1>1, <1>2, PTL DEF Spec

(* Whatever clips there are and however the calls, results and alerts of     *)
(* FClipDownloaderEx interleave, its lists hold what they are declared to    *)
(* hold.                                                                     *)
THEOREM TypeCorrect == Spec => []TypeOK
<1>1. Inv => TypeOK
  BY Typed DEF Inv
<1> QED BY <1>1, Invariance, PTL

(* A torrent in the session is paused exactly when its clip is, however the  *)
(* pause raced the metafile, the queues, an eviction or a swap.              *)
THEOREM PausesAgree == Spec => []PauseAgrees
<1>1. Inv => PauseAgrees
  BY DEF Inv
<1> QED BY <1>1, Invariance, PTL

(* Nothing is said of a clip after the ALERT_ITEM_REMOVED of its removal,    *)
(* however late the results of HTTP and the alerts of libtorrent come.       *)
THEOREM NothingAfterRemoval == Spec => []SilentAfterRemoval
<1>1. Inv => SilentAfterRemoval
  BY DEF Inv, Silent, SilentAfterRemoval
<1> QED BY <1>1, Invariance, PTL

-----------------------------------------------------------------------------
(* As long as no pause or resume has come too soon (outpaced), a transfer    *)
(* has at most one worker, and there is at most one result of it.            *)
Shown(h) == \E r \in Range(http) : r.h = h

(* The result of h was sent, and its record is deleted or about to be.       *)
Delivered(h) ==
    \/ net[h] = "ended"
    \/ net[h] \in {"running", "stopping"} /\ work[h] = At("reported")

OneResult == \A i, j \in DOMAIN http : http[i].h = http[j].h => i = j

OneWorker(h) ==
    /\ net[h] \in {"none", "ended"} => work[h] = Idle
    /\ net[h] \in {"running", "stopping"} =>
          work[h] \in {At("fetching"), At("passed"), At("reported")}
    /\ net[h] = "paused" => work[h] \in {Idle, At("fetching"), At("aborting")}
    /\ Shown(h) \/ h \in freed => Delivered(h)
    /\ h \in freed => ~Shown(h)

Alone == OneResult /\ \A h \in DOMAIN net : OneWorker(h)

LEMMA AloneKept == ASSUME Alone, UNCHANGED <<net, work, freed, http>> PROVE Alone'
BY DEF Alone, OneResult, OneWorker, Shown, Delivered

(* The step concerns the record of h only.                                   *)
LEMMA AloneBecomes ==
    ASSUME TInv, Alone, NEW h \in Handles, net' \in [Handles -> Net],
           OneResult', OneWorker(h)',
           \A g \in Handles : g # h =>
               /\ net'[g] = net[g] /\ work'[g] = work[g]
               /\ (Shown(g)' <=> Shown(g)) /\ (g \in freed' <=> g \in freed)
    PROVE  Alone'
<1>1. net \in [Handles -> Net]
  BY Shape
<1>2. ASSUME NEW g \in Handles PROVE OneWorker(g)'
  BY <1>1, <1>2 DEF Alone, OneWorker, Delivered
<1> QED BY <1>2 DEF Alone

(* A transfer is told to abort: its worker goes on.                          *)
LEMMA AloneStopping ==
    ASSUME TInv, Alone, net' \in [Handles -> Net],
           \A g \in Handles : \/ net'[g] = net[g]
                              \/ net[g] = "running" /\ net'[g] = "stopping",
           UNCHANGED <<work, freed, http>>
    PROVE  Alone'
<1>1. net \in [Handles -> Net]
  BY Shape
<1>2. ASSUME NEW g \in Handles PROVE OneWorker(g)'
  BY <1>1, <1>2 DEF Alone, OneWorker, Delivered, Shown
<1> QED BY <1>2 DEF Alone, OneResult

LEMMA AddDownloadAlone ==
    ASSUME TInv, Alone, NEW x, NEW done \in BOOLEAN, NEW paused \in BOOLEAN,
           AddDownload(x, done, paused)
    PROVE  Alone'
<1>1. PICK h \in Nat, p \in Pair, m \in {"none", "running"}, w \in Work :
         Added(x, h, p, m, w)
  BY AddDownloadAdds
<1>2. /\ h \notin Handles /\ net'[h] = m /\ work'[h] = w
      /\ w = IF m = "none" THEN Idle ELSE Started
      /\ \A g \in Handles : net'[g] = net[g] /\ work'[g] = work[g]
      /\ UNCHANGED <<freed, http>>
      /\ net' = Append(net, m)
  BY <1>1 DEF Added
<1>3. h \notin freed /\ ~Shown(h)
  BY <1>2, ResultsAre DEF TInv, Shown
<1>4. OneWorker(h)'
  BY <1>2, <1>3, AtIs DEF OneWorker, Shown
<1>5. DOMAIN net = Handles
  BY Shape
<1>6. ASSUME NEW g \in Handles PROVE OneWorker(g)'
  BY <1>2, <1>5, <1>6 DEF Alone, OneWorker, Delivered, Shown
<1>7. DOMAIN net' = Handles \cup {h}
  <2>1. m \in Net /\ net \in Seq(Net) /\ Len(net) = Len(pairs) /\ Len(pairs) \in Nat
    BY Shape DEF TInv, Net
  <2>2. net' \in Seq(Net) /\ Len(net') = Len(pairs) + 1
    BY <1>2, <2>1, Appended
  <2>3. DOMAIN net' = 1..Len(pairs) + 1
    BY <2>2, SeqEntries
  <2> QED BY <1>1, <2>1, <2>3, Shape DEF Added
<1> QED BY <1>2, <1>4, <1>6, <1>7 DEF Alone, OneResult

(* A pause meets a worker that is fetching, a resume none at all.            *)
LEMMA PauseResumeAlone ==
    ASSUME TInv, Alone, NEW h \in Handles, NEW pause \in BOOLEAN, PauseResume(h, pause),
           ~outpaced'
    PROVE  /\ Alone'
           /\ \A g \in Handles : \/ net'[g] = net[g] /\ work'[g] = work[g]
                                 \/ Coming(g) /\ Coming(g)'
<1>1. UNCHANGED <<freed, http>>
  BY DEF PauseResume, alerts
<1>2. \/ UNCHANGED <<net, work>>
      \/ Pause(h)
      \/ Resume(h)
  BY DEF PauseResume
<1>3. /\ net \in [Handles -> Net] /\ work \in [Handles -> Work] /\ OneWorker(h)
      /\ {"fetching", "aborting", "passed", "reported"} \subseteq Stages
  BY Shape DEF Alone, Stages
<1>4. \A g : Shown(g)' <=> Shown(g)
  BY <1>1 DEF Shown
<1>5. OneResult'
  BY <1>1 DEF Alone, OneResult
<1>6. CASE UNCHANGED <<net, work>>
  BY <1>1, <1>6, AloneKept
<1>7. CASE Pause(h) /\ net' # net
  <2>1. /\ net' \in [Handles -> Net] /\ work' = work
        /\ \A g \in Handles : g # h => net'[g] = net[g]
        /\ net[h] = "running" /\ net'[h] = "paused"
        /\ outpaced' = (outpaced \/ Busy(h, {"passed", "reported"}))
    BY <1>7, PauseDoes
  <2>2. ~(work[h]["passed"] > 0) /\ ~(work[h]["reported"] > 0)
    BY <2>1 DEF Busy
  <2>3. work[h] = At("fetching")
    BY <1>3, <2>1, <2>2, AtIs DEF OneWorker
  <2>4. ~Shown(h) /\ h \notin freed
    BY <1>3, <2>1, <2>3, AtIs DEF OneWorker, Delivered
  <2>5. OneWorker(h)'
    BY <1>1, <1>4, <2>1, <2>3, <2>4 DEF OneWorker
  <2>6. Coming(h) /\ Coming(h)'
    BY <1>3, <2>1, <2>3, AtIs DEF Coming, Busy
  <2> QED BY <1>1, <1>4, <1>5, <2>1, <2>5, <2>6, AloneBecomes
<1>8. CASE Resume(h) /\ (net' # net \/ work' # work)
  <2>1. /\ net' \in [Handles -> Net]
        /\ \A g \in Handles : g # h => net'[g] = net[g] /\ work'[g] = work[g]
        /\ net[h] = "paused" /\ net'[h] = "running"
        /\ work'[h] = [work[h] EXCEPT !["fetching"] = @ + 1]
        /\ outpaced' = (outpaced \/ Busy(h, Stages))
    BY <1>8, ResumeDoes
  <2>2. \A r \in Stages : ~(work[h][r] > 0)
    BY <2>1 DEF Busy
  <2>3. work[h] = Idle
    BY <1>3, <2>1, <2>2, AtIs DEF OneWorker
  <2>4. work'[h] = At("fetching")
    BY <2>1, <2>3, AtIs
  <2>5. ~Shown(h) /\ h \notin freed
    BY <1>3, <2>1 DEF OneWorker, Delivered
  <2>6. OneWorker(h)'
    BY <1>1, <1>4, <2>1, <2>4, <2>5 DEF OneWorker
  <2>7. Coming(h) /\ Coming(h)'
    BY <1>3, <2>1, <2>4, AtIs DEF Coming, Busy
  <2> QED BY <1>1, <1>4, <1>5, <2>1, <2>6, <2>7, AloneBecomes
<1> QED BY <1>2, <1>6, <1>7, <1>8, PauseDoes

(* The worker of h is alone: what it does is what the next stage is.         *)
LEMMA HttpStepAlone ==
    ASSUME TInv, Alone, NEW h \in Handles, HttpStep(h)
    PROVE  /\ Alone'
           /\ \A g \in Handles : g # h => net'[g] = net[g] /\ work'[g] = work[g]
                                          /\ (Shown(g)' <=> Shown(g))
           /\ \/ net[h] = "paused" /\ net'[h] = "paused" /\ http' = http
              \/ /\ work[h] = At("fetching") /\ work'[h] = At("passed") /\ http' = http
                 /\ net' = net
              \/ /\ work[h] = At("passed") /\ work'[h] = At("reported")
                 /\ net' = net /\ ~Shown(h)
                 /\ \E hr \in {"S_OK", "E_FAIL", "E_ABORT"} : Deliver(h, hr)
              \/ /\ work[h] = At("reported") /\ work'[h] = Idle /\ http' = http
                 /\ net[h] # "paused" /\ net'[h] = "ended"
<1>1. /\ net \in [Handles -> Net] /\ work \in [Handles -> Work] /\ OneWorker(h)
      /\ {"fetching", "aborting", "passed", "reported"} \subseteq Stages
  BY Shape DEF Alone, Stages
<1>2. /\ freed' = freed /\ net' \in [Handles -> Net] /\ work' \in [Handles -> Work]
      /\ \A g \in Handles : g # h => net'[g] = net[g] /\ work'[g] = work[g]
  BY HttpStepDoes DEF Elsewhere
<1>3. ASSUME http' = http
      PROVE  OneResult' /\ \A g : Shown(g)' <=> Shown(g)
  BY <1>3 DEF Alone, OneResult, Shown
<1>4. \A s \in Stages : work[h][s] > 0 => work[h] = At(s)
  BY <1>1, AtIs DEF OneWorker, Net
<1>5. CASE HttpAborts(h)
  <2>1. /\ net' = net /\ http' = http /\ net[h] = "paused" /\ work[h] = At("fetching")
        /\ work' = Move(h, "fetching", "aborting")
    BY <1>1, <1>4, <1>5 DEF HttpAborts
  <2>2. work'[h] = At("aborting")
    BY <1>1, <2>1, AtIs, MoveIs
  <2>3. OneWorker(h)'
    BY <1>1, <1>2, <1>3, <2>1, <2>2 DEF OneWorker, Delivered
  <2> QED BY <1>2, <1>3, <2>1, <2>3, AloneBecomes
<1>6. CASE HttpChecks(h) /\ net[h] = "paused"
  <2>1. /\ net' = net /\ http' = http /\ work[h] = At("fetching")
        /\ work' = Leave(h, "fetching")
    BY <1>1, <1>4, <1>6 DEF HttpChecks
  <2>2. work'[h] = Idle
    BY <1>1, <2>1, AtIs, LeaveIs
  <2>3. OneWorker(h)'
    BY <1>1, <1>2, <1>3, <1>6, <2>1, <2>2 DEF OneWorker, Delivered
  <2> QED BY <1>2, <1>3, <1>6, <2>1, <2>3, AloneBecomes
<1>7. CASE HttpChecks(h) /\ net[h] # "paused"
  <2>1. /\ net' = net /\ http' = http /\ work[h] = At("fetching")
        /\ net[h] \in {"running", "stopping"}
    BY <1>1, <1>4, <1>7, AtIs DEF HttpChecks, OneWorker, Net
  <2>2. work' = Move(h, "fetching", "passed")
    BY <1>7, <2>1 DEF HttpChecks
  <2>3. work'[h] = At("passed")
    BY <1>1, <2>1, <2>2, AtIs, MoveIs
  <2>4. ~Shown(h) /\ h \notin freed
    BY <1>1, <2>1, AtIs DEF OneWorker, Delivered
  <2>5. OneWorker(h)'
    BY <1>2, <1>3, <2>1, <2>3, <2>4 DEF OneWorker
  <2> QED BY <1>2, <1>3, <2>1, <2>3, <2>5, AloneBecomes
<1>8. CASE HttpReports(h)
  <2>1. /\ net' = net /\ work[h] = At("passed") /\ work' = Move(h, "passed", "reported")
        /\ net[h] \in {"running", "stopping"}
    BY <1>1, <1>4, <1>8, AtIs DEF HttpReports, OneWorker, Net
  <2>2. PICK hr \in {"S_OK", "E_FAIL", "E_ABORT"} : Deliver(h, hr)
    BY <1>8, <2>1 DEF HttpReports, Outcomes
  <2>3. work'[h] = At("reported")
    BY <1>1, <2>1, AtIs, MoveIs
  <2>4. ~Shown(h) /\ h \notin freed
    BY <1>1, <2>1, AtIs DEF OneWorker, Delivered
  <2>5. OneResult' /\ \A g : g # h => (Shown(g)' <=> Shown(g))
    BY <2>2, <2>4, DeliverDoes DEF Alone, OneResult, Shown
  <2>6. OneWorker(h)'
    BY <1>2, <2>1, <2>3, <2>4 DEF OneWorker, Delivered
  <2> QED BY <1>2, <2>1, <2>2, <2>3, <2>4, <2>5, <2>6, AloneBecomes
<1>9. CASE HttpGivesUp(h)
  <2>1. net' = net /\ work[h] = At("aborting") /\ net[h] = "paused"
    BY <1>1, <1>4, <1>9, AtIs DEF HttpGivesUp, OneWorker, Net
  <2>2. http' = http /\ work' = Leave(h, "aborting")
    BY <1>9, <2>1 DEF HttpGivesUp
  <2>3. work'[h] = Idle
    BY <1>1, <2>1, <2>2, AtIs, LeaveIs
  <2>4. OneWorker(h)'
    BY <1>1, <1>2, <1>3, <2>1, <2>2, <2>3 DEF OneWorker, Delivered
  <2> QED BY <1>2, <1>3, <2>1, <2>2, <2>4, AloneBecomes
<1>10. CASE HttpUnlists(h)
  <2>1. /\ http' = http /\ work[h] = At("reported") /\ work' = Leave(h, "reported")
        /\ net[h] \in {"running", "stopping"} /\ net'[h] = "ended"
    BY <1>1, <1>4, <1>10, AtIs DEF HttpUnlists, OneWorker, Net
  <2>2. work'[h] = Idle
    BY <1>1, <2>1, AtIs, LeaveIs
  <2>3. OneWorker(h)'
    BY <1>1, <1>2, <1>3, <2>1, <2>2 DEF OneWorker, Delivered
  <2> QED BY <1>2, <1>3, <2>1, <2>2, <2>3, AloneBecomes
<1> QED BY <1>5, <1>6, <1>7, <1>8, <1>9, <1>10 DEF HttpStep

(* The result that is taken was the only one of its handle.                  *)
LEMMA OnHttpDownloadCompleteAlone ==
    ASSUME TInv, Apart, Alone, OnHttpDownloadComplete
    PROVE  Alone' /\ Delivered(Last(http).h) /\ Last(http).h \notin freed
<1>1. PICK h : h = Last(http).h
  OBVIOUS
<1>2. /\ http # <<>> /\ http' = Front(http) /\ UNCHANGED <<net, work>>
      /\ freed' = freed \/ freed' = freed \cup {h}
  BY <1>1 DEF OnHttpDownloadComplete
<1>3. OneResult
  BY DEF Alone
<1>4. /\ h \in Handles /\ Last(http) \in Range(http)
      /\ Range(Front(http)) \subseteq Range(http)
      /\ \A r \in Range(http) : r = Last(http) \/ r \in Range(Front(http))
      /\ \A r \in Range(Front(http)) : r.h # h
      /\ \A i, j \in DOMAIN Front(http) : Front(http)[i].h = Front(http)[j].h => i = j
  BY <1>1, <1>2, <1>3, ResultTaken DEF OneResult
<1>5. net \in [Handles -> Net]
  BY Shape
<1>6. OneWorker(h) /\ Shown(h)
  BY <1>1, <1>4, <1>5 DEF Alone, Shown
<1>7. Delivered(h) /\ h \notin freed
  BY <1>6 DEF OneWorker
<1>8. /\ ~Shown(h)' /\ OneResult'
      /\ \A g : g # h => (Shown(g)' <=> Shown(g))
  BY <1>1, <1>2, <1>4 DEF Shown, OneResult
<1>9. OneWorker(h)'
  BY <1>2, <1>6, <1>7, <1>8 DEF OneWorker, Delivered
<1>10. Alone'
  BY <1>2, <1>4, <1>5, <1>8, <1>9, AloneBecomes
<1> QED BY <1>1, <1>7, <1>10

LEMMA OutpacedStays == [Next]_vars /\ ~outpaced' => ~outpaced
BY DEF Next, vars, AddDownload, RemoveDownload, PauseResume, Pause, Resume, HttpStep,
       HttpAborts, HttpChecks, HttpReports, HttpGivesUp, HttpUnlists, Elsewhere,
       OnHttpDownloadComplete, PopAlert, SendAlert, AlertThread, Libtorrent, Checked, Leeched,
       SeedTimeOver, StopAlerts, StopAll, CheckIncompleteQueue, CheckCompleteQueue, rest

LEMMA AloneStep == ASSUME Inv, Alone, [Next]_vars, ~outpaced' PROVE Alone'
<1>1. TInv /\ Apart /\ net \in [Handles -> Net]
  BY Shape DEF Inv
<1>2. CASE UNCHANGED <<net, work, freed, http>>
  BY <1>2, AloneKept
<1>3. ASSUME NEW x, NEW done \in BOOLEAN, NEW paused \in BOOLEAN, AddDownload(x, done, paused)
      PROVE  Alone'
  BY <1>1, <1>3, AddDownloadAlone
<1>4. ASSUME NEW h \in Handles, RemoveDownload(h) PROVE Alone'
  <2>1. /\ UNCHANGED <<work, freed, http>>
        /\ \/ net' = net
           \/ net[h] = "running" /\ net' = [net EXCEPT ![h] = "stopping"]
    BY <1>4 DEF RemoveDownload, StopDownload, alerts
  <2>2. /\ net' \in [Handles -> Net]
        /\ \A g \in Handles : \/ net'[g] = net[g]
                              \/ net[g] = "running" /\ net'[g] = "stopping"
    BY <1>1, <2>1 DEF Net
  <2> QED BY <1>1, <2>1, <2>2, AloneStopping
<1>5. ASSUME NEW h \in Handles, NEW pause \in BOOLEAN, PauseResume(h, pause) PROVE Alone'
  BY <1>1, <1>5, PauseResumeAlone
<1>6. ASSUME NEW h \in Handles, HttpStep(h) PROVE Alone'
  BY <1>1, <1>6, HttpStepAlone
<1>7. ASSUME NEW h \in Handles, SeedTimeOver(h) PROVE Alone'
  BY <1>2, <1>7 DEF SeedTimeOver, transfers, alerts
<1>8. ASSUME NEW t \in Torrents, Libtorrent(t) PROVE Alone'
  BY <1>2, <1>8 DEF Libtorrent, Checked, Leeched, transfers, alerts
<1>9. CASE AlertThread
  <2>1. ASSUME PopAlert \/ SendAlert PROVE UNCHANGED <<net, work, freed, http>>
    BY <2>1 DEF PopAlert, SendAlert, transfers
  <2> QED BY <1>1, <1>2, <1>9, <2>1, OnHttpDownloadCompleteAlone DEF AlertThread
<1>10. CASE CheckIncompleteQueue \/ CheckCompleteQueue
  BY <1>2, <1>10 DEF CheckIncompleteQueue, CheckCompleteQueue, transfers, alerts
<1>11. CASE StopAlerts
  <2>1. UNCHANGED <<net, work, freed>> /\ http' = <<>>
    BY <1>11 DEF StopAlerts, transfers
  <2>2. DOMAIN http' = {} /\ Range(http') = {}
    BY <2>1, NoEntries, EmptySeq, SeqEntries
  <2>3. OneResult' /\ \A h : ~Shown(h)'
    BY <2>2 DEF OneResult, Shown
  <2>4. ASSUME NEW h \in Handles PROVE OneWorker(h)'
    BY <1>1, <2>1, <2>3 DEF Alone, OneWorker, Delivered
  <2> QED BY <1>1, <2>1, <2>3, <2>4 DEF Alone
<1>12. CASE StopAll
  <2>1. /\ UNCHANGED <<work, freed, http>>
        /\ \E F \in SUBSET Stoppable :
              net' = [h \in Handles |-> IF h \in F THEN "stopping" ELSE net[h]]
    BY <1>12 DEF StopAll, alerts
  <2>2. /\ net' \in [Handles -> Net]
        /\ \A g \in Handles : \/ net'[g] = net[g]
                              \/ net[g] = "running" /\ net'[g] = "stopping"
    BY <1>1, <2>1 DEF Net, Stoppable
  <2> QED BY <1>1, <2>1, <2>2, AloneStopping
<1>13. CASE UNCHANGED vars
  BY <1>2, <1>13 DEF vars
<1> QED BY <1>3, <1>4, <1>5, <1>6, <1>7, <1>8, <1>9, <1>10, <1>11, <1>12, <1>13 DEF Next

LEMMA AloneInit == Init => Alone
<1> SUFFICES ASSUME Init PROVE Alone
  OBVIOUS
<1>1. net = <<>> /\ http = <<>>
  BY DEF Init
<1>2. DOMAIN net = {} /\ DOMAIN http = {}
  BY <1>1, EmptySeq, SeqEntries
<1> QED BY <1>2 DEF Alone, OneResult

-----------------------------------------------------------------------------
(* Where the torrents are, as long as none has been swapped.                 *)
Queued(iq, cq) == Range(iq) \cup Range(cq)

Failed(h) == told[h] = "failed"

(* Both queues hold listed torrents that are not in the session, each once;  *)
(* one whose metafile is fetched, or could not be had, has no handle yet;    *)
(* the session holds the torrents of listed handles; none got lost.          *)
Homes(iq, cq, ps, sw) ==
    /\ IsInjective(iq) /\ IsInjective(cq) /\ Range(iq) \cap Range(cq) = {}
    /\ \A h \in Queued(iq, cq) :
          h \in downloads /\ ~Coming(h) /\ ~Failed(h) /\ sw[pairs[h].of].at = "out"
    /\ \A h \in downloads : Coming(h) \/ Failed(h) => ~ps[h].handle
    /\ \A t \in Torrents : sw[t].at # "out" =>
          \E h \in downloads : ps[h].handle /\ pairs[h].of = t
    /\ phase = "running" =>
          \A h \in downloads : IsTorrent(h) /\ pairs[h].given =>
              \/ Coming(h) \/ h \in Queued(iq, cq) \/ Unfetched(h)
              \/ ps[h].handle /\ sw[pairs[h].of].at # "out"

(* What failed is over: no other result is to come.                          *)
Over == \A h \in downloads : Failed(h) => ~Coming(h)

Placed == Homes(iqueue, cqueue, pairs, swarm) /\ Over

LEMMA CountIs ==
    ASSUME NEW S, NEW q \in Seq(S), IsInjective(q), NEW h
    PROVE  Count(q, h) = IF h \in Range(q) THEN 1 ELSE 0
<1>1. Range(q) = {q[i] : i \in DOMAIN q}
  BY SeqEntries
<1>2. CASE h \notin Range(q)
  <2>1. {i \in DOMAIN q : q[i] = h} = {}
    BY <1>1, <1>2
  <2> QED BY <1>2, <2>1, FS_EmptySet DEF Count
<1>3. CASE h \in Range(q)
  <2>1. PICK i \in DOMAIN q : q[i] = h
    BY <1>1, <1>3
  <2>2. {j \in DOMAIN q : q[j] = h} = {i}
    BY <2>1 DEF IsInjective
  <2> QED BY <1>3, <2>2, FS_Singleton DEF Count
<1> QED BY <1>2, <1>3

LEMMA PlacedOnce == Inv /\ Placed => OnePlace
<1> SUFFICES ASSUME Inv, Placed PROVE OnePlace
  OBVIOUS
<1>1. TInv /\ Apart /\ downloads \subseteq Handles /\ iqueue \in Seq(Handles)
      /\ cqueue \in Seq(Handles)
  BY DEF Inv, TInv
<1>2. ASSUME NEW h \in Handles
      PROVE  /\ Count(iqueue, h) = IF h \in Range(iqueue) THEN 1 ELSE 0
             /\ Count(cqueue, h) = IF h \in Range(cqueue) THEN 1 ELSE 0
  BY <1>1, CountIs DEF Placed, Homes
<1>3. ASSUME NEW h \in Handles, phase = "running", IsTorrent(h), pairs[h].given
      PROVE  InOnePlace(h)
  <2>1. /\ h \in Queued(iqueue, cqueue) => h \in downloads /\ ~Coming(h) /\ ~Valid(h)
        /\ ~(h \in Range(iqueue) /\ h \in Range(cqueue))
    BY DEF Placed, Homes, Valid, InSession
  <2>2. CASE h \notin downloads
    <3>1. h \notin Range(iqueue) /\ h \notin Range(cqueue)
      BY <2>1, <2>2 DEF Queued
    <3> QED BY <1>2, <2>2, <3>1 DEF InOnePlace
  <2>3. CASE h \in downloads
    <3>1. /\ Coming(h) => ~Valid(h)
          /\ Coming(h) \/ h \in Queued(iqueue, cqueue) \/ Unfetched(h) \/ Valid(h)
      BY <1>3, <2>3 DEF Placed, Homes, Valid, InSession
    <3>2. Places(h) = 1 \/ (Places(h) = 0 /\ Unfetched(h))
      BY <1>2, <2>1, <3>1 DEF Places, Queued
    <3> QED BY <2>3, <3>2 DEF InOnePlace
  <2> QED BY <2>2, <2>3
<1>4. ASSUME NEW t \in SwarmSet PROVE Owners(pairs, t) # {}
  <2>1. t \in Torrents /\ swarm[t].at # "out"
    BY DEF SwarmSet, InSession
  <2>2. PICK h \in downloads : pairs[h].handle /\ pairs[h].of = t
    BY <2>1 DEF Placed, Homes
  <2> QED BY <2>2 DEF Owners
<1> QED BY <1>3, <1>4 DEF OnePlace

LEMMA PlacedInit == Init => Placed
<1> SUFFICES ASSUME Init PROVE Placed
  OBVIOUS
<1>1. iqueue = <<>> /\ cqueue = <<>> /\ downloads = {}
      /\ \A t \in Torrents : swarm[t].at = "out"
  BY DEF Init
<1> QED BY <1>1, NoEntries DEF Placed, Homes, Over, Queued

(* A check of the queues, seen from the session it leaves.                   *)
LEMMA HomesBecome ==
    ASSUME Inv, Over, NEW s, Sound(s), Becomes(s),
           UNCHANGED <<downloads, net, work, http, phase, world>>,
           Homes(iqueue', s.cqueue, s.pairs, s.swarm)
    PROVE  Placed'
<1>1. /\ pairs' = s.pairs /\ swarm' = s.swarm /\ told' = told /\ cqueue' = s.cqueue
      /\ s \in Sessions /\ downloads \subseteq Handles
  BY DEF Becomes, Sound, Inv, TInv
<1>2. \A h \in Handles : /\ pairs'[h].of = pairs[h].of /\ pairs'[h].given = pairs[h].given
                         /\ pairs'[h].paused = pairs[h].paused
  BY <1>1 DEF Sound
<1>3. \A h \in Handles : /\ Coming(h)' = Coming(h) /\ Failed(h)' = Failed(h)
                         /\ IsTorrent(h)' = IsTorrent(h) /\ Unfetched(h)' = Unfetched(h)
  BY <1>1, <1>2 DEF Coming, Busy, Failed, IsTorrent, Unfetched
<1>4. Over'
  BY <1>1, <1>3 DEF Over
<1>5. Homes(iqueue, cqueue, pairs, swarm)'
  BY <1>1, <1>2, <1>3 DEF Homes, Queued
<1> QED BY <1>4, <1>5 DEF Placed

(* A torrent the session does not have is added, if it can be loaded.        *)
LEMMA AddTorrentAdds ==
    ASSUME TInv, NEW s \in Sessions, NEW h \in Handles, h \in downloads,
           NEW t \in Torrents, t = s.pairs[h].of, s.swarm[t].at = "out",
           NEW r, r = AddTorrent(s, h)
    PROVE  \/ r = s /\ t \in world.unreadable
           \/ /\ r.pairs = [s.pairs EXCEPT ![h].handle = TRUE]
              /\ r.swarm = [s.swarm EXCEPT
                              ![t] = [at |-> "checking", paused |-> s.pairs[h].paused]]
<1>1. CASE t \in world.unreadable
  BY <1>1 DEF AddTorrent
<1>2. CASE t \notin world.unreadable
  <2> DEFINE place == [at |-> "checking", paused |-> s.pairs[h].paused]
             heard == Heard(s.told[h], "other")
  <2>1. r = [s EXCEPT !.pairs[h].handle = TRUE, !.swarm[t] = place, !.told[h] = heard]
    BY <1>2 DEF AddTorrent, Sessions
  <2> HIDE DEF place, heard
  <2>2. /\ r.pairs = [s.pairs EXCEPT ![h].handle = TRUE]
        /\ r.swarm = [s.swarm EXCEPT ![t] = place]
    BY <2>1 DEF Sessions
  <2> QED BY <2>2 DEF place
<1> QED BY <1>1, <1>2

(* The head of a queue goes to the session, unless its metafile is           *)
(* unreadable.                                                               *)
LEMMA AddTorrentHomes ==
    ASSUME Inv, NEW s, Sound(s), NEW iq, NEW cq, Homes(iq, cq, s.pairs, s.swarm),
           \A g \in Queued(iq, cq) : pairs[g].given /\ IsTorrent(g),
           NEW h \in Queued(iq, cq), NEW iq2, NEW cq2,
           IsInjective(iq2), IsInjective(cq2), Range(iq2) \cap Range(cq2) = {},
           Queued(iq2, cq2) = Queued(iq, cq) \ {h},
           NEW r, r = AddTorrent(s, h)
    PROVE  Homes(iq2, cq2, r.pairs, r.swarm)
<1> DEFINE t == s.pairs[h].of
<1>0. pairs[h].given /\ IsTorrent(h)
  OBVIOUS
<1>1. /\ h \in downloads /\ ~Coming(h) /\ ~Failed(h) /\ s.swarm[pairs[h].of].at = "out"
      /\ s \in Sessions /\ downloads \subseteq Handles
  BY DEF Homes, Sound, Inv, TInv
<1>2. t \in Torrents /\ t = pairs[h].of /\ h \in Handles
  BY <1>0, <1>1 DEF Sound, IsTorrent
<1>3. \/ r = s /\ t \in world.unreadable
      \/ /\ r.pairs = [s.pairs EXCEPT ![h].handle = TRUE]
         /\ r.swarm = [s.swarm EXCEPT
                         ![t] = [at |-> "checking", paused |-> s.pairs[h].paused]]
  BY <1>1, <1>2, AddTorrentAdds DEF Inv
<1>4. s.pairs \in [Handles -> Pair] /\ s.swarm \in [Torrents -> Place]
  BY <1>1 DEF Sessions
<1> HIDE DEF t
<1>5. CASE r = s /\ t \in world.unreadable
  <2>1. Unfetched(h)
    BY <1>2, <1>5 DEF Unfetched
  <2> QED BY <1>5, <2>1 DEF Homes
<1>6. CASE /\ r.pairs = [s.pairs EXCEPT ![h].handle = TRUE]
           /\ r.swarm = [s.swarm EXCEPT
                           ![t] = [at |-> "checking", paused |-> s.pairs[h].paused]]
  <2>1. /\ r.swarm[t].at # "out"
        /\ \A u \in Torrents : u # t => r.swarm[u] = s.swarm[u]
    BY <1>2, <1>4, <1>6
  <2>2. /\ \A g \in Handles : g # h => r.pairs[g].handle = s.pairs[g].handle
        /\ r.pairs[h].handle
    <3>1. PICK p \in [Handles -> Pair] : p = s.pairs
      BY <1>4
    <3>2. PICK q : q = r.pairs
      OBVIOUS
    <3> DEFINE b == TRUE
    <3>3. q = [p EXCEPT ![h].handle = b] /\ b \in BOOLEAN
      BY <1>6, <3>1, <3>2
    <3> HIDE DEF b
    <3>4. \A g \in Handles : q[g].handle = IF g = h THEN b ELSE p[g].handle
      BY <1>2, <3>3, HandleSet
    <3>5. q[h].handle = b /\ \A g \in Handles : g # h => q[g].handle = p[g].handle
      BY <1>2, <3>4
    <3> QED BY <3>1, <3>2, <3>5 DEF b
  <2>3. \A g \in Queued(iq2, cq2) :
           g \in downloads /\ ~Coming(g) /\ ~Failed(g) /\ r.swarm[pairs[g].of].at = "out"
    <3> SUFFICES ASSUME NEW g \in Queued(iq2, cq2) PROVE r.swarm[pairs[g].of].at = "out"
      BY DEF Homes
    <3>1. /\ g \in Queued(iq, cq) /\ g # h /\ g \in downloads
          /\ s.swarm[pairs[g].of].at = "out"
      BY DEF Homes
    <3>2. pairs[g].of # t /\ pairs[g].of \in Torrents
      BY <1>0, <1>1, <1>2, <3>1 DEF Inv, Apart, IsTorrent
    <3> QED BY <2>1, <3>1, <3>2
  <2>4. \A g \in downloads : Coming(g) \/ Failed(g) => ~r.pairs[g].handle
    <3> SUFFICES ASSUME NEW g \in downloads, Coming(g) \/ Failed(g) PROVE ~r.pairs[g].handle
      OBVIOUS
    <3>1. g # h /\ g \in Handles
      BY <1>1
    <3>2. r.pairs[g].handle = s.pairs[g].handle
      BY <2>2, <3>1
    <3>3. ~s.pairs[g].handle
      BY DEF Homes
    <3> QED BY <3>2, <3>3
  <2>5. ASSUME NEW u \in Torrents, r.swarm[u].at # "out"
        PROVE  \E g \in downloads : r.pairs[g].handle /\ pairs[g].of = u
    <3>1. CASE u = t
      BY <1>1, <1>2, <2>2, <3>1
    <3>2. CASE u # t
      <4>1. PICK g \in downloads : s.pairs[g].handle /\ pairs[g].of = u
        BY <2>1, <2>5, <3>2 DEF Homes
      <4>2. g \in Handles /\ g # h
        BY <1>1, <1>2, <3>2, <4>1
      <4>3. r.pairs[g].handle = s.pairs[g].handle
        BY <2>2, <4>2
      <4> QED BY <4>1, <4>3
    <3> QED BY <3>1, <3>2
  <2>6. ASSUME phase = "running", NEW g \in downloads, IsTorrent(g), pairs[g].given
        PROVE  \/ Coming(g) \/ g \in Queued(iq2, cq2) \/ Unfetched(g)
               \/ r.pairs[g].handle /\ r.swarm[pairs[g].of].at # "out"
    <3>1. CASE g = h
      BY <1>2, <2>1, <2>2, <3>1
    <3>2. CASE g # h
      <4>1. \/ Coming(g) \/ g \in Queued(iq, cq) \/ Unfetched(g)
            \/ s.pairs[g].handle /\ s.swarm[pairs[g].of].at # "out"
        BY <2>6 DEF Homes
      <4>2. g \in Handles /\ pairs[g].of \in Torrents
        BY <1>1, <2>6 DEF IsTorrent
      <4>3. r.pairs[g].handle = s.pairs[g].handle
        BY <2>2, <3>2, <4>2
      <4>4. pairs[g].of # t
        BY <1>0, <1>1, <1>2, <2>6, <3>2 DEF Inv, Apart
      <4> QED BY <2>1, <3>2, <4>1, <4>2, <4>3, <4>4
    <3> QED BY <3>1, <3>2
  <2> QED BY <2>3, <2>4, <2>5, <2>6 DEF Homes
<1> QED BY <1>3, <1>5, <1>6

(* A seed goes from the session to the queue of complete torrents.           *)
LEMMA EvictionHomes ==
    ASSUME Inv, Placed, NEW s \in Evictions
    PROVE  /\ Homes(iqueue, s.cqueue, s.pairs, s.swarm)
           /\ \A g \in Queued(iqueue, s.cqueue) : pairs[g].given /\ IsTorrent(g)
           /\ s.cqueue \in Seq(Handles)
<1>1. /\ s \in Sessions /\ s.pairs = pairs
      /\ TInv /\ Apart /\ downloads \subseteq Handles
  BY EvictionsDo DEF Inv, TInv
<1>2. CASE s = Session
  <2>1. s.cqueue = cqueue /\ s.swarm = swarm
    BY <1>2 DEF Session
  <2> QED BY <1>1, <2>1 DEF Placed, Apart, Queued, TInv
<1>3. ASSUME NEW t \in SwarmSet, NEW g \in downloads, pairs[g].handle, pairs[g].of = t,
             s.cqueue = Append(cqueue, g), s.swarm = Out(swarm, t)
      PROVE  /\ Homes(iqueue, s.cqueue, s.pairs, s.swarm)
             /\ \A h \in Queued(iqueue, s.cqueue) : pairs[h].given /\ IsTorrent(h)
  <2>1. g \in Handles /\ t \in Torrents /\ pairs[g].given /\ IsTorrent(g)
        /\ swarm[t].at # "out"
    BY <1>1, <1>3 DEF Apart, SwarmSet, InSession
  <2>2. Homes(iqueue, cqueue, pairs, swarm)
    BY DEF Placed
  <2>3. g \notin Range(iqueue) /\ g \notin Range(cqueue) /\ ~Coming(g) /\ ~Failed(g)
    BY <1>3, <2>1, <2>2 DEF Homes, Queued
  <2>4. Range(s.cqueue) = Range(cqueue) \cup {g} /\ IsInjective(s.cqueue)
    BY <1>1, <1>3, <2>1, <2>2, <2>3, Appended DEF TInv, Homes
  <2>5. s.swarm[t].at = "out" /\ \A u \in Torrents : u # t => s.swarm[u] = swarm[u]
    <3>1. /\ Out(swarm, t)[t].at = "out"
          /\ \A u \in Torrents : u # t => Out(swarm, t)[u] = swarm[u]
      BY <1>1, <2>1, OutTyped DEF TInv
    <3> QED BY <1>3, <3>1
  <2>6. \A h \in Queued(iqueue, s.cqueue) : h = g \/ h \in Queued(iqueue, cqueue)
    BY <2>4 DEF Queued
  <2>7. \A h \in Queued(iqueue, s.cqueue) : pairs[h].given /\ IsTorrent(h)
    BY <1>1, <2>1, <2>6 DEF Apart, Queued
  <2>8. \A h \in Queued(iqueue, s.cqueue) :
           h \in downloads /\ ~Coming(h) /\ ~Failed(h) /\ s.swarm[pairs[h].of].at = "out"
    <3> SUFFICES ASSUME NEW h \in Queued(iqueue, s.cqueue)
                 PROVE  h \in downloads /\ ~Coming(h) /\ ~Failed(h)
                        /\ s.swarm[pairs[h].of].at = "out"
      OBVIOUS
    <3>1. CASE h = g
      BY <1>3, <2>3, <2>5, <3>1
    <3>2. CASE h \in Queued(iqueue, cqueue)
      <4>1. pairs[h].of \in Torrents
        BY <2>7 DEF IsTorrent
      <4> QED BY <2>2, <2>5, <3>2, <4>1 DEF Homes
    <3> QED BY <2>6, <3>1, <3>2
  <2>9. ASSUME phase = "running", NEW h \in downloads, IsTorrent(h), pairs[h].given
        PROVE  \/ Coming(h) \/ h \in Queued(iqueue, s.cqueue) \/ Unfetched(h)
               \/ pairs[h].handle /\ s.swarm[pairs[h].of].at # "out"
    <3>1. \/ Coming(h) \/ h \in Queued(iqueue, cqueue) \/ Unfetched(h)
          \/ pairs[h].handle /\ swarm[pairs[h].of].at # "out"
      BY <2>2, <2>9 DEF Homes
    <3>2. h \in Queued(iqueue, cqueue) => h \in Queued(iqueue, s.cqueue)
      BY <2>4 DEF Queued
    <3>3. pairs[h].of = t => h = g
      BY <1>1, <1>3, <2>1, <2>9 DEF Apart
    <3>4. g \in Queued(iqueue, s.cqueue)
      BY <2>4 DEF Queued
    <3> QED BY <2>5, <2>9, <3>1, <3>2, <3>3, <3>4 DEF IsTorrent
  <2>10. \A u \in Torrents : s.swarm[u].at # "out" =>
             \E h \in downloads : pairs[h].handle /\ pairs[h].of = u
    BY <2>2, <2>5 DEF Homes
  <2> QED BY <1>1, <2>2, <2>3, <2>4, <2>7, <2>8, <2>9, <2>10 DEF Homes
<1>4. s.cqueue \in Seq(Handles)
  BY <1>1 DEF Sessions
<1> QED BY <1>2, <1>3, <1>4, EvictionsDo DEF Inv

LEMMA CheckIncompleteQueuePlaces ==
    ASSUME Inv, Placed, CheckIncompleteQueue PROVE Placed'
<1>1. /\ UNCHANGED <<downloads, net, work, http, phase, world>>
      /\ \/ UNCHANGED <<pairs, iqueue, cqueue, swarm, told, lib>>
         \/ /\ iqueue # <<>>
            /\ \E s \in Evictions : Becomes(AddTorrent(s, Head(iqueue)))
            /\ iqueue' = Tail(iqueue)
  BY DEF CheckIncompleteQueue, queues, transfers, alerts, rest
<1>2. TInv /\ Apart /\ iqueue \in Seq(Handles) /\ Over
  BY DEF Inv, TInv, Placed
<1>3. CASE UNCHANGED <<pairs, iqueue, cqueue, swarm, told, lib>>
  <2>1. Becomes(Session) /\ Homes(iqueue', Session.cqueue, Session.pairs, Session.swarm)
    BY <1>3 DEF Becomes, Session, Placed
  <2> QED BY <1>1, <1>2, <2>1, SessionSound, HomesBecome
<1>4. ASSUME iqueue # <<>>, NEW s \in Evictions, Becomes(AddTorrent(s, Head(iqueue))),
             iqueue' = Tail(iqueue)
      PROVE  Placed'
  <2> DEFINE h == Head(iqueue)
             r == AddTorrent(s, h)
             iq2 == Tail(iqueue)
  <2>1. /\ Homes(iqueue, s.cqueue, s.pairs, s.swarm)
        /\ \A g \in Queued(iqueue, s.cqueue) : pairs[g].given /\ IsTorrent(g)
    BY <1>4, EvictionHomes
  <2>2. /\ IsInjective(iqueue) /\ IsInjective(s.cqueue)
        /\ Range(iqueue) \cap Range(s.cqueue) = {}
    BY <2>1 DEF Homes
  <2>3. /\ h \in Range(iqueue) /\ IsInjective(iq2) /\ Range(iq2) = Range(iqueue) \ {h}
    BY <1>2, <1>4, <2>2, HeadAndTail, TailOfDistinct
  <2>4. /\ h \in Queued(iqueue, s.cqueue) /\ Range(iq2) \cap Range(s.cqueue) = {}
        /\ Queued(iq2, s.cqueue) = Queued(iqueue, s.cqueue) \ {h}
    BY <2>2, <2>3 DEF Queued
  <2>5. Sound(s)
    BY <1>4, EvictionsSound
  <2>6. h \in Handles /\ pairs[h].given /\ IsTorrent(h)
    BY <1>2, <2>3, QueuedClips
  <2>7. Sound(r) /\ r.cqueue = s.cqueue
    BY <2>5, <2>6, AddTorrentSound
  <2> HIDE DEF h, iq2
  <2>8. Homes(iq2, s.cqueue, r.pairs, r.swarm)
    BY <2>1, <2>2, <2>3, <2>4, <2>5, AddTorrentHomes
  <2>9. Becomes(r) /\ iqueue' = iq2
    BY <1>4 DEF h, iq2
  <2> HIDE DEF r
  <2> QED BY <1>1, <1>2, <2>7, <2>8, <2>9, HomesBecome
<1> QED BY <1>1, <1>3, <1>4

(* No seed has seeded long enough: the loop does nothing.                    *)
LEMMA NothingSwapped ==
    ASSUME TInv, cqueue # <<>>, NEW order \in SetToSeqs(SwarmSet), NEW quiet,
           \A t \in SwarmSet : ~Eligible(Session, t)
    PROVE  Swaps(order, quiet) = Session
<1>1. PICK n \in Nat : n = Len(order) /\ \A i \in 1..n : order[i] \in SwarmSet
  BY OrderIs
<1>2. PICK after :
         /\ after[0] = Session
         /\ \A i \in 1..n : after[i] = Swap(after[i - 1], order[i], Head(cqueue), quiet)
         /\ Swaps(order, quiet) = after[n]
  BY <1>1, SwapsRun
<1> DEFINE Bad == {i \in 0..n : after[i] # Session}
<1>3. ASSUME NEW i \in 1..n, i - 1 \notin Bad PROVE i \notin Bad
  <2>1. after[i - 1] = Session
    BY <1>3
  <2>2. ~Eligible(Session, order[i])
    BY <1>1
  <2>3. Swap(Session, order[i], Head(cqueue), quiet) = Session
    BY <2>2 DEF Swap
  <2> QED BY <1>2, <2>1, <2>3
<1>4. Bad = {}
  <2> SUFFICES ASSUME Bad # {} PROVE FALSE
    OBVIOUS
  <2>0. Bad \in SUBSET Nat
    OBVIOUS
  <2>1. PICK m \in Bad : \A j \in Bad : m <= j
    BY <2>0, LeastNumber
  <2>2. m \in 1..n /\ m - 1 \in 0..n /\ m - 1 < m
    BY <1>2, <2>1
  <2> QED BY <1>3, <2>1, <2>2
<1> QED BY <1>2, <1>4

LEMMA CheckCompleteQueuePlaces ==
    ASSUME Inv, Placed, CheckCompleteQueue, ~swapped' PROVE Placed'
<1>1. /\ UNCHANGED <<downloads, iqueue, net, work, http, phase, world>>
      /\ \/ UNCHANGED <<pairs, cqueue, swarm, told, lib, swapped>>
         \/ /\ cqueue # <<>>
            /\ Becomes([AddTorrent(Session, Head(cqueue)) EXCEPT !.cqueue = Tail(@)])
         \/ /\ cqueue # <<>>
            /\ \E order \in SetToSeqs(SwarmSet), quiet \in SUBSET SwarmSet :
                  Becomes(Swaps(order, quiet))
            /\ swapped' = (swapped \/ \E t \in SwarmSet : Eligible(Session, t))
  BY DEF CheckCompleteQueue, transfers, alerts
<1>2. TInv /\ Apart /\ cqueue \in Seq(Handles) /\ Over
  BY DEF Inv, TInv, Placed
<1>3. Homes(iqueue, Session.cqueue, Session.pairs, Session.swarm)
  BY DEF Session, Placed
<1>4. ASSUME Becomes(Session) PROVE Placed'
  BY <1>1, <1>2, <1>3, <1>4, SessionSound, HomesBecome
<1>5. CASE UNCHANGED <<pairs, cqueue, swarm, told, lib, swapped>>
  BY <1>4, <1>5 DEF Becomes, Session
<1>6. CASE /\ cqueue # <<>>
           /\ Becomes([AddTorrent(Session, Head(cqueue)) EXCEPT !.cqueue = Tail(@)])
  <2> DEFINE h == Head(cqueue)
             r == AddTorrent(Session, h)
             q == Tail(cqueue)
             u == [r EXCEPT !.cqueue = q]
  <2>1. /\ IsInjective(iqueue) /\ IsInjective(cqueue)
        /\ Range(iqueue) \cap Range(cqueue) = {}
    BY DEF Placed, Homes
  <2>2. /\ h \in Range(cqueue) /\ q \in Seq(Handles)
        /\ IsInjective(q) /\ Range(q) = Range(cqueue) \ {h}
    BY <1>2, <1>6, <2>1, HeadAndTail, TailOfDistinct
  <2>3. /\ h \in Queued(iqueue, cqueue) /\ Range(iqueue) \cap Range(q) = {}
        /\ Queued(iqueue, q) = Queued(iqueue, cqueue) \ {h}
    BY <2>1, <2>2 DEF Queued
  <2>4. /\ h \in Handles /\ pairs[h].given /\ IsTorrent(h)
        /\ \A g \in Queued(iqueue, cqueue) : pairs[g].given /\ IsTorrent(g)
        /\ \A g \in Range(q) : pairs[g].given /\ IsTorrent(g)
    BY <1>2, <2>2, QueuedClips DEF Queued
  <2>5. Sound(Session) /\ Session.cqueue = cqueue
    BY SessionSound DEF Session
  <2>6. Sound(r) /\ r.cqueue = cqueue
    BY <2>4, <2>5, AddTorrentSound
  <2>7. Becomes(u)
    BY <1>6, <2>6
  <2> HIDE DEF h, q
  <2>8. Homes(iqueue, q, r.pairs, r.swarm)
    BY <1>3, <2>1, <2>2, <2>3, <2>4, <2>5, AddTorrentHomes
  <2> HIDE DEF r
  <2>9. Sound(u)
    BY <2>2, <2>4, <2>6, RequeuedSound
  <2>10. u.cqueue = q /\ u.pairs = r.pairs /\ u.swarm = r.swarm
    BY <2>6 DEF Sound, Sessions
  <2> HIDE DEF u
  <2> QED BY <1>1, <1>2, <2>7, <2>8, <2>9, <2>10, HomesBecome
<1>7. ASSUME cqueue # <<>>, NEW order \in SetToSeqs(SwarmSet), NEW quiet,
             Becomes(Swaps(order, quiet)),
             swapped' = (swapped \/ \E t \in SwarmSet : Eligible(Session, t))
      PROVE  Placed'
  <2>1. Swaps(order, quiet) = Session
    BY <1>2, <1>7, NothingSwapped
  <2> QED BY <1>4, <1>7, <2>1
<1> QED BY <1>1, <1>5, <1>6, <1>7

-----------------------------------------------------------------------------
(* A step that leaves every torrent where it is.                             *)
LEMMA StaysPlaced ==
    ASSUME Inv, Placed, UNCHANGED <<downloads, iqueue, cqueue, world>>,
           \A h \in Handles : /\ pairs'[h].of = pairs[h].of
                              /\ pairs'[h].given = pairs[h].given
                              /\ pairs'[h].handle = pairs[h].handle,
           \A h \in downloads : /\ Coming(h)' => Coming(h)
                                /\ Failed(h)' <=> Failed(h)
                                /\ phase' = "running" /\ Coming(h) => Coming(h)',
           \A t \in Torrents : swarm'[t].at = "out" <=> swarm[t].at = "out",
           phase' = "running" => phase = "running"
    PROVE  Placed'
<1>1. downloads \subseteq Handles /\ Apart /\ TInv
  BY DEF Inv, TInv
<1>2. Homes(iqueue, cqueue, pairs, swarm) /\ Over
  BY DEF Placed
<1>3. Over'
  BY <1>2 DEF Over
<1>4. \A h \in Queued(iqueue, cqueue) : h \in Handles /\ pairs[h].of \in Torrents
  BY <1>1, QueuedClips DEF Queued, IsTorrent
<1>5. ASSUME NEW h \in Queued(iqueue, cqueue)
      PROVE  h \in downloads /\ ~Coming(h)' /\ ~Failed(h)' /\ swarm'[pairs'[h].of].at = "out"
  BY <1>2, <1>4, <1>5 DEF Homes
<1>6. ASSUME NEW h \in downloads, Coming(h)' \/ Failed(h)' PROVE ~pairs'[h].handle
  BY <1>1, <1>2, <1>6 DEF Homes
<1>7. ASSUME NEW t \in Torrents, swarm'[t].at # "out"
      PROVE  \E h \in downloads : pairs'[h].handle /\ pairs'[h].of = t
  <2>1. PICK h \in downloads : pairs[h].handle /\ pairs[h].of = t
    BY <1>2, <1>7 DEF Homes
  <2> QED BY <1>1, <2>1
<1>8. ASSUME phase' = "running", NEW h \in downloads, IsTorrent(h)', pairs'[h].given
      PROVE  \/ Coming(h)' \/ h \in Queued(iqueue, cqueue) \/ Unfetched(h)'
             \/ pairs'[h].handle /\ swarm'[pairs'[h].of].at # "out"
  <2>1. h \in Handles /\ IsTorrent(h) /\ pairs[h].given /\ pairs[h].of \in Torrents
    BY <1>1, <1>8 DEF IsTorrent
  <2>2. \/ Coming(h) \/ h \in Queued(iqueue, cqueue) \/ Unfetched(h)
        \/ pairs[h].handle /\ swarm[pairs[h].of].at # "out"
    BY <1>2, <1>8, <2>1 DEF Homes
  <2>3. Unfetched(h) => Unfetched(h)'
    BY <2>1 DEF Unfetched, Failed
  <2> QED BY <1>8, <2>1, <2>2, <2>3
<1>9. Homes(iqueue, cqueue, pairs, swarm)'
  BY <1>2, <1>5, <1>6, <1>7, <1>8 DEF Homes, Queued
<1> QED BY <1>3, <1>9 DEF Placed

(* There is one result of a handle at most, so m_HttpAlerts has room if it   *)
(* has room for one of every handle.                                         *)
LEMMA RoomForResult ==
    ASSUME TInv, OneResult, HttpCapacity >= MaxAdds, NEW h \in Handles, ~Shown(h)
    PROVE  Len(http) < HttpCapacity
<1> DEFINE n == Len(http)
           k == Len(pairs)
           f == [i \in 1..n |-> http[i].h]
<1>1. /\ n \in Nat /\ DOMAIN http = 1..n /\ k \in Nat /\ Handles = 1..k /\ k <= MaxAdds
      /\ Range(http) = {http[i] : i \in 1..n} /\ HttpCapacity \in Nat /\ MaxAdds \in Nat
  BY Shape, SeqEntries, ClipDownloaderAssumption DEF TInv
<1> SUFFICES ASSUME n >= k PROVE FALSE
  BY <1>1
<1>2. \A i \in 1..n : http[i].h \in Handles /\ http[i].h # h
  BY <1>1, ResultsAre DEF Shown
<1>3. f \in [1..n -> Handles \ {h}]
  BY <1>2
<1>4. /\ IsFiniteSet(1..n) /\ Cardinality(1..n) = n
      /\ IsFiniteSet(1..k) /\ Cardinality(1..k) = k
  <2> HIDE DEF n, k, f
  <2>1. \A m \in Nat : IsFiniteSet(1..m) /\ Cardinality(1..m) = IF 1 > m THEN 0 ELSE m - 1 + 1
    BY FS_Interval
  <2>2. \A m \in Nat : (IF 1 > m THEN 0 ELSE m - 1 + 1) = m
    OBVIOUS
  <2> QED BY <1>1, <2>1, <2>2
<1>5. IsFiniteSet(Handles \ {h}) /\ Cardinality(Handles \ {h}) = k - 1
  BY <1>1, <1>4, FS_RemoveElement
<1>6. \A i, j \in 1..n : f[i] = f[j] => i = j
  BY <1>1 DEF OneResult
<1> HIDE DEF f, n, k
<1>7. Cardinality(Handles \ {h}) < Cardinality(1..n)
  BY <1>1, <1>4, <1>5
<1>8. \E i, j \in 1..n : i # j /\ f[i] = f[j]
  <2>1. PICK S, T : S = 1..n /\ T = Handles \ {h}
    OBVIOUS
  <2>2. /\ IsFiniteSet(S) /\ IsFiniteSet(T) /\ Cardinality(T) < Cardinality(S)
        /\ f \in [S -> T]
    BY <1>3, <1>4, <1>5, <1>7, <2>1
  <2>3. \E i, j \in S : i # j /\ f[i] = f[j]
    BY <2>2, FS_PigeonHole
  <2> QED BY <2>1, <2>3
<1> QED BY <1>6, <1>8

LEMMA PauseResumePlaces ==
    ASSUME Inv, Alone, Placed, NEW h \in Handles, NEW pause \in BOOLEAN, PauseResume(h, pause),
           ~outpaced'
    PROVE  Placed'
<1>1. /\ UNCHANGED <<downloads, iqueue, cqueue, http, world, phase, told>>
      /\ pairs' = [pairs EXCEPT ![h].paused = pause]
      /\ \/ /\ IsTorrent(h)
            /\ swarm' = [swarm EXCEPT ![pairs[h].of].paused = pause]
         \/ swarm' = swarm
  BY DEF PauseResume, queues, alerts
<1>2. /\ pairs \in [Handles -> Pair] /\ swarm \in [Torrents -> Place] /\ TInv
      /\ downloads \subseteq Handles
  BY Shape DEF Inv, TInv
<1>3. \A g \in Handles : /\ pairs'[g].of = pairs[g].of
                         /\ pairs'[g].given = pairs[g].given
                         /\ pairs'[g].handle = pairs[g].handle
  BY <1>1, <1>2 DEF Pair
<1>4. \A t \in Torrents : swarm'[t].at = swarm[t].at
  BY <1>1, <1>2 DEF Place
<1>5. \A g \in Handles : \/ net'[g] = net[g] /\ work'[g] = work[g]
                         \/ Coming(g) /\ Coming(g)'
  BY <1>2, PauseResumeAlone
<1>6. \A g \in downloads : /\ Coming(g)' <=> Coming(g)
                           /\ Failed(g)' <=> Failed(g)
  BY <1>1, <1>2, <1>5 DEF Coming, Busy, Failed
<1> QED BY <1>1, <1>3, <1>4, <1>6, StaysPlaced

(* A worker that is done has sent its result to m_HttpAlerts: the clip is    *)
(* still coming.                                                             *)
LEMMA HttpStepPlaces ==
    ASSUME Inv, Alone, Placed, HttpCapacity >= MaxAdds, NEW h \in Handles, HttpStep(h)
    PROVE  Placed'
<1>1. UNCHANGED <<pairs, downloads, iqueue, cqueue, swarm, world, phase, told>>
  BY HttpStepDoes DEF Elsewhere, queues, rest, Inv
<1>2. TInv /\ downloads \subseteq Handles /\ OneResult /\ "passed" \in Stages
  BY DEF Inv, TInv, Alone, Stages
<1>3. /\ \A g : Coming(g) <=> \/ net[g] = "paused" \/ Busy(g, Stages \ {"reported"})
                              \/ Shown(g)
      /\ \A g : Coming(g)' <=> \/ net'[g] = "paused" \/ Busy(g, Stages \ {"reported"})'
                               \/ Shown(g)'
  BY DEF Coming, Shown, Range
<1>4. /\ \A g \in Handles : g # h => net'[g] = net[g] /\ work'[g] = work[g]
                                     /\ (Shown(g)' <=> Shown(g))
      /\ \/ net[h] = "paused" /\ net'[h] = "paused" /\ http' = http
         \/ /\ work[h] = At("fetching") /\ work'[h] = At("passed") /\ http' = http
            /\ net' = net
         \/ /\ work[h] = At("passed") /\ work'[h] = At("reported")
            /\ net' = net /\ ~Shown(h)
            /\ \E hr \in {"S_OK", "E_FAIL", "E_ABORT"} : Deliver(h, hr)
         \/ /\ work[h] = At("reported") /\ work'[h] = Idle /\ http' = http
            /\ net[h] # "paused" /\ net'[h] = "ended"
  BY <1>2, HttpStepAlone
<1>5. Coming(h)' <=> Coming(h)
  <2>1. CASE net[h] = "paused" /\ net'[h] = "paused"
    BY <1>3, <2>1
  <2>2. CASE work[h] = At("fetching") /\ work'[h] = At("passed")
    BY <1>3, <2>2, AtIs DEF Busy, Stages
  <2>3. CASE /\ work[h] = At("passed") /\ ~Shown(h)
             /\ \E hr \in {"S_OK", "E_FAIL", "E_ABORT"} : Deliver(h, hr)
    <3>1. Busy(h, Stages \ {"reported"})
      BY <1>2, <2>3, AtIs DEF Busy
    <3>2. Len(http) < HttpCapacity
      BY <1>2, <2>3, RoomForResult
    <3>3. Shown(h)'
      BY <1>2, <2>3, <3>2, DeliverDoes DEF Shown
    <3> QED BY <1>3, <3>1, <3>3
  <2>4. CASE /\ work[h] = At("reported") /\ work'[h] = Idle /\ http' = http
             /\ net[h] # "paused" /\ net'[h] = "ended"
    <3>1. ~Busy(h, Stages \ {"reported"}) /\ ~Busy(h, Stages \ {"reported"})'
      BY <2>4, AtIs DEF Busy, Stages
    <3>2. Shown(h)' <=> Shown(h)
      BY <2>4 DEF Shown
    <3> QED BY <1>3, <2>4, <3>1, <3>2
  <2> QED BY <1>4, <2>1, <2>2, <2>3, <2>4
<1>6. \A g \in downloads : /\ Coming(g)' <=> Coming(g)
                           /\ Failed(g)' <=> Failed(g)
  BY <1>1, <1>2, <1>3, <1>4, <1>5 DEF Failed, Busy
<1> QED BY <1>1, <1>6, StaysPlaced

LEMMA PopAlertPlaces == ASSUME Inv, Placed, PopAlert PROVE Placed'
<1>1. /\ UNCHANGED <<downloads, iqueue, cqueue, swarm, net, work, http, phase, told, world>>
      /\ pairs' = [h \in Handles |->
             IF Head(lib).kind = "finished" /\ h \in Owners(pairs, Head(lib).of)
             THEN [pairs[h] EXCEPT !.started = "lately"] ELSE pairs[h]]
  BY DEF PopAlert, queues, transfers, rest
<1>2. pairs \in [Handles -> Pair]
  BY Shape DEF Inv
<1>3. \A h \in Handles : /\ pairs'[h].of = pairs[h].of
                         /\ pairs'[h].given = pairs[h].given
                         /\ pairs'[h].handle = pairs[h].handle
  <2>1. \A h \in Handles :
           pairs'[h] = pairs[h] \/ pairs'[h] = [pairs[h] EXCEPT !.started = "lately"]
    BY <1>1
  <2> QED BY <1>2, <2>1 DEF Pair
<1>4. \A h \in downloads : /\ Coming(h)' <=> Coming(h)
                           /\ Failed(h)' <=> Failed(h)
  BY <1>1 DEF Coming, Busy, Failed, Placed, Over
<1> QED BY <1>1, <1>3, <1>4, StaysPlaced

(* SendAlert does not speak of a clip whose metafile failed.                 *)
LEMMA SendAlertPlaces == ASSUME Inv, Placed, SendAlert PROVE Placed'
<1>1. /\ UNCHANGED <<pairs, downloads, iqueue, cqueue, swarm, net, work, http, phase, world>>
      /\ told' = [h \in Handles |->
          IF h \in Owners(pairs, handling.of)
          THEN Heard(told[h], IF handling.kind = "finished" THEN "finished" ELSE "other")
          ELSE told[h]]
  BY DEF SendAlert, queues, transfers, rest
<1>2. downloads \subseteq Handles
  BY DEF Inv, TInv
<1>3. ASSUME NEW h \in downloads PROVE Failed(h)' <=> Failed(h)
  <2>1. h \in Owners(pairs, handling.of) => ~Failed(h)
    BY DEF Owners, Placed, Homes
  <2> QED BY <1>1, <1>2, <2>1 DEF Heard, Failed
<1>4. \A h \in downloads : Coming(h)' <=> Coming(h)
  BY <1>1 DEF Coming, Busy, Placed, Over
<1> QED BY <1>1, <1>3, <1>4, StaysPlaced

LEMMA LibtorrentPlaces ==
    ASSUME Inv, Placed, NEW t \in Torrents, Libtorrent(t) PROVE Placed'
<1>1. /\ UNCHANGED <<pairs, downloads, iqueue, cqueue, net, work, http, phase, told, world>>
      /\ swarm[t].at # "out" /\ \E at \in {"seeding", "leeching"} : Joins(t, at)
  BY DEF Libtorrent, Checked, Leeched, queues, transfers, alerts, rest
<1>2. swarm \in [Torrents -> Place]
  BY DEF Inv, TInv
<1>3. \A u \in Torrents : swarm'[u].at = "out" <=> swarm[u].at = "out"
  BY <1>1, <1>2 DEF Joins, Place
<1>4. \A h \in downloads : /\ Coming(h)' <=> Coming(h)
                           /\ Failed(h)' <=> Failed(h)
  BY <1>1 DEF Coming, Busy, Failed, Placed, Over
<1> QED BY <1>1, <1>3, <1>4, StaysPlaced

LEMMA SeedTimeOverPlaces ==
    ASSUME Inv, Placed, NEW h \in Handles, SeedTimeOver(h) PROVE Placed'
<1>1. /\ UNCHANGED <<downloads, iqueue, cqueue, swarm, net, work, http, phase, told, world>>
      /\ pairs' = [pairs EXCEPT ![h].started = "long ago"]
  BY DEF SeedTimeOver, queues, transfers, alerts, rest
<1>2. pairs \in [Handles -> Pair]
  BY Shape DEF Inv
<1>3. \A g \in Handles : /\ pairs'[g].of = pairs[g].of
                         /\ pairs'[g].given = pairs[g].given
                         /\ pairs'[g].handle = pairs[g].handle
  BY <1>1, <1>2 DEF Pair
<1>4. \A g \in downloads : /\ Coming(g)' <=> Coming(g)
                           /\ Failed(g)' <=> Failed(g)
  BY <1>1 DEF Coming, Busy, Failed, Placed, Over
<1> QED BY <1>1, <1>3, <1>4, StaysPlaced

LEMMA StopPlaces == ASSUME Inv, Placed, StopAlerts \/ StopAll PROVE Placed'
<1>1. CASE StopAlerts
  <2>1. /\ UNCHANGED <<pairs, downloads, iqueue, cqueue, swarm, net, work, told, world>>
        /\ http' = <<>> /\ phase' = "joined"
    BY <1>1 DEF StopAlerts, queues, transfers, rest
  <2>2. DOMAIN http' = {}
    BY <2>1, EmptySeq, SeqEntries
  <2>3. \A h \in downloads : /\ Coming(h)' => Coming(h)
                             /\ Failed(h)' <=> Failed(h)
    BY <2>1, <2>2 DEF Coming, Busy, Failed, Placed, Over
  <2> QED BY <2>1, <2>3, StaysPlaced
<1>2. CASE StopAll
  <2>1. /\ phase' = "stopped" /\ iqueue' = <<>> /\ cqueue' = <<>> /\ downloads' = {}
        /\ \A t \in Torrents : swarm'[t].at = "out"
    BY <1>2 DEF StopAll
  <2> QED BY <2>1, NoEntries DEF Placed, Homes, Over, Queued
<1> QED BY <1>1, <1>2

LEMMA RemoveDownloadPlaces ==
    ASSUME Inv, Placed, NEW h \in Handles, RemoveDownload(h) PROVE Placed'
<1>1. /\ UNCHANGED <<pairs, work, http, phase, world>>
      /\ iqueue' = Dequeued(iqueue, h) /\ cqueue' = Dequeued(cqueue, h)
      /\ downloads' = downloads \ {h}
  BY DEF RemoveDownload, alerts, rest, Unqueued, Unlisted
<1>2. /\ TInv /\ Apart /\ net \in [Handles -> Net] /\ told \in [Handles -> Said]
      /\ swarm \in [Torrents -> Place] /\ downloads \subseteq Handles
  BY Shape DEF Inv, TInv
<1>3. Homes(iqueue, cqueue, pairs, swarm) /\ Over
  BY DEF Placed
<1>4. /\ IsInjective(iqueue') /\ IsInjective(cqueue')
      /\ Range(iqueue') = Range(iqueue) \ {h} /\ Range(cqueue') = Range(cqueue) \ {h}
  BY <1>1, <1>2, <1>3, RemovedFirst DEF Dequeued, TInv, Homes
<1>5. \A g \in Handles : g # h => net'[g] = net[g] /\ told'[g] = told[g]
  BY <1>2 DEF RemoveDownload, Tell, StopDownload
<1>6. \A g \in downloads' : /\ g \in downloads /\ g # h /\ g \in Handles
                            /\ Coming(g)' <=> Coming(g)
                            /\ Failed(g)' <=> Failed(g)
                            /\ Unfetched(g)' <=> Unfetched(g)
                            /\ IsTorrent(g)' <=> IsTorrent(g)
  BY <1>1, <1>2, <1>5 DEF Coming, Busy, Failed, Unfetched, IsTorrent
<1>7. \/ /\ swarm' = swarm
         /\ h \in downloads => ~(IsTorrent(h) /\ Valid(h))
      \/ /\ h \in downloads /\ IsTorrent(h) /\ Valid(h)
         /\ swarm' = Out(swarm, pairs[h].of)
  BY DEF RemoveDownload, Torn
<1>8. /\ \A t \in Torrents : swarm'[t].at # "out" =>
            /\ swarm[t].at # "out"
            /\ h \in downloads /\ pairs[h].of = t => ~pairs[h].handle
      /\ \A t \in Torrents : swarm[t].at # "out" /\ swarm'[t].at = "out" =>
            h \in downloads /\ pairs[h].of = t /\ pairs[h].handle
  <2>1. CASE swarm' = swarm /\ (h \in downloads => ~(IsTorrent(h) /\ Valid(h)))
    BY <2>1 DEF IsTorrent, Valid, InSession
  <2>2. CASE /\ h \in downloads /\ IsTorrent(h) /\ Valid(h)
             /\ swarm' = Out(swarm, pairs[h].of)
    <3>1. PICK u \in Torrents : u = pairs[h].of
      BY <2>2 DEF IsTorrent
    <3>2. Out(swarm, u)[u].at = "out" /\ \A t \in Torrents : t # u => Out(swarm, u)[t] = swarm[t]
      BY <1>2, OutTyped
    <3> QED BY <2>2, <3>1, <3>2 DEF Valid
  <2> QED BY <1>7, <2>1, <2>2
<1>9. Over'
  BY <1>3, <1>5, <1>6 DEF Over
<1>10. Queued(iqueue', cqueue') = Queued(iqueue, cqueue) \ {h}
  BY <1>4 DEF Queued
<1>11. ASSUME NEW g \in Queued(iqueue', cqueue')
       PROVE  g \in downloads' /\ ~Coming(g)' /\ ~Failed(g)' /\ swarm'[pairs'[g].of].at = "out"
  <2>1. g \in Queued(iqueue, cqueue) /\ g # h
    BY <1>10
  <2>2. g \in downloads /\ ~Coming(g) /\ ~Failed(g) /\ swarm[pairs[g].of].at = "out"
        /\ pairs[g].of \in Torrents
    BY <1>2, <1>3, <2>1, QueuedClips DEF Homes, Queued, IsTorrent
  <2> QED BY <1>1, <1>6, <1>8, <2>1, <2>2
<1>12. ASSUME NEW g \in downloads', Coming(g)' \/ Failed(g)' PROVE ~pairs'[g].handle
  BY <1>1, <1>3, <1>6, <1>12 DEF Homes
<1>13. ASSUME NEW t \in Torrents, swarm'[t].at # "out"
       PROVE  \E g \in downloads' : pairs'[g].handle /\ pairs'[g].of = t
  <2>1. PICK g \in downloads : pairs[g].handle /\ pairs[g].of = t
    BY <1>3, <1>8, <1>13 DEF Homes
  <2>2. g # h
    BY <1>8, <1>13, <2>1
  <2> QED BY <1>1, <2>1, <2>2
<1>14. ASSUME phase' = "running", NEW g \in downloads', IsTorrent(g)', pairs'[g].given
       PROVE  \/ Coming(g)' \/ g \in Queued(iqueue', cqueue') \/ Unfetched(g)'
              \/ pairs'[g].handle /\ swarm'[pairs'[g].of].at # "out"
  <2>1. g \in downloads /\ g # h /\ IsTorrent(g) /\ pairs[g].given
    BY <1>1, <1>6, <1>14
  <2>2. \/ Coming(g) \/ g \in Queued(iqueue, cqueue) \/ Unfetched(g)
        \/ pairs[g].handle /\ swarm[pairs[g].of].at # "out"
    BY <1>1, <1>3, <1>14, <2>1 DEF Homes
  <2>3. h \in downloads /\ pairs[h].handle => pairs[h].of # pairs[g].of
    BY <1>2, <2>1 DEF Apart
  <2> QED BY <1>1, <1>6, <1>8, <1>10, <2>1, <2>2, <2>3 DEF IsTorrent
<1>15. Homes(iqueue, cqueue, pairs, swarm)'
  BY <1>3, <1>4, <1>11, <1>12, <1>13, <1>14 DEF Homes, Queued
<1> QED BY <1>9, <1>15 DEF Placed

(* A new torrent is fetched or queued; the session does not have it, as the  *)
(* clip is not listed.                                                       *)
LEMMA AddDownloadPlaces ==
    ASSUME Inv, Placed, NEW x, NEW done \in BOOLEAN, NEW paused \in BOOLEAN,
           AddDownload(x, done, paused)
    PROVE  Placed'
<1>1. PICK h \in Nat, p \in Pair, m \in {"none", "running"}, w \in Work :
         Added(x, h, p, m, w)
  BY AddDownloadAdds DEF Inv
<1>2. TInv /\ Apart /\ downloads \subseteq Handles /\ iqueue \in Seq(Handles)
      /\ cqueue \in Seq(Handles)
  BY DEF Inv, TInv
<1>3. Homes(iqueue, cqueue, pairs, swarm) /\ Over
  BY DEF Placed
<1>4. /\ h \notin Handles /\ downloads' = downloads \cup {h}
      /\ \A g \in Handles : /\ pairs'[g] = pairs[g] /\ net'[g] = net[g]
                             /\ work'[g] = work[g] /\ told'[g] = told[g]
      /\ pairs'[h] = p /\ net'[h] = m /\ told'[h] = "nothing"
      /\ work'[h] = IF m = "none" THEN Idle ELSE Started
      /\ UNCHANGED <<swarm, http, phase, world>> /\ p.of = x /\ ~p.handle
      /\ \A g \in downloads : pairs[g].given => pairs[g].of # x
  BY <1>1 DEF Added
<1>5. /\ \A g \in Handles :
            /\ Coming(g)' <=> Coming(g)
            /\ Failed(g)' <=> Failed(g)
            /\ Unfetched(g)' <=> Unfetched(g)
            /\ IsTorrent(g)' <=> IsTorrent(g)
      /\ ~Failed(h)' /\ (IsTorrent(h)' <=> x \in Torrents)
  BY <1>4 DEF Coming, Busy, Failed, Unfetched, IsTorrent
<1>6. Coming(h)' <=> m = "running"
  <2>1. \A r \in Range(http) : r.h # h
    BY <1>2, <1>4, ResultsAre
  <2>2. \A i \in DOMAIN http : http[i].h # h
    BY <2>1 DEF Range
  <2>3. /\ "fetching" \in Stages \ {"reported"} /\ Started["fetching"] > 0
        /\ \A r \in Stages : ~(Idle[r] > 0)
    BY AtIs DEF Stages
  <2> QED BY <1>1, <1>4, <2>2, <2>3 DEF Coming, Busy
<1>7. x \in Torrents => swarm[x].at = "out"
  BY <1>2, <1>3, <1>4 DEF Homes, Apart
<1>8. /\ IsInjective(iqueue') /\ IsInjective(cqueue') /\ Range(iqueue') \cap Range(cqueue') = {}
      /\ Queued(iqueue', cqueue') \subseteq Queued(iqueue, cqueue) \cup {h}
      /\ Queued(iqueue, cqueue) \subseteq Queued(iqueue', cqueue')
      /\ h \in Queued(iqueue', cqueue') => x \in Torrents /\ m = "none"
      /\ p.given /\ x \in Torrents => m = "running" \/ h \in Queued(iqueue', cqueue')
  <2>1. PICK H : H = Handles \cup {h}
    OBVIOUS
  <2>2. iqueue \in Seq(H) /\ cqueue \in Seq(H) /\ h \in H
    BY <1>2, <2>1, WiderSeq
  <2>3. h \notin Range(iqueue) /\ h \notin Range(cqueue)
    BY <1>2, <1>4, SeqEntries
  <2>4. IsInjective(iqueue) /\ IsInjective(cqueue) /\ Range(iqueue) \cap Range(cqueue) = {}
    BY <1>3 DEF Homes
  <2>5. /\ Range(Append(iqueue, h)) = Range(iqueue) \cup {h} /\ IsInjective(Append(iqueue, h))
        /\ Range(Append(cqueue, h)) = Range(cqueue) \cup {h} /\ IsInjective(Append(cqueue, h))
    BY <2>2, <2>3, <2>4, Appended
  <2>6. \/ /\ iqueue' = iqueue /\ cqueue' = cqueue
           /\ p.given /\ x \in Torrents => m = "running"
        \/ /\ p.given /\ x \in Torrents /\ m = "none"
           /\ \/ iqueue' = iqueue /\ cqueue' = Append(cqueue, h)
              \/ iqueue' = Append(iqueue, h) /\ cqueue' = cqueue
    BY <1>1 DEF Added
  <2> QED BY <2>3, <2>4, <2>5, <2>6 DEF Queued
<1>9. Over'
  BY <1>1, <1>2, <1>3, <1>4, <1>5 DEF Over
<1>10. ASSUME NEW g \in Queued(iqueue', cqueue')
       PROVE  g \in downloads' /\ ~Coming(g)' /\ ~Failed(g)' /\ swarm'[pairs'[g].of].at = "out"
  <2>1. CASE g = h
    BY <1>4, <1>5, <1>6, <1>7, <1>8, <1>10, <2>1
  <2>2. CASE g \in Queued(iqueue, cqueue)
    BY <1>2, <1>3, <1>4, <1>5, <2>2 DEF Homes
  <2> QED BY <1>8, <2>1, <2>2
<1>11. ASSUME NEW g \in downloads', Coming(g)' \/ Failed(g)' PROVE ~pairs'[g].handle
  BY <1>2, <1>3, <1>4, <1>5, <1>11 DEF Homes
<1>12. ASSUME NEW t \in Torrents, swarm'[t].at # "out"
       PROVE  \E g \in downloads' : pairs'[g].handle /\ pairs'[g].of = t
  <2>1. PICK g \in downloads : pairs[g].handle /\ pairs[g].of = t
    BY <1>3, <1>4, <1>12 DEF Homes
  <2> QED BY <1>2, <1>4, <2>1
<1>13. ASSUME phase' = "running", NEW g \in downloads', IsTorrent(g)', pairs'[g].given
       PROVE  \/ Coming(g)' \/ g \in Queued(iqueue', cqueue') \/ Unfetched(g)'
              \/ pairs'[g].handle /\ swarm'[pairs'[g].of].at # "out"
  <2>1. CASE g = h
    BY <1>4, <1>5, <1>6, <1>8, <1>13, <2>1
  <2>2. CASE g \in downloads
    <3>1. g \in Handles /\ IsTorrent(g) /\ pairs[g].given /\ phase = "running"
      BY <1>2, <1>4, <1>5, <1>13, <2>2
    <3>2. \/ Coming(g) \/ g \in Queued(iqueue, cqueue) \/ Unfetched(g)
          \/ pairs[g].handle /\ swarm[pairs[g].of].at # "out"
      BY <1>3, <2>2, <3>1 DEF Homes
    <3> QED BY <1>4, <1>5, <1>8, <3>1, <3>2
  <2> QED BY <1>4, <2>1, <2>2
<1>14. Homes(iqueue, cqueue, pairs, swarm)'
  BY <1>8, <1>10, <1>11, <1>12, <1>13 DEF Homes, Queued
<1> QED BY <1>9, <1>14 DEF Placed

(* The result that is taken was the only one of its handle: a torrent is now *)
(* queued, or its metafile failed.                                           *)
LEMMA OnHttpDownloadCompletePlaces ==
    ASSUME Inv, Alone, Placed, OnHttpDownloadComplete PROVE Placed'
<1>a. PICK h : h = Last(http).h
  OBVIOUS
<1>b. PICK ok \in BOOLEAN : ok <=> Last(http).hr = "S_OK"
  OBVIOUS
<1>0. Delivered(h) /\ h \notin freed
  BY <1>a, OnHttpDownloadCompleteAlone DEF Inv
<1>1. /\ UNCHANGED <<pairs, downloads, swarm, net, work, phase, world>>
      /\ http # <<>> /\ http' = Front(http)
      /\ \/ h \notin downloads /\ UNCHANGED <<iqueue, cqueue, told>>
         \/ /\ h \in downloads /\ ok /\ IsTorrent(h)
            /\ QueueTorrent(h, pairs[h].done)
            /\ told' = [told EXCEPT ![h] = Heard(@, "other")]
         \/ /\ h \in downloads /\ ~(ok /\ IsTorrent(h)) /\ UNCHANGED <<iqueue, cqueue>>
            /\ told' = [told EXCEPT ![h] = Heard(@, IF ok THEN "finished" ELSE "failed")]
  BY <1>a, <1>b, <1>0 DEF OnHttpDownloadComplete, Tell, queues, rest
<1>2. /\ TInv /\ Apart /\ Silent /\ told \in [Handles -> Said] /\ downloads \subseteq Handles
      /\ iqueue \in Seq(Handles) /\ cqueue \in Seq(Handles) /\ net \in [Handles -> Net]
  BY Shape DEF Inv, TInv
<1>3. Homes(iqueue, cqueue, pairs, swarm) /\ Over
  BY DEF Placed
<1>4. /\ h \in Handles /\ Last(http) \in Range(http)
      /\ Range(Front(http)) \subseteq Range(http)
      /\ \A r \in Range(http) : r = Last(http) \/ r \in Range(Front(http))
      /\ \A r \in Range(Front(http)) : r.h # h
  BY <1>a, <1>1, <1>2, ResultTaken DEF Alone, OneResult
<1>5. /\ \A g : Coming(g) <=> \/ net[g] = "paused" \/ Busy(g, Stages \ {"reported"})
                              \/ \E r \in Range(http) : r.h = g
      /\ \A g : Coming(g)' <=> \/ net'[g] = "paused" \/ Busy(g, Stages \ {"reported"})'
                               \/ \E r \in Range(http') : r.h = g
      /\ \A g : Busy(g, Stages \ {"reported"})' <=> Busy(g, Stages \ {"reported"})
  BY <1>1 DEF Coming, Range, Busy
<1>6. /\ \A g : g # h => (Coming(g)' <=> Coming(g))
      /\ ~Coming(h)' /\ Coming(h) /\ pairs[h].given
  <2>1. net' = net /\ http' = Front(http) /\ Last(http).h = h
    BY <1>a, <1>1
  <2>2. \A g : g # h =>
           ((\E r \in Range(http') : r.h = g) <=> (\E r \in Range(http) : r.h = g))
    BY <1>4, <2>1
  <2>3. net[h] # "paused" /\ ~Busy(h, Stages \ {"reported"})
    <3>1. OneWorker(h)
      BY <1>2, <1>4 DEF Alone
    <3>2. work[h] = Idle \/ work[h] = At("reported")
      BY <1>0, <3>1 DEF Delivered, OneWorker
    <3> QED BY <1>0, <3>2, AtIs DEF Delivered, Busy, Stages
  <2>4. Coming(h) /\ ~Coming(h)'
    BY <1>4, <1>5, <2>1, <2>3
  <2>5. pairs[h].given
    BY <1>a, <1>1, <1>2, ResultTaken
  <2> QED BY <1>5, <2>1, <2>2, <2>4, <2>5
<1>7. /\ h \in downloads => ~pairs[h].handle /\ ~Failed(h) /\ h \notin Queued(iqueue, cqueue)
      /\ h \in downloads /\ IsTorrent(h) => swarm[pairs[h].of].at = "out"
  <2>1. h \in downloads => ~pairs[h].handle /\ ~Failed(h) /\ h \notin Queued(iqueue, cqueue)
    BY <1>3, <1>6 DEF Homes, Over
  <2>2. ASSUME h \in downloads, IsTorrent(h), swarm[pairs[h].of].at # "out" PROVE FALSE
    <3>1. PICK g \in downloads : pairs[g].handle /\ pairs[g].of = pairs[h].of
      BY <1>3, <2>2 DEF Homes, IsTorrent
    <3>2. g = h
      BY <1>2, <1>6, <2>2, <3>1 DEF Apart
    <3> QED BY <2>1, <2>2, <3>1, <3>2
  <2> QED BY <2>1, <2>2
<1>8. /\ \A g \in Handles : g # h => told'[g] = told[g]
      /\ h \in downloads /\ IsTorrent(h) => told'[h] = IF ok THEN told[h] ELSE "failed"
  <2>1. h \in downloads => told[h] \notin {"removed", "late"}
    BY <1>2, <1>4 DEF Silent
  <2>2. h \in downloads =>
          Heard(told[h], "other") = told[h] /\ Heard(told[h], "failed") = "failed"
    BY <2>1 DEF Heard
  <2> QED BY <1>1, <1>2, <1>4, <2>2
<1>9. /\ IsInjective(iqueue') /\ IsInjective(cqueue') /\ Range(iqueue') \cap Range(cqueue') = {}
      /\ \/ Queued(iqueue', cqueue') = Queued(iqueue, cqueue)
            /\ (h \notin downloads \/ ~(ok /\ IsTorrent(h)))
         \/ /\ Queued(iqueue', cqueue') = Queued(iqueue, cqueue) \cup {h}
            /\ h \in downloads /\ IsTorrent(h) /\ ok
  <2>1. IsInjective(iqueue) /\ IsInjective(cqueue) /\ Range(iqueue) \cap Range(cqueue) = {}
    BY <1>3 DEF Homes
  <2>2. h \in downloads =>
          /\ Range(Append(iqueue, h)) = Range(iqueue) \cup {h} /\ IsInjective(Append(iqueue, h))
          /\ Range(Append(cqueue, h)) = Range(cqueue) \cup {h} /\ IsInjective(Append(cqueue, h))
          /\ h \notin Range(iqueue) /\ h \notin Range(cqueue)
    BY <1>2, <1>4, <1>7, <2>1, Appended DEF Queued
  <2>3. \/ UNCHANGED <<iqueue, cqueue>> /\ (h \notin downloads \/ ~(ok /\ IsTorrent(h)))
        \/ /\ h \in downloads /\ ok /\ IsTorrent(h)
           /\ QueueTorrent(h, pairs[h].done)
    BY <1>1
  <2>4. CASE UNCHANGED <<iqueue, cqueue>> /\ (h \notin downloads \/ ~(ok /\ IsTorrent(h)))
    BY <2>1, <2>4
  <2>5. CASE h \in downloads /\ ok /\ IsTorrent(h) /\ QueueTorrent(h, pairs[h].done)
    <3>1. \/ iqueue' = iqueue /\ cqueue' = Append(cqueue, h)
          \/ iqueue' = Append(iqueue, h) /\ cqueue' = cqueue
      BY <2>5 DEF QueueTorrent
    <3> QED BY <2>1, <2>2, <2>5, <3>1 DEF Queued
  <2> QED BY <2>3, <2>4, <2>5
<1>10. Over'
  <2>1. downloads' = downloads /\ net' = net
    BY <1>1
  <2>2. ASSUME NEW g \in downloads, Failed(g)' PROVE ~Coming(g)'
    <3>1. CASE g = h
      BY <1>6, <3>1
    <3>2. CASE g # h
      <4>1. Failed(g)
        BY <1>2, <1>8, <2>2, <3>2 DEF Failed
      <4> QED BY <1>3, <1>6, <3>2, <4>1 DEF Over
    <3> QED BY <3>1, <3>2
  <2> QED BY <1>3, <2>1, <2>2 DEF Over
<1>11. ASSUME NEW g \in Queued(iqueue', cqueue')
       PROVE  g \in downloads' /\ ~Coming(g)' /\ ~Failed(g)' /\ swarm'[pairs'[g].of].at = "out"
  <2>1. CASE g = h /\ h \in downloads /\ IsTorrent(h) /\ ok
    <3>1. UNCHANGED <<pairs, downloads, swarm>> /\ told'[h] = told[h]
      BY <1>1, <1>8, <2>1
    <3>2. ~Failed(h)' /\ ~Coming(h)' /\ swarm[pairs[h].of].at = "out"
      BY <1>6, <1>7, <2>1, <3>1 DEF Failed
    <3> QED BY <2>1, <3>1, <3>2
  <2>2. CASE g \in Queued(iqueue, cqueue)
    <3>1. g \in downloads /\ ~Coming(g) /\ ~Failed(g) /\ swarm[pairs[g].of].at = "out"
      BY <1>3, <2>2 DEF Homes
    <3>2. g # h /\ g \in Handles
      BY <1>2, <1>6, <3>1
    <3> QED BY <1>1, <1>6, <1>8, <3>1, <3>2 DEF Failed
  <2> QED BY <1>9, <2>1, <2>2
<1>12. ASSUME NEW g \in downloads', Coming(g)' \/ Failed(g)' PROVE ~pairs'[g].handle
  <2>1. CASE g = h
    BY <1>1, <1>7, <2>1
  <2>2. CASE g # h
    BY <1>1, <1>2, <1>3, <1>6, <1>8, <1>12, <2>2 DEF Homes, Failed
  <2> QED BY <2>1, <2>2
<1>13. ASSUME phase' = "running", NEW g \in downloads', IsTorrent(g)', pairs'[g].given
       PROVE  \/ Coming(g)' \/ g \in Queued(iqueue', cqueue') \/ Unfetched(g)'
              \/ pairs'[g].handle /\ swarm'[pairs'[g].of].at # "out"
  <2>1. g \in downloads /\ g \in Handles /\ IsTorrent(g)
    BY <1>1, <1>2, <1>13 DEF IsTorrent
  <2>2. CASE g = h
    BY <1>8, <1>9, <2>1, <2>2 DEF Unfetched
  <2>3. CASE g # h
    <3>1. \/ Coming(g) \/ g \in Queued(iqueue, cqueue) \/ Unfetched(g)
          \/ pairs[g].handle /\ swarm[pairs[g].of].at # "out"
      BY <1>1, <1>3, <1>13, <2>1 DEF Homes
    <3>2. Unfetched(g) => Unfetched(g)'
      BY <1>1, <1>8, <2>1, <2>3 DEF Unfetched
    <3> QED BY <1>1, <1>6, <1>9, <2>3, <3>1, <3>2
  <2> QED BY <2>2, <2>3
<1>14. Homes(iqueue, cqueue, pairs, swarm)'
  BY <1>1, <1>3, <1>9, <1>11, <1>12, <1>13 DEF Homes, Queued
<1> QED BY <1>10, <1>14 DEF Placed

LEMMA SwappedStays == [Next]_vars /\ ~swapped' => ~swapped
BY DEF Next, vars, AddDownload, RemoveDownload, PauseResume, HttpStep, HttpAborts, HttpChecks,
       HttpReports, HttpGivesUp, HttpUnlists, Elsewhere, OnHttpDownloadComplete, PopAlert,
       SendAlert, AlertThread, Libtorrent, Checked, Leeched, SeedTimeOver, StopAlerts, StopAll,
       CheckIncompleteQueue, CheckCompleteQueue, rest

LEMMA PlacedStep ==
    ASSUME HttpCapacity >= MaxAdds, Inv, Alone, Placed, [Next]_vars, ~swapped', ~outpaced'
    PROVE  Placed'
<1>1. CASE UNCHANGED vars
  <2>1. Becomes(Session) /\ UNCHANGED <<downloads, net, work, http, phase, world>>
    BY <1>1 DEF Becomes, Session, vars
  <2>2. Homes(iqueue', Session.cqueue, Session.pairs, Session.swarm)
    BY <1>1 DEF Placed, Session, vars
  <2> QED BY <2>1, <2>2, SessionSound, HomesBecome DEF Placed
<1>2. ASSUME NEW x, NEW done \in BOOLEAN, NEW paused \in BOOLEAN, AddDownload(x, done, paused)
      PROVE  Placed'
  BY <1>2, AddDownloadPlaces
<1>3. ASSUME NEW h \in Handles,
             \/ RemoveDownload(h) \/ HttpStep(h) \/ SeedTimeOver(h)
             \/ \E pause \in BOOLEAN : PauseResume(h, pause)
      PROVE  Placed'
  BY <1>3, RemoveDownloadPlaces, HttpStepPlaces, SeedTimeOverPlaces, PauseResumePlaces
<1>4. ASSUME NEW t \in Torrents, Libtorrent(t) PROVE Placed'
  BY <1>4, LibtorrentPlaces
<1>5. CASE AlertThread
  BY <1>5, OnHttpDownloadCompletePlaces, PopAlertPlaces, SendAlertPlaces DEF AlertThread
<1>6. CASE CheckIncompleteQueue \/ CheckCompleteQueue
  BY <1>6, CheckIncompleteQueuePlaces, CheckCompleteQueuePlaces
<1>7. CASE StopAlerts \/ StopAll
  BY <1>7, StopPlaces
<1> QED BY <1>1, <1>2, <1>3, <1>4, <1>5, <1>6, <1>7 DEF Next

(* The two ghosts say how long it lasts.                                     *)
Settled == (~outpaced => Alone) /\ (~swapped /\ ~outpaced => Placed)

LEMMA PlacedInvariance ==
    ASSUME HttpCapacity >= MaxAdds PROVE Spec => [](Inv /\ Settled)
<1>1. Init => Settled
  BY AloneInit, PlacedInit DEF Settled
<1>2. Inv /\ Settled /\ [Next]_vars => Settled'
  BY AloneStep, PlacedStep, SwappedStays, OutpacedStays DEF Settled
<1> QED BY <1>1, <1>2, Invariance, PTL DEF Spec

(* One place for every torrent: if m_HttpAlerts has room for a result of     *)
(* every handle, a listed torrent is on its way, in one queue or in the      *)
(* session, exactly one of these, unless its metafile could not be had; one  *)
(* that is not listed is nowhere; and every torrent of the session belongs   *)
(* to a listed clip.  It holds in whatever order results, evictions, pauses  *)
(* and removals come, until CheckCompleteQueue swaps a torrent, a pause      *)
(* meets a worker behind the check of m_Paused, or a resume meets a worker   *)
(* that has not noticed the pause.                                           *)
THEOREM OnePlaceEach ==
    ASSUME HttpCapacity >= MaxAdds PROVE Spec => []OnePlace
<1>1. Inv /\ Settled => OnePlace
  BY PlacedOnce DEF Settled, OnePlace
<1> QED BY <1>1, PlacedInvariance, PTL

-----------------------------------------------------------------------------
Members(sw) == {t \in Torrents : sw[t].at # "out"}

LEMMA MembersFinite ==
    ASSUME NEW sw PROVE IsFiniteSet(Members(sw)) /\ Cardinality(Members(sw)) \in Nat
BY FS_Subset, FS_CardinalityType, ClipDownloaderAssumption DEF Members

(* One goes, at most one comes.                                              *)
LEMMA NoMore ==
    ASSUME NEW S, IsFiniteSet(S), NEW t \in S, NEW u, NEW T, T \subseteq (S \ {t}) \cup {u}
    PROVE  Cardinality(T) <= Cardinality(S)
<1> DEFINE A == S \ {t}
           B == A \cup {u}
<1>1. IsFiniteSet(A) /\ Cardinality(A) = Cardinality(S) - 1 /\ Cardinality(S) \in Nat
  BY FS_RemoveElement, FS_CardinalityType
<1>2. Cardinality(A) \in Nat
  BY <1>1, FS_CardinalityType
<1> HIDE DEF A
<1>3. IsFiniteSet(B) /\ Cardinality(B) <= Cardinality(A) + 1
  <2>1. IsFiniteSet(A)
    BY <1>1
  <2>2. /\ IsFiniteSet(A \cup {u})
        /\ \/ Cardinality(A \cup {u}) = Cardinality(A)
           \/ Cardinality(A \cup {u}) = Cardinality(A) + 1
    BY <2>1, FS_AddElement, Zenon
  <2> QED BY <1>2, <2>2
<1> HIDE DEF B
<1>4. T \in SUBSET B
  BY DEF A, B
<1>5. Cardinality(T) <= Cardinality(B) /\ IsFiniteSet(T)
  BY <1>3, <1>4, FS_Subset
<1>6. Cardinality(T) \in Nat /\ Cardinality(B) \in Nat
  BY <1>3, <1>5, FS_CardinalityType
<1> QED BY <1>1, <1>2, <1>3, <1>5, <1>6

LEMMA Fewer ==
    ASSUME NEW S, IsFiniteSet(S), NEW T \in SUBSET S
    PROVE  ~(Cardinality(T) > Cardinality(S))
<1>1. Cardinality(T) <= Cardinality(S) /\ IsFiniteSet(T)
  BY FS_Subset
<1>2. Cardinality(T) \in Nat /\ Cardinality(S) \in Nat
  BY <1>1, FS_CardinalityType
<1> QED BY <1>1, <1>2

LEMMA OutMembers ==
    ASSUME NEW sw \in [Torrents -> Place], NEW t \in Torrents
    PROVE  Members(Out(sw, t)) = Members(sw) \ {t}
BY OutTyped DEF Members

LEMMA AddTorrentMembers ==
    ASSUME TInv, NEW s \in Sessions, NEW h \in Handles,
           NEW t \in Torrents, t = s.pairs[h].of, NEW r, r = AddTorrent(s, h)
    PROVE  /\ Members(s.swarm) \subseteq Members(r.swarm)
           /\ Members(r.swarm) \subseteq Members(s.swarm) \cup {t}
<1>0. s.swarm \in [Torrents -> Place]
  BY DEF Sessions
<1>1. r = s \/ r.swarm = s.swarm
      \/ r.swarm = [s.swarm EXCEPT ![t] = [at |-> "checking", paused |-> s.pairs[h].paused]]
  <2>1. CASE h \notin downloads \/ t \in world.unreadable
    BY <2>1 DEF AddTorrent
  <2>2. CASE /\ ~(h \notin downloads \/ t \in world.unreadable)
             /\ s.swarm[t].at # "out"
    <3>1. r = [s EXCEPT !.pairs[h].handle = FALSE]
      BY <2>2 DEF AddTorrent
    <3> QED BY <3>1 DEF Sessions
  <2>3. CASE /\ ~(h \notin downloads \/ t \in world.unreadable)
             /\ s.swarm[t].at = "out"
    <3> DEFINE place == [at |-> "checking", paused |-> s.pairs[h].paused]
               heard == Heard(s.told[h], "other")
    <3>1. r = [s EXCEPT !.pairs[h].handle = TRUE, !.swarm[t] = place, !.told[h] = heard]
      BY <2>3 DEF AddTorrent, Sessions
    <3> HIDE DEF place, heard
    <3>2. r.swarm = [s.swarm EXCEPT ![t] = place]
      BY <3>1 DEF Sessions
    <3> QED BY <3>2 DEF place
  <2> QED BY <2>1, <2>2, <2>3
<1>2. CASE r = s \/ r.swarm = s.swarm
  BY <1>2
<1>3. CASE r.swarm = [s.swarm EXCEPT ![t] = [at |-> "checking", paused |-> s.pairs[h].paused]]
  <2>1. r.swarm[t].at = "checking" /\ \A u \in Torrents : u # t => r.swarm[u] = s.swarm[u]
    BY <1>0, <1>3
  <2> QED BY <2>1 DEF Members
<1> QED BY <1>1, <1>2, <1>3

(* A turn takes its seed out and adds at most the torrent of the head.       *)
LEMMA SwapMembers ==
    ASSUME Inv, NEW s, Sound(s), s.cqueue # <<>>, NEW t \in Members(s.swarm),
           NEW h \in downloads, pairs[h].given, IsTorrent(h), NEW quiet,
           NEW r, r = Swap(s, t, h, quiet)
    PROVE  /\ Cardinality(Members(r.swarm)) <= Cardinality(Members(s.swarm))
           /\ Members(s.swarm) \ {t} \subseteq Members(r.swarm)
<1> DEFINE u == s.pairs[h].of
<1>1. s \in Sessions /\ h \in Handles /\ u \in Torrents /\ t \in Torrents
  BY DEF Sound, Inv, TInv, IsTorrent, Members
<1>2. CASE ~Eligible(s, t)
  <2>1. r = s
    BY <1>2 DEF Swap
  <2>2. Cardinality(Members(s.swarm)) \in Nat
    BY MembersFinite
  <2> QED BY <2>1, <2>2
<1>3. CASE Eligible(s, t)
  <2>1. PICK s2 \in Sessions :
              /\ s2.swarm = Out(s.swarm, t)
              /\ s2.pairs[h].of = u
              /\ r = [AddTorrent(s2, h) EXCEPT !.cqueue = Append(Tail(@), h)]
    BY <1>1, <1>3, SwapDoes DEF Inv
  <2>2. PICK a : a = AddTorrent(s2, h)
    OBVIOUS
  <2>3. s.swarm \in [Torrents -> Place]
    BY <1>1 DEF Sessions
  <2>4. Members(s2.swarm) = Members(s.swarm) \ {t}
    BY <1>1, <2>1, <2>3, OutMembers
  <2>5. /\ Members(s2.swarm) \subseteq Members(a.swarm)
        /\ Members(a.swarm) \subseteq Members(s2.swarm) \cup {u}
    BY <1>1, <2>1, <2>2, AddTorrentMembers DEF Inv
  <2>6. a \in Sessions
    BY <1>1, <2>1, <2>2, AddTorrentDoes DEF Inv
  <2>7. r.swarm = a.swarm
    BY <2>1, <2>2, <2>6 DEF Sessions
  <2>8. IsFiniteSet(Members(s.swarm))
    BY MembersFinite
  <2> HIDE DEF u
  <2> QED BY <2>4, <2>5, <2>7, <2>8, NoMore
<1> QED BY <1>2, <1>3

(* The loop as a whole: every seed it takes out is still there at its turn.  *)
LEMMA SwapsMembers ==
    ASSUME Inv, Placed, cqueue # <<>>, Head(cqueue) \in downloads,
           NEW order \in SetToSeqs(SwarmSet), NEW quiet
    PROVE  Cardinality(Members(Swaps(order, quiet).swarm)) <= Cardinality(SwarmSet)
<1> DEFINE h == Head(cqueue)
<1>1. h \in downloads /\ pairs[h].given /\ IsTorrent(h)
  BY HeadAndTail DEF Inv, TInv, Apart
<1>2. PICK n \in Nat : /\ n = Len(order) /\ \A i \in 1..n : order[i] \in SwarmSet
                       /\ \A i, j \in 1..n : order[i] = order[j] => i = j
  BY OrderIs
<1>3. PICK after :
         /\ after[0] = Session
         /\ \A i \in 1..n : after[i] = Swap(after[i - 1], order[i], h, quiet)
         /\ Swaps(order, quiet) = after[n]
  BY <1>2, SwapsRun
<1> HIDE DEF h
<1>4. SwarmSet = Members(swarm)
  BY DEF SwarmSet, Members, InSession
<1> DEFINE Good(i) == /\ Sound(after[i]) /\ after[i].cqueue # <<>>
                      /\ Cardinality(Members(after[i].swarm)) <= Cardinality(SwarmSet)
                      /\ \A j \in i + 1..n : order[j] \in Members(after[i].swarm)
           Bad == {i \in 0..n : ~Good(i)}
<1>5. 0 \notin Bad
  <2>1. after[0].swarm = swarm /\ after[0].cqueue = cqueue /\ Sound(after[0])
    BY <1>3, SessionSound DEF Session
  <2>2. Cardinality(SwarmSet) \in Nat
    BY <1>4, MembersFinite
  <2> QED BY <1>2, <1>4, <2>1, <2>2
<1>6. ASSUME NEW i \in 1..n, i - 1 \notin Bad PROVE i \notin Bad
  <2>1. /\ Good(i - 1) /\ i - 1 \in 0..n /\ i \in (i - 1) + 1..n
        /\ \A j \in i + 1..n : j \in (i - 1) + 1..n /\ j # i /\ j \in 1..n
    BY <1>6
  <2>2. PICK s : s = after[i - 1]
    OBVIOUS
  <2>3. PICK t : t = order[i]
    OBVIOUS
  <2>4. PICK r : r = after[i]
    OBVIOUS
  <2>5. r = Swap(s, t, h, quiet)
    BY <1>3, <2>2, <2>3, <2>4
  <2>6. /\ Sound(s) /\ s.cqueue # <<>> /\ t \in Members(s.swarm) /\ t \in Torrents
        /\ Cardinality(Members(s.swarm)) <= Cardinality(SwarmSet)
        /\ \A j \in i + 1..n : order[j] \in Members(s.swarm)
    BY <2>1, <2>2, <2>3 DEF Members
  <2>7. Sound(r) /\ r.cqueue # <<>>
    BY <1>1, <2>5, <2>6, SwapSound
  <2>8. /\ Cardinality(Members(r.swarm)) <= Cardinality(Members(s.swarm))
        /\ Members(s.swarm) \ {t} \subseteq Members(r.swarm)
    BY <1>1, <2>5, <2>6, SwapMembers
  <2>9. \A j \in i + 1..n : order[j] \in Members(r.swarm)
    BY <1>2, <2>1, <2>3, <2>6, <2>8
  <2>10. /\ Cardinality(Members(r.swarm)) \in Nat /\ Cardinality(Members(s.swarm)) \in Nat
         /\ Cardinality(SwarmSet) \in Nat
    BY <1>4, MembersFinite
  <2>11. Cardinality(Members(r.swarm)) <= Cardinality(SwarmSet)
    BY <2>6, <2>8, <2>10
  <2> QED BY <2>4, <2>7, <2>9, <2>11
<1>7. Bad = {}
  <2> HIDE DEF Good
  <2> SUFFICES ASSUME Bad # {} PROVE FALSE
    OBVIOUS
  <2>0. Bad \in SUBSET Nat
    OBVIOUS
  <2>1. PICK m \in Bad : \A j \in Bad : m <= j
    BY <2>0, LeastNumber
  <2>2. m \in 1..n /\ m - 1 \in 0..n /\ m - 1 < m
    BY <1>5, <2>1
  <2> QED BY <1>6, <2>1, <2>2
<1> QED BY <1>3, <1>7

(* Only CheckIncompleteQueue goes beyond m_MaxTorrents, with no seed to take *)
(* out.                                                                      *)
LEMMA LimitStep ==
    ASSUME Inv, Placed, [Next]_vars, Full,
           Cardinality(SwarmSet') > Cardinality(SwarmSet)
    PROVE  iqueue' # iqueue /\ \A t \in SwarmSet : ~IsSeed(t)
<1>1. /\ SwarmSet = Members(swarm) /\ SwarmSet' = Members(swarm')
      /\ TInv /\ Apart /\ swarm \in [Torrents -> Place] /\ iqueue \in Seq(Handles)
      /\ cqueue \in Seq(Handles)
  BY DEF SwarmSet, Members, InSession, Inv, TInv
<1>2. ASSUME \A t \in Torrents : swarm'[t].at # "out" => swarm[t].at # "out" PROVE FALSE
  <2>1. SwarmSet' \in SUBSET SwarmSet
    BY <1>1, <1>2 DEF Members
  <2> QED BY <1>1, <2>1, MembersFinite, Fewer
<1>3. ASSUME swarm' = swarm PROVE FALSE
  BY <1>2, <1>3
<1>4. CASE CheckIncompleteQueue
  <2>1. iqueue # <<>>
    BY <1>3, <1>4 DEF CheckIncompleteQueue
  <2>2. PICK s \in Evictions : Becomes(AddTorrent(s, Head(iqueue)))
    BY <1>4, <2>1 DEF CheckIncompleteQueue
  <2>3. iqueue' = Tail(iqueue)
    BY <1>4, <2>1 DEF CheckIncompleteQueue
  <2>4. iqueue' # iqueue
    <3>1. Len(Tail(iqueue)) = Len(iqueue) - 1 /\ Len(iqueue) \in Nat
      BY <1>1, <2>1, HeadAndTail, SeqEntries
    <3> QED BY <2>3, <3>1
  <2>5. ASSUME NEW t0 \in SwarmSet, IsSeed(t0) PROVE FALSE
    <3>1. Owners(pairs, t0) # {}
      <4>1. t0 \in Torrents /\ swarm[t0].at # "out"
        BY <2>5 DEF SwarmSet, InSession
      <4>2. PICK g \in downloads : pairs[g].handle /\ pairs[g].of = t0
        BY <4>1 DEF Placed, Homes
      <4> QED BY <4>2 DEF Owners
    <3>2. s \in Sessions /\ s.pairs = pairs
      BY EvictionsDo DEF Inv
    <3>3. PICK t \in SwarmSet : s.swarm = Out(swarm, t)
      BY <2>5, <3>1, EvictionsDo DEF Inv
    <3>4. PICK h : h = Head(iqueue)
      OBVIOUS
    <3>5. h \in Handles /\ IsTorrent(h)
      BY <1>1, <2>1, <3>4, QueuedClips, HeadAndTail
    <3>6. PICK u : u = s.pairs[h].of
      OBVIOUS
    <3>7. u \in Torrents
      BY <3>2, <3>5, <3>6 DEF IsTorrent
    <3>8. PICK r : r = AddTorrent(s, h)
      OBVIOUS
    <3>9. Members(r.swarm) \subseteq Members(s.swarm) \cup {u}
      BY <1>1, <3>2, <3>5, <3>6, <3>7, <3>8, AddTorrentMembers
    <3>10. t \in Torrents /\ t \in Members(swarm)
      BY <1>1 DEF SwarmSet
    <3>11. Members(s.swarm) = Members(swarm) \ {t}
      BY <1>1, <3>3, <3>10, OutMembers
    <3>12. swarm' = r.swarm
      BY <2>2, <3>4, <3>8 DEF Becomes
    <3>13. Members(swarm') \subseteq (Members(swarm) \ {t}) \cup {u}
      BY <3>9, <3>11, <3>12
    <3>14. Cardinality(Members(swarm')) <= Cardinality(Members(swarm))
      BY <3>10, <3>13, MembersFinite, NoMore
    <3>15. Cardinality(Members(swarm')) \in Nat /\ Cardinality(Members(swarm)) \in Nat
      BY MembersFinite
    <3> QED BY <1>1, <3>14, <3>15
  <2> QED BY <2>4, <2>5
<1>5. ASSUME CheckCompleteQueue PROVE FALSE
  <2>1. cqueue # <<>> /\ Head(cqueue) \in downloads
    BY <1>3, <1>5 DEF CheckCompleteQueue
  <2>2. PICK order \in SetToSeqs(SwarmSet) :
           \E quiet \in SUBSET SwarmSet : Becomes(Swaps(order, quiet))
    BY <1>3, <1>5 DEF CheckCompleteQueue
  <2>3. PICK quiet \in SUBSET SwarmSet : Becomes(Swaps(order, quiet))
    BY <2>2
  <2>4. PICK r : r = Swaps(order, quiet)
    OBVIOUS
  <2>5. Cardinality(Members(r.swarm)) <= Cardinality(SwarmSet)
    BY <2>1, <2>4, SwapsMembers
  <2>6. swarm' = r.swarm
    BY <2>3, <2>4 DEF Becomes
  <2>7. Cardinality(Members(swarm')) \in Nat /\ Cardinality(Members(swarm)) \in Nat
    BY MembersFinite
  <2> QED BY <1>1, <2>5, <2>6, <2>7
<1>6. ASSUME NEW h \in Handles, RemoveDownload(h) PROVE FALSE
  <2>1. swarm' = swarm \/ (IsTorrent(h) /\ swarm' = Out(swarm, pairs[h].of))
    BY <1>6 DEF RemoveDownload, Torn
  <2>2. \A t \in Torrents : Members(Out(swarm, t)) \subseteq Members(swarm)
    BY <1>1, OutMembers
  <2>3. Members(swarm') \subseteq Members(swarm)
    BY <2>1, <2>2 DEF IsTorrent
  <2> QED BY <1>2, <2>3 DEF Members
<1>7. ASSUME NEW h \in Handles, NEW pause \in BOOLEAN, PauseResume(h, pause) PROVE FALSE
  <2>1. swarm' = swarm \/ (IsTorrent(h) /\ swarm' = [swarm EXCEPT ![pairs[h].of].paused = pause])
    BY <1>7 DEF PauseResume
  <2>2. \A t \in Torrents : swarm'[t].at = swarm[t].at
    BY <1>1, <2>1 DEF Place, IsTorrent
  <2> QED BY <1>2, <2>2
<1>8. ASSUME NEW t \in Torrents, Libtorrent(t) PROVE FALSE
  <2>1. swarm[t].at # "out" /\ \E at \in {"seeding", "leeching"} : Joins(t, at)
    BY <1>8 DEF Libtorrent, Checked, Leeched
  <2>2. \A u \in Torrents : swarm'[u].at # "out" => swarm[u].at # "out"
    BY <1>1, <2>1 DEF Joins, Place
  <2> QED BY <1>2, <2>2
<1>9. ASSUME StopAll PROVE FALSE
  BY <1>2, <1>9 DEF StopAll
<1>10. ASSUME \/ UNCHANGED vars \/ AlertThread \/ StopAlerts
              \/ \E h \in Handles : HttpStep(h) \/ SeedTimeOver(h)
              \/ \E x \in Files \cup Torrents, done, paused \in BOOLEAN :
                    AddDownload(x, done, paused)
       PROVE  FALSE
  BY <1>3, <1>10 DEF vars, AlertThread, OnHttpDownloadComplete, PopAlert, SendAlert, StopAlerts,
       HttpStep, HttpAborts, HttpChecks, HttpReports, HttpGivesUp, HttpUnlists, Elsewhere,
       SeedTimeOver, AddDownload
<1> QED BY <1>4, <1>5, <1>6, <1>7, <1>8, <1>9, <1>10 DEF Next

(* The session grows beyond m_MaxTorrents only for a torrent from the queue  *)
(* of incomplete ones, and only when it holds no seed that could make room;  *)
(* the swap of complete torrents never makes it larger.  It holds as long as *)
(* OnePlaceEach.                                                             *)
THEOREM LimitHolds ==
    ASSUME HttpCapacity >= MaxAdds PROVE Spec => LimitYieldsToDownloads
<1>1. Inv /\ Settled /\ [Next]_vars =>
        [Cardinality(SwarmSet') > Cardinality(SwarmSet) /\ Full /\ ~swapped /\ ~outpaced
          => iqueue' # iqueue /\ \A t \in SwarmSet : ~IsSeed(t)]_vars
  BY LimitStep DEF Settled
<1> QED BY <1>1, PlacedInvariance, PTL DEF Spec, LimitYieldsToDownloads
=============================================================================
