------------------------- MODULE AsyncDownloadProofs -------------------------
(***************************************************************************)
(* Results on FAsyncDownload, for any downloads, any capacity of m_Urls    *)
(* and any order of Pause, Resume, Stop, completions and late callers:     *)
(* there is a thread for every entry of m_aDownloads (EnoughWorkers, from  *)
(* IInv); the state keeps its types, the pool included, which is never     *)
(* larger than the downloads are many (TypeOK); and every live record is   *)
(* in exactly one place of the two lists (OneList, from LInv).             *)
(*                                                                         *)
(* The second half is about the receivers (Requests): while Pause, Resume  *)
(* and Stop wait for the workers to notice, AsyncDownload implements       *)
(* Requests.  The same invariant gives the two others: a record has one    *)
(* worker at most, which does not work on a deleted record, and nothing in *)
(* m_aDownloads is left without anybody to work on it as long as m_Urls    *)
(* has room.                                                               *)
(***************************************************************************)
EXTENDS AsyncDownload, FiniteSetTheorems, SequenceTheorems,
        WellFoundedInduction, TLAPS

(* The part of the type invariant the argument needs.                        *)
PoolType ==
    /\ slots \in Seq(Downloads \cup {None})
    /\ pool \in Nat
    /\ adding \in {None} \cup Call

IInv == PoolType /\ EnoughWorkers

(* m_aDownloads grows by at most one entry when a record is listed ...       *)
LEMMA ListedGrowsByOne ==
    ASSUME slots \in Seq(Downloads \cup {None}), NEW d \in Downloads
    PROVE  /\ Listed(d) \in Seq(Downloads \cup {None})
           /\ Len(Listed(d)) <= Len(slots) + 1
<1>1. /\ Append(slots, d) \in Seq(Downloads \cup {None})
      /\ Len(Append(slots, d)) = Len(slots) + 1
  BY AppendProperties
<1>2. \A k : /\ [slots EXCEPT ![k] = d] \in Seq(Downloads \cup {None})
             /\ Len([slots EXCEPT ![k] = d]) = Len(slots)
  <2> TAKE k
  <2>1. CASE k \in 1..Len(slots)
    BY <2>1, ExceptSeq
  <2>2. CASE k \notin 1..Len(slots)
    <3>1. slots \in [1..Len(slots) -> Downloads \cup {None}]
      BY LenProperties
    <3>2. [slots EXCEPT ![k] = d] = slots
      BY <2>2, <3>1
    <3> QED
      BY <3>2
  <2> QED
    BY <2>1, <2>2
<1>3. Len(slots) \in Nat
  BY LenProperties
<1> QED
  BY <1>1, <1>2, <1>3 DEF Listed

(* ... and keeps its length when an entry is set to NULL.                    *)
LEMMA UnslottedKeepsLength ==
    ASSUME slots \in Seq(Downloads \cup {None}), NEW d
    PROVE  /\ Unslotted(d) \in Seq(Downloads \cup {None})
           /\ Len(Unslotted(d)) = Len(slots)
<1>1. /\ Len(slots) \in Nat
      /\ DOMAIN slots = 1..Len(slots)
      /\ slots \in [1..Len(slots) -> Downloads \cup {None}]
  BY LenProperties
<1>2. Unslotted(d) \in [1..Len(slots) -> Downloads \cup {None}]
  BY <1>1 DEF Unslotted
<1>3. Unslotted(d) \in Seq(Downloads \cup {None})
  BY <1>1, <1>2, SeqDef
<1>4. DOMAIN Unslotted(d) = 1..Len(slots)
  BY <1>1 DEF Unslotted
<1>5. /\ Len(Unslotted(d)) \in Nat
      /\ DOMAIN Unslotted(d) = 1..Len(Unslotted(d))
  BY <1>3, LenProperties
<1> QED
  BY <1>1, <1>3, <1>4, <1>5

(* A call of AddDownload may list one record more than there are threads.    *)
LEMMA AddLockedKeepsRoom ==
    ASSUME IInv, NEW by \in Nat, NEW d \in Downloads, AddLocked(by, d),
           pool' = pool, phase' = phase
    PROVE  /\ slots' \in Seq(Downloads \cup {None})
           /\ adding' \in Call
           /\ EnoughWorkers'
<1>1. /\ slots' \in Seq(Downloads \cup {None})
      /\ Len(slots') <= Len(slots) + 1
  BY ListedGrowsByOne DEF IInv, PoolType, AddLocked
<1>2. adding' \in Call /\ adding' # None /\ adding'.at = "counting"
  BY AsyncDownloadAssumption DEF AddLocked, Call, Stages
<1>3. Len(slots) \in Nat /\ Len(slots') \in Nat /\ pool \in Nat
  BY <1>1, LenProperties DEF IInv, PoolType
<1>4. phase # "joined" => Len(slots) <= pool
  BY <1>3 DEF IInv, EnoughWorkers, AddLocked
<1> QED
  BY <1>1, <1>2, <1>3, <1>4 DEF EnoughWorkers

(* A step that keeps the length of the list and leaves the pool alone.       *)
LEMMA NothingAdded ==
    ASSUME IInv, slots' \in Seq(Downloads \cup {None}), Len(slots') = Len(slots),
           pool' = pool, adding' = adding, phase' # "joined" => phase # "joined"
    PROVE  IInv'
BY DEF IInv, PoolType, EnoughWorkers

(* Init starts one thread for an empty list.                                 *)
LEMMA InitHasRoom == Init => IInv
<1> SUFFICES ASSUME Init PROVE IInv
  OBVIOUS
<1>1. slots \in Seq(Downloads \cup {None}) /\ Len(slots) = 0
  BY EmptySeq DEF Init
<1> QED
  BY <1>1 DEF Init, IInv, PoolType, EnoughWorkers

LEMMA StepKeepsRoom == IInv /\ [Next]_vars => IInv'
<1> SUFFICES ASSUME IInv, [Next]_vars PROVE IInv'
  OBVIOUS
<1> USE DEF lists, queue, flags, stop, rest
<1>0. Workers \subseteq Nat
  <2>1. Cardinality(Downloads) \in Nat
    BY AsyncDownloadAssumption, FS_CardinalityType
  <2> QED
    BY <2>1 DEF Workers
<1>1. ASSUME NEW d \in Downloads, DownloadURL(d) PROVE IInv'
  BY <1>1, AddLockedKeepsRoom DEF DownloadURL, IInv, PoolType
<1>2. ASSUME NEW d \in Downloads, StopDownload(d) PROVE IInv'
  BY <1>2 DEF StopDownload, IInv, PoolType, EnoughWorkers
<1>3. ASSUME NEW d \in Downloads, Pause(d) PROVE IInv'
  <2>1. /\ Unslotted(d) \in Seq(Downloads \cup {None})
        /\ Len(Unslotted(d)) = Len(slots)
    BY UnslottedKeepsLength DEF IInv, PoolType
  <2> QED
    BY <1>3, <2>1, NothingAdded DEF Pause
<1>4. ASSUME NEW d \in Downloads, Resume(d) PROVE IInv'
  BY <1>4, AddLockedKeepsRoom DEF Resume, IInv, PoolType
<1>5. ASSUME NEW w \in Workers, NEW d \in Downloads, ChainDownload(w, d) PROVE IInv'
  BY <1>0, <1>5, AddLockedKeepsRoom DEF ChainDownload, IInv, PoolType
<1>6. ASSUME AddStep PROVE IInv'
  <2>1. Len(slots) \in Nat /\ pool \in Nat
    BY LenProperties DEF IInv, PoolType
  <2>2. adding \in Call /\ slots' = slots /\ phase' = phase
    BY <1>6 DEF AddStep, CountThreads, AddWorker, ResumeWorkers, PushAdded, Adds, IInv, PoolType
  <2>3. CASE CountThreads
    <3>1. PICK to \in Stages : /\ to = (IF NeedsWorker THEN "making" ELSE "pushing")
                               /\ adding' = [adding EXCEPT !.at = to]
      BY <2>3 DEF CountThreads, Adds, Stages
    <3>2. adding' \in Call /\ adding'.at = to /\ pool' = pool
      BY <2>2, <2>3, <3>1 DEF CountThreads, Call
    <3>3. adding # None /\ adding.at = "counting"
      BY <2>3 DEF CountThreads, Adds
    <3>4. CASE NeedsWorker
      <4>1. adding' # None /\ adding'.at = "making"
        BY <3>1, <3>2, <3>4, AsyncDownloadAssumption
      <4> QED BY <2>1, <2>2, <3>2, <3>3, <4>1 DEF IInv, PoolType, EnoughWorkers
    <3>5. CASE ~NeedsWorker
      BY <2>1, <2>2, <3>1, <3>2, <3>5 DEF NeedsWorker, IInv, PoolType, EnoughWorkers
    <3> QED BY <3>4, <3>5
  <2>4. CASE AddWorker
    <3>1. adding' \in Call /\ adding'.at = "resuming" /\ adding.at = "making" /\ pool' = pool + 1
      BY <2>2, <2>4 DEF AddWorker, Adds, Call, Stages
    <3> QED BY <2>1, <2>2, <3>1 DEF IInv, PoolType, EnoughWorkers
  <2>5. CASE ResumeWorkers
    <3>1. adding' \in Call /\ adding'.at = "pushing" /\ adding.at = "resuming" /\ pool' = pool
      BY <2>2, <2>5 DEF ResumeWorkers, Adds, Call, Stages
    <3> QED BY <2>1, <2>2, <3>1 DEF IInv, PoolType, EnoughWorkers
  <2>6. CASE PushAdded
    BY <2>1, <2>2, <2>6 DEF PushAdded, IInv, PoolType, EnoughWorkers
  <2> QED BY <1>6, <2>3, <2>4, <2>5, <2>6 DEF AddStep
<1>7. ASSUME NEW w \in Workers, WorkerStep(w) PROVE IInv'
  <2>1. CASE Unlist(w)
    <3>1. /\ Unslotted(worker[w].d) \in Seq(Downloads \cup {None})
          /\ Len(Unslotted(worker[w].d)) = Len(slots)
      BY UnslottedKeepsLength DEF IInv, PoolType
    <3> QED
      BY <2>1, <3>1, NothingAdded DEF Unlist
  <2>2. CASE ~Unlist(w)
    <3>1. UNCHANGED <<slots, pool, adding, phase>>
      BY <1>7, <2>2 DEF WorkerStep, Wake, Pop, Transfer, CheckStopping, CheckPaused,
                        Report, NotifyReturns, Leave
    <3> QED
      BY <3>1 DEF IInv, PoolType, EnoughWorkers
  <2> QED
    BY <2>1, <2>2
<1>8. ASSUME AbortDownloads PROVE IInv'
  BY <1>8 DEF AbortDownloads, IInv, PoolType, EnoughWorkers
<1>9. ASSUME StopAndWait PROVE IInv'
  BY <1>9 DEF StopAndWait, IInv, PoolType, EnoughWorkers
<1>10. ASSUME JoinNext PROVE IInv'
  BY <1>10 DEF JoinNext, IInv, PoolType, EnoughWorkers
<1>11. ASSUME DeleteListed PROVE IInv'
  <2>1. slots' \in Seq(Downloads \cup {None}) /\ Len(slots') = 0
    BY <1>11, EmptySeq DEF DeleteListed
  <2> QED
    BY <1>11, <2>1 DEF DeleteListed, IInv, PoolType, EnoughWorkers
<1>12. CASE UNCHANGED vars
  BY <1>12 DEF vars, IInv, PoolType, EnoughWorkers
<1> QED
  BY <1>1, <1>2, <1>3, <1>4, <1>5, <1>6, <1>7, <1>8, <1>9, <1>10, <1>11, <1>12
     DEF Next, StopStep

(* Every entry of m_aDownloads has a thread, but for the one AddDownload is  *)
(* about to make (LiberTV/FAsyncHttpDownload.cpp:374-396).                   *)
THEOREM PoolGrowsWithList == Spec => []EnoughWorkers
<1>1. IInv => EnoughWorkers
  BY DEF IInv
<1> QED
  BY <1>1, InitHasRoom, StepKeepsRoom, PTL DEF Spec

-----------------------------------------------------------------------------
(* What a thread of the pool can be.                                         *)
WorkerState ==
    [at : {"none", "waiting", "woken", "working", "ended", "completing",
           "reporting", "notifying", "chaining", "reported", "exited"},
     d  : Downloads \cup {None},
     hr : Results \cup {None}]

(* The types, as in TypeOK; and that a thread about to be made is needed, as *)
(* the list stays as it is meanwhile and the pool does not grow.             *)
Types ==
    /\ slots \in Seq(Downloads \cup {None})
    /\ paused \in Seq(Downloads)
    /\ urls \in Seq(Downloads)
    /\ permits \in Nat
    /\ pool \in 0..Cardinality(Downloads) + 1
    /\ worker \in [Workers -> WorkerState]
    /\ rec \in [Downloads -> {"new", "live", "deleted"}]
    /\ pausedF \in [Downloads -> BOOLEAN]
    /\ abortF \in [Downloads -> BOOLEAN]
    /\ adding \in {None} \cup [by : Workers \cup {0}, d : Downloads, at : Stages]
    /\ phase \in {"running", "aborted", "waiting", "joined", "done"}
    /\ joining \in {0} \cup Workers
    /\ world \in World
    /\ pauses \in 0..world.pauses
    /\ reports \in [Downloads -> Seq(Results)]
    /\ asked \subseteq Downloads
    /\ adding # None /\ adding.at = "making" => Len(slots) > pool

(* Where the records are: neither list has one twice, nor have both; what    *)
(* is in m_aDownloads is alive, what is in m_aPaused until AbortDownloads    *)
(* deletes it; and what is alive is in one of them.  The list is never       *)
(* longer than the downloads are many, as it only grows when it has no       *)
(* NULL.                                                                     *)
Placed ==
    /\ Len(slots) <= Cardinality(Downloads)
    /\ \A i, j \in 1..Len(slots) : slots[i] = slots[j] /\ slots[i] # None => i = j
    /\ \A i, j \in 1..Len(paused) : paused[i] = paused[j] => i = j
    /\ \A i \in 1..Len(slots), j \in 1..Len(paused) : slots[i] # paused[j]
    /\ \A i \in 1..Len(slots) : slots[i] # None => rec[slots[i]] = "live"
    /\ \A i \in 1..Len(paused) : rec[paused[i]] = IF stopping THEN "deleted" ELSE "live"
    /\ \A d \in Downloads : rec[d] = "live" =>
          \/ \E i \in 1..Len(slots) : slots[i] = d
          \/ \E i \in 1..Len(paused) : paused[i] = d

(* A worker that is done with a transfer has its result.                     *)
Answers == \A w \in Workers :
    worker[w].at \in {"ended", "completing", "reporting"} => worker[w].hr \in Results

(* The inductive invariant.                                                  *)
LInv == Types /\ Placed /\ Answers

(* The threads there can be are numbered.                                    *)
LEMMA Sizes ==
    /\ Cardinality(Downloads) \in Nat
    /\ Workers = 1..(Cardinality(Downloads) + 1)
    /\ 1 \in Workers
BY AsyncDownloadAssumption, FS_CardinalityType DEF Workers

(* The entries of a list.                                                    *)
LEMMA InList ==
    ASSUME NEW S, NEW s \in Seq(S), NEW d, d # None
    PROVE  /\ d \in In(s) <=> \E i \in 1..Len(s) : s[i] = d
           /\ DOMAIN s = 1..Len(s)
BY LenProperties DEF In

(* A set of numbers has a least one: the first NULL.                         *)
LEMMA LeastNumber ==
    ASSUME NEW S \in SUBSET Nat, S # {} PROVE \E m \in S : \A j \in S : m <= j
<1>1. \E m \in S : \A j \in S : ~(<<j, m>> \in OpToRel(<, Nat))
  BY NatLessThanWellFounded, WFMin
<1>2. PICK m \in S : \A j \in S : ~(<<j, m>> \in OpToRel(<, Nat))
  BY <1>1
<1>3. \A j \in S : ~(j < m)
  BY <1>2 DEF OpToRel
<1> QED BY <1>3

(* CAtlArray::RemoveAt: what follows moves up.                               *)
LEMMA RemovedAt ==
    ASSUME NEW S, NEW s \in Seq(S), NEW i \in 1..Len(s)
    PROVE  /\ RemoveAt(s, i) \in Seq(S)
           /\ Len(RemoveAt(s, i)) = Len(s) - 1
           /\ \A j \in 1..Len(s) - 1 :
                 RemoveAt(s, i)[j] = IF j < i THEN s[j] ELSE s[j + 1]
<1> DEFINE a == SubSeq(s, 1, i - 1)
           b == SubSeq(s, i + 1, Len(s))
<1>0. Len(s) \in Nat /\ \A k \in 1..Len(s) : s[k] \in S
  BY LenProperties, ElementOfSeq
<1>1. /\ a \in Seq(S) /\ Len(a) = i - 1
      /\ \A j \in 1..i - 1 : a[j] = s[j]
  <2>1. \A k \in 1..i - 1 : s[k] \in S
    BY <1>0
  <2> QED BY <1>0, <2>1, SubSeqProperties
<1>2. /\ b \in Seq(S) /\ Len(b) = Len(s) - i
      /\ \A j \in 1..Len(s) - i : b[j] = s[i + j]
  <2>1. \A k \in i + 1..Len(s) : s[k] \in S
    BY <1>0
  <2> QED BY <1>0, <2>1, SubSeqProperties
<1> HIDE DEF a, b
<1>3. /\ a \o b \in Seq(S) /\ Len(a \o b) = Len(a) + Len(b)
      /\ \A j \in 1..Len(a) + Len(b) :
            (a \o b)[j] = IF j <= Len(a) THEN a[j] ELSE b[j - Len(a)]
  BY <1>1, <1>2, ConcatProperties
<1>4. \A j \in 1..Len(s) - 1 : (a \o b)[j] = IF j < i THEN s[j] ELSE s[j + 1]
  <2> TAKE j \in 1..Len(s) - 1
  <2>1. CASE j < i
    BY <1>0, <1>1, <1>2, <1>3, <2>1
  <2>2. CASE ~(j < i)
    <3>1. j - (i - 1) \in 1..Len(s) - i /\ i + (j - (i - 1)) = j + 1
      BY <1>0, <2>2
    <3>2. (a \o b)[j] = b[j - (i - 1)]
      BY <1>0, <1>1, <1>2, <1>3, <2>2
    <3>3. b[j - (i - 1)] = s[i + (j - (i - 1))]
      BY <1>2, <3>1
    <3> QED BY <2>2, <3>1, <3>2, <3>3
  <2> QED BY <2>1, <2>2
<1>5. Len(a \o b) = Len(s) - 1
  BY <1>0, <1>1, <1>2, <1>3
<1>6. RemoveAt(s, i) = a \o b
  BY DEF RemoveAt, a, b
<1> QED BY <1>3, <1>4, <1>5, <1>6

(* AddDownload puts the record at one place and leaves the others; it has    *)
(* room, as by the pigeonhole principle a list without NULL and without      *)
(* this record is shorter than the downloads are many.                       *)
LEMMA ListedPlaces ==
    ASSUME LInv, NEW d \in Downloads, \A i \in 1..Len(slots) : slots[i] # d
    PROVE  /\ Listed(d) \in Seq(Downloads \cup {None})
           /\ Len(Listed(d)) <= Cardinality(Downloads)
           /\ Len(Listed(d)) >= Len(slots)
           /\ \E k \in 1..Len(Listed(d)) :
                 /\ Listed(d)[k] = d
                 /\ \A j \in 1..Len(Listed(d)) :
                       j # k => j \in 1..Len(slots) /\ Listed(d)[j] = slots[j]
                 /\ \A j \in 1..Len(slots) : slots[j] # None => j # k
<1> DEFINE free == {k \in DOMAIN slots : slots[k] = None}
           n == Cardinality(Downloads)
<1>0. /\ slots \in Seq(Downloads \cup {None}) /\ Len(slots) \in Nat
      /\ DOMAIN slots = 1..Len(slots) /\ n \in Nat /\ Len(slots) <= n
      /\ \A i \in 1..Len(slots) : slots[i] \in Downloads \cup {None}
  BY Sizes, LenProperties, ElementOfSeq DEF LInv, Types, Placed
<1>1. CASE free = {}
  <2>1. Listed(d) = Append(slots, d)
    BY <1>1 DEF Listed
  <2>2. /\ Append(slots, d) \in Seq(Downloads \cup {None})
        /\ Len(Append(slots, d)) = Len(slots) + 1
        /\ \A i \in 1..Len(slots) : Append(slots, d)[i] = slots[i]
        /\ Append(slots, d)[Len(slots) + 1] = d
    BY <1>0, AppendProperties
  <2> DEFINE f == [i \in 1..Len(slots) + 1 |-> Append(slots, d)[i]]
  <2>3. \A i \in 1..Len(slots) : slots[i] \in Downloads
    BY <1>0, <1>1
  <2>4. f \in [1..Len(slots) + 1 -> Downloads]
    BY <1>0, <2>2, <2>3
  <2>5. \A x, y \in 1..Len(slots) + 1 : f[x] = f[y] => x = y
    <3>1. \A x, y \in 1..Len(slots) : slots[x] = slots[y] => x = y
      BY <1>0, <1>1 DEF LInv, Placed
    <3> QED BY <1>0, <2>2, <3>1
  <2>6. Len(slots) + 1 <= n
    <3>1. ASSUME n < Len(slots) + 1 PROVE FALSE
      <4>1. /\ IsFiniteSet(1..Len(slots) + 1)
            /\ Cardinality(1..Len(slots) + 1) = Len(slots) + 1
        BY <1>0, FS_Interval
      <4>2. IsFiniteSet(Downloads)
        BY AsyncDownloadAssumption
      <4> HIDE DEF f
      <4>3. \E x, y \in 1..Len(slots) + 1 : x # y /\ f[x] = f[y]
        BY <2>4, <3>1, <4>1, <4>2, FS_PigeonHole
      <4> QED BY <2>5, <4>3
    <3> QED BY <1>0, <3>1
  <2>7. Len(slots) + 1 \in 1..Len(Listed(d))
    BY <1>0, <2>1, <2>2
  <2> QED BY <1>0, <2>1, <2>2, <2>6, <2>7
<1>2. CASE free # {}
  <2> DEFINE k == CHOOSE k \in free : \A j \in free : k <= j
  <2>1. k \in free
    <3>1. free \subseteq Nat
      BY <1>0
    <3>2. \E m \in free : \A j \in free : m <= j
      BY <1>2, <3>1, LeastNumber
    <3> QED BY <3>2
  <2>2. Listed(d) = [slots EXCEPT ![k] = d]
    BY <1>2 DEF Listed
  <2> HIDE DEF k
  <2>3. /\ k \in 1..Len(slots) /\ slots[k] = None
    BY <1>0, <2>1
  <2>4. /\ Listed(d) \in Seq(Downloads \cup {None})
        /\ Len(Listed(d)) = Len(slots)
        /\ \A j \in 1..Len(slots) : Listed(d)[j] = IF j = k THEN d ELSE slots[j]
    BY <1>0, <2>2, <2>3, ExceptSeq
  <2> QED BY <1>0, <2>3, <2>4
<1> QED BY <1>1, <1>2

(* What LInv says of the types of the two lists.                             *)
LEMMA ListsAre ==
    ASSUME LInv
    PROVE  /\ Len(slots) \in Nat /\ Len(paused) \in Nat
           /\ DOMAIN slots = 1..Len(slots) /\ DOMAIN paused = 1..Len(paused)
           /\ \A i \in 1..Len(slots) : slots[i] \in Downloads \cup {None}
           /\ \A i \in 1..Len(paused) : paused[i] \in Downloads
           /\ None \notin Downloads
BY AsyncDownloadAssumption, LenProperties, ElementOfSeq DEF LInv, Types

(* A record that enters m_aDownloads (new, or on its way from m_aPaused).    *)
LEMMA PlacedWhenListed ==
    ASSUME LInv, NEW d \in Downloads, \A i \in 1..Len(slots) : slots[i] # d,
           slots' = Listed(d), phase' = phase,
           rec'[d] = "live", \A e \in Downloads : e # d => rec'[e] = rec[e],
           paused' \in Seq(Downloads),
           \A i, j \in 1..Len(paused') : paused'[i] = paused'[j] => i = j,
           \A j \in 1..Len(paused') :
              paused'[j] # d /\ \E i \in 1..Len(paused) : paused[i] = paused'[j],
           \A i \in 1..Len(paused) :
              paused[i] # d => \E j \in 1..Len(paused') : paused'[j] = paused[i]
    PROVE  Placed'
<1>1. /\ Len(slots') <= Cardinality(Downloads)
      /\ Len(slots') >= Len(slots) /\ Len(slots') \in Nat /\ Len(paused') \in Nat
  BY ListedPlaces, LenProperties
<1>2. PICK k \in 1..Len(slots') :
            /\ slots'[k] = d
            /\ \A j \in 1..Len(slots') :
                  j # k => j \in 1..Len(slots) /\ slots'[j] = slots[j]
            /\ \A j \in 1..Len(slots) : slots[j] # None => j # k
  BY ListedPlaces
<1>3. \A i, j \in 1..Len(slots') : slots'[i] = slots'[j] /\ slots'[i] # None => i = j
  BY <1>2 DEF LInv, Placed
<1>4. \A i \in 1..Len(slots'), j \in 1..Len(paused') : slots'[i] # paused'[j]
  BY <1>2 DEF LInv, Placed
<1>5. \A i \in 1..Len(slots') : slots'[i] # None => rec'[slots'[i]] = "live"
  <2> TAKE i \in 1..Len(slots')
  <2>1. CASE i = k
    BY <1>2, <2>1
  <2>2. CASE i # k /\ slots'[i] # None
    <3>1. i \in 1..Len(slots) /\ slots'[i] = slots[i]
      BY <1>2, <2>2
    <3>2. slots[i] \in Downloads /\ slots[i] # d /\ rec[slots[i]] = "live"
      BY <2>2, <3>1, ListsAre DEF LInv, Placed
    <3> QED BY <3>1, <3>2
  <2> QED BY <2>1, <2>2
<1>6. \A i \in 1..Len(paused') :
         rec'[paused'[i]] = IF stopping' THEN "deleted" ELSE "live"
  BY ListsAre DEF LInv, Placed, stopping
<1>7. ASSUME NEW e \in Downloads, rec'[e] = "live"
      PROVE  \/ \E i \in 1..Len(slots') : slots'[i] = e
             \/ \E i \in 1..Len(paused') : paused'[i] = e
  <2>1. CASE e = d
    BY <1>2, <2>1
  <2>2. CASE e # d /\ \E i \in 1..Len(slots) : slots[i] = e
    <3>1. PICK i \in 1..Len(slots) : slots[i] = e
      BY <2>2
    <3>2. i # k /\ i \in 1..Len(slots')
      BY <1>1, <1>2, <3>1, ListsAre
    <3> QED BY <1>2, <3>1, <3>2
  <2>3. CASE e # d /\ \E i \in 1..Len(paused) : paused[i] = e
    BY <2>3
  <2> QED BY <1>7, <2>1, <2>2, <2>3 DEF LInv, Placed
<1> QED BY <1>1, <1>3, <1>4, <1>5, <1>6, <1>7 DEF Placed

(* One entry becomes NULL.                                                   *)
LEMMA UnslottedIs ==
    ASSUME LInv, NEW d
    PROVE  /\ Unslotted(d) \in Seq(Downloads \cup {None})
           /\ Len(Unslotted(d)) = Len(slots)
           /\ \A i \in 1..Len(slots) :
                 Unslotted(d)[i] = IF slots[i] = d THEN None ELSE slots[i]
<1>1. slots \in Seq(Downloads \cup {None})
  BY DEF LInv, Types
<1> QED BY <1>1, ListsAre, UnslottedKeepsLength DEF Unslotted

(* Pause moves a record from m_aDownloads to m_aPaused.                      *)
LEMMA PausedElsewhere ==
    ASSUME LInv, NEW d \in Downloads, \E i \in 1..Len(slots) : slots[i] = d, ~stopping,
           slots' = Unslotted(d), paused' = Append(paused, d), rec' = rec, phase' = phase
    PROVE  Placed'
<1>1. /\ Len(slots') = Len(slots) /\ Len(slots) \in Nat /\ Len(paused) \in Nat
      /\ \A i \in 1..Len(slots) : slots'[i] = IF slots[i] = d THEN None ELSE slots[i]
  BY UnslottedIs, ListsAre
<1>2. /\ Len(paused') = Len(paused) + 1
      /\ \A i \in 1..Len(paused) : paused'[i] = paused[i]
      /\ paused'[Len(paused) + 1] = d
  BY AppendProperties DEF LInv, Types
<1>3. \A i \in 1..Len(paused) : paused[i] # d
  BY DEF LInv, Placed
<1>4. \A i \in 1..Len(paused') : i = Len(paused) + 1 \/ i \in 1..Len(paused)
  BY <1>1, <1>2
<1>5. \A i, j \in 1..Len(slots') : slots'[i] = slots'[j] /\ slots'[i] # None => i = j
  BY <1>1 DEF LInv, Placed
<1>6. \A i, j \in 1..Len(paused') : paused'[i] = paused'[j] => i = j
  BY <1>2, <1>3, <1>4 DEF LInv, Placed
<1>7. \A i \in 1..Len(slots'), j \in 1..Len(paused') : slots'[i] # paused'[j]
  BY <1>1, <1>2, <1>4, ListsAre DEF LInv, Placed
<1>8. \A i \in 1..Len(slots') : slots'[i] # None => rec'[slots'[i]] = "live"
  BY <1>1 DEF LInv, Placed
<1>9. \A i \in 1..Len(paused') : rec'[paused'[i]] = IF stopping' THEN "deleted" ELSE "live"
  BY <1>2, <1>4, ListsAre DEF LInv, Placed, stopping
<1>10. ASSUME NEW e \in Downloads, rec'[e] = "live"
       PROVE  \/ \E i \in 1..Len(slots') : slots'[i] = e
              \/ \E i \in 1..Len(paused') : paused'[i] = e
  <2>1. CASE e = d
    BY <1>1, <1>2, <2>1
  <2>2. CASE e # d /\ \E i \in 1..Len(slots) : slots[i] = e
    BY <1>1, <2>2
  <2>3. CASE e # d /\ \E i \in 1..Len(paused) : paused[i] = e
    BY <1>1, <1>2, <2>3
  <2> QED BY <1>10, <2>1, <2>2, <2>3 DEF LInv, Placed
<1>11. Len(slots') <= Cardinality(Downloads)
  BY <1>1 DEF LInv, Placed
<1> QED BY <1>5, <1>6, <1>7, <1>8, <1>9, <1>10, <1>11 DEF Placed

(* OnDownloadComplete takes a record out of m_aDownloads and deletes it,     *)
(* or finds that it is no longer there.                                      *)
LEMMA PlacedWhenUnlisted ==
    ASSUME LInv, NEW d \in Downloads \cup {None},
           slots' = Unslotted(d), paused' = paused, phase' = phase,
           rec' = IF d \in In(slots) THEN [rec EXCEPT ![d] = "deleted"] ELSE rec
    PROVE  Placed'
<1>1. /\ Len(slots') = Len(slots) /\ Len(slots) \in Nat /\ Len(paused) \in Nat
      /\ \A i \in 1..Len(slots) : slots'[i] = IF slots[i] = d THEN None ELSE slots[i]
  BY UnslottedIs, ListsAre
<1>2. d # None => (d \in In(slots) <=> \E i \in 1..Len(slots) : slots[i] = d)
  BY InList DEF LInv, Types
<1>3. None \notin In(slots) /\ rec \in [Downloads -> {"new", "live", "deleted"}]
  BY DEF In, LInv, Types
<1>4. \A e \in Downloads : e # d => rec'[e] = rec[e]
  BY <1>3
<1>5. d \in Downloads => rec'[d] = IF d \in In(slots) THEN "deleted" ELSE rec[d]
  BY <1>3
<1>6. \A i, j \in 1..Len(slots') : slots'[i] = slots'[j] /\ slots'[i] # None => i = j
  BY <1>1 DEF LInv, Placed
<1>7. \A i \in 1..Len(slots'), j \in 1..Len(paused') : slots'[i] # paused'[j]
  BY <1>1, ListsAre DEF LInv, Placed
<1>8. \A i \in 1..Len(slots') : slots'[i] # None => rec'[slots'[i]] = "live"
  BY <1>1, <1>4, ListsAre DEF LInv, Placed
<1>9. \A i \in 1..Len(paused') : rec'[paused'[i]] = IF stopping' THEN "deleted" ELSE "live"
  <2> TAKE i \in 1..Len(paused')
  <2>1. paused[i] \in Downloads /\ paused[i] # None
    BY ListsAre
  <2>2. CASE paused[i] # d
    BY <1>4, <2>1, <2>2 DEF LInv, Placed, stopping
  <2>3. CASE paused[i] = d
    <3>1. d \notin In(slots)
      BY <1>2, <2>1, <2>3 DEF LInv, Placed
    <3> QED BY <2>1, <2>3, <3>1 DEF LInv, Placed, stopping
  <2> QED BY <2>2, <2>3
<1>10. ASSUME NEW e \in Downloads, rec'[e] = "live"
       PROVE  \/ \E i \in 1..Len(slots') : slots'[i] = e
              \/ \E i \in 1..Len(paused') : paused'[i] = e
  <2>0. e # None
    BY ListsAre
  <2>1. CASE e = d
    <3>1. d \notin In(slots) /\ rec[d] = "live"
      BY <1>5, <1>10, <2>1
    <3> QED BY <1>2, <2>0, <2>1, <3>1 DEF LInv, Placed
  <2>2. CASE e # d
    BY <1>1, <1>4, <1>10, <2>2 DEF LInv, Placed
  <2> QED BY <2>1, <2>2
<1>11. Len(slots') <= Cardinality(Downloads)
  BY <1>1 DEF LInv, Placed
<1>12. \A i, j \in 1..Len(paused') : paused'[i] = paused'[j] => i = j
  BY DEF LInv, Placed
<1> QED BY <1>6, <1>7, <1>8, <1>9, <1>10, <1>11, <1>12 DEF Placed

(* Every list is empty when the program starts.                              *)
LEMMA LInit == Init => LInv
<1> SUFFICES ASSUME Init PROVE LInv
  OBVIOUS
<1> USE AsyncDownloadAssumption, Sizes
<1>1. worker \in [Workers -> WorkerState] /\ Answers
  BY DEF Init, WorkerState, Idle, Answers
<1>2. world \in World /\ pauses \in 0..world.pauses
  BY DEF Init, World
<1>3. /\ slots \in Seq(Downloads \cup {None}) /\ paused \in Seq(Downloads)
      /\ urls \in Seq(Downloads) /\ Len(slots) = 0 /\ Len(paused) = 0
      /\ reports \in [Downloads -> Seq(Results)]
  BY EmptySeq DEF Init
<1>4. Types
  <2>1. adding = None /\ phase = "running" /\ joining = 0 /\ asked = {} /\ permits = 0
    BY DEF Init
  <2>2. pool \in 0..Cardinality(Downloads) + 1
    BY DEF Init
  <2>3. /\ rec \in [Downloads -> {"new", "live", "deleted"}]
        /\ pausedF \in [Downloads -> BOOLEAN] /\ abortF \in [Downloads -> BOOLEAN]
    BY DEF Init
  <2> QED BY <1>1, <1>2, <1>3, <2>1, <2>2, <2>3 DEF Types
<1>5. Placed
  BY <1>3 DEF Init, Placed
<1> QED BY <1>1, <1>4, <1>5 DEF LInv

(* The types AddDownload changes up to GetThreadCount.                       *)
LEMMA LAdd ==
    ASSUME LInv, NEW by \in Workers \cup {0}, NEW d \in Downloads, AddLocked(by, d),
           \A i \in 1..Len(slots) : slots[i] # d
    PROVE  /\ slots' \in Seq(Downloads \cup {None})
           /\ adding' \in {None} \cup [by : Workers \cup {0}, d : Downloads, at : Stages]
           /\ adding'.at # "making"
BY ListedPlaces DEF AddLocked, Stages

(* A record that has not been made yet is in no list.                        *)
LEMMA NewIsNowhere ==
    ASSUME LInv, NEW d \in Downloads, rec[d] = "new"
    PROVE  /\ \A i \in 1..Len(slots) : slots[i] # d
           /\ \A i \in 1..Len(paused) : paused[i] # d
BY ListsAre DEF LInv, Placed

(* DownloadURL, from any thread, keeps LInv.                                 *)
LEMMA LDownload ==
    ASSUME LInv, NEW d \in Downloads, NEW by \in Workers \cup {0}, rec[d] = "new",
           rec' = [rec EXCEPT ![d] = "live"], AddLocked(by, d),
           worker' \in [Workers -> WorkerState], Answers',
           UNCHANGED <<paused, queue, pool, flags, stop, rest>>
    PROVE  LInv'
<1> USE DEF queue, flags, stop, rest
<1>1. /\ \A i \in 1..Len(slots) : slots[i] # d
      /\ \A i \in 1..Len(paused) : paused[i] # d
  BY NewIsNowhere
<1>2. /\ slots' \in Seq(Downloads \cup {None})
      /\ adding' \in {None} \cup [by : Workers \cup {0}, d : Downloads, at : Stages]
      /\ adding'.at # "making"
  BY <1>1, LAdd
<1>3. /\ rec' \in [Downloads -> {"new", "live", "deleted"}] /\ rec'[d] = "live"
      /\ \A e \in Downloads : e # d => rec'[e] = rec[e]
  BY DEF LInv, Types
<1>4. Types'
  BY <1>2, <1>3 DEF LInv, Types
<1>5. Placed'
  <2>1. slots' = Listed(d) /\ phase' = phase /\ paused' = paused
    BY DEF AddLocked
  <2>2. paused \in Seq(Downloads)
    BY DEF LInv, Types
  <2>3. \A i, j \in 1..Len(paused) : paused[i] = paused[j] => i = j
    BY DEF LInv, Placed
  <2> QED BY <1>1, <1>3, <2>1, <2>2, <2>3, PlacedWhenListed
<1> QED BY <1>4, <1>5 DEF LInv

(* So does Resume, which takes the record out of m_aPaused first.            *)
LEMMA LResume ==
    ASSUME LInv, NEW d \in Downloads, Resume(d)
    PROVE  LInv'
<1> USE DEF queue, flags, stop
<1>0. d # None
  BY ListsAre
<1>1. PICK i \in 1..Len(paused) : paused[i] = d
  <2>1. d \in In(paused) /\ paused \in Seq(Downloads)
    BY DEF Resume, LInv, Types
  <2> QED BY <1>0, <2>1, InList
<1>2. i = CHOOSE k \in DOMAIN paused : paused[k] = d
  <2>1. \A k \in DOMAIN paused : paused[k] = d => k = i
    BY <1>1, ListsAre DEF LInv, Placed
  <2>2. i \in DOMAIN paused
    BY ListsAre
  <2> QED BY <1>1, <2>1, <2>2
<1>3. paused' = RemoveAt(paused, i)
  BY <1>2 DEF Resume, Unpaused
<1>4. /\ paused' \in Seq(Downloads) /\ Len(paused') = Len(paused) - 1
      /\ \A j \in 1..Len(paused) - 1 :
            paused'[j] = IF j < i THEN paused[j] ELSE paused[j + 1]
  <2>1. paused \in Seq(Downloads)
    BY DEF LInv, Types
  <2> QED BY <1>3, <2>1, RemovedAt
<1>5. Len(paused) \in Nat
  BY ListsAre
<1>6. \A j, k \in 1..Len(paused') : paused'[j] = paused'[k] => j = k
  <2> SUFFICES ASSUME NEW j \in 1..Len(paused'), NEW k \in 1..Len(paused'),
                      paused'[j] = paused'[k]
               PROVE  j = k
    OBVIOUS
  <2> DEFINE jj == IF j < i THEN j ELSE j + 1
             kk == IF k < i THEN k ELSE k + 1
  <2>1. jj \in 1..Len(paused) /\ kk \in 1..Len(paused)
    BY <1>4, <1>5
  <2>2. paused[jj] = paused[kk]
    BY <1>4, <1>5
  <2>3. jj = kk
    BY <2>1, <2>2 DEF LInv, Placed
  <2> QED BY <1>4, <1>5, <2>3
<1>7. \A j \in 1..Len(paused') :
         paused'[j] # d /\ \E k \in 1..Len(paused) : paused[k] = paused'[j]
  <2> TAKE j \in 1..Len(paused')
  <2> DEFINE jj == IF j < i THEN j ELSE j + 1
  <2>1. jj \in 1..Len(paused) /\ jj # i /\ paused'[j] = paused[jj]
    BY <1>4, <1>5
  <2> HIDE DEF jj
  <2>2. paused[jj] # d
    BY <1>1, <2>1 DEF LInv, Placed
  <2> QED BY <2>1, <2>2
<1>8. \A k \in 1..Len(paused) :
         paused[k] # d => \E j \in 1..Len(paused') : paused'[j] = paused[k]
  <2> SUFFICES ASSUME NEW k \in 1..Len(paused), paused[k] # d
               PROVE  \E j \in 1..Len(paused') : paused'[j] = paused[k]
    OBVIOUS
  <2> DEFINE j == IF k < i THEN k ELSE k - 1
  <2>1. k # i
    BY <1>1
  <2>2. j \in 1..Len(paused') /\ paused'[j] = paused[k]
    BY <1>4, <1>5, <2>1
  <2> HIDE DEF j
  <2> QED BY <2>2
<1>9. \A k \in 1..Len(slots) : slots[k] # d
  BY <1>1 DEF LInv, Placed
<1>10. rec[d] = "live"
  BY <1>1 DEF Resume, LInv, Placed
<1>11. Placed'
  <2>1. slots' = Listed(d) /\ phase' = phase /\ rec' = rec
    BY DEF Resume, AddLocked
  <2> QED BY <1>4, <1>6, <1>7, <1>8, <1>9, <1>10, <2>1, PlacedWhenListed
<1>12. /\ slots' \in Seq(Downloads \cup {None})
       /\ adding' \in {None} \cup [by : Workers \cup {0}, d : Downloads, at : Stages]
       /\ adding'.at # "making"
  BY <1>9, LAdd DEF Resume
<1>13. Types'
  BY <1>4, <1>12 DEF Resume, LInv, Types
<1>14. Answers'
  BY DEF Resume, LInv, Answers
<1> QED BY <1>11, <1>13, <1>14 DEF LInv

(* So does Pause.                                                            *)
LEMMA LPause ==
    ASSUME LInv, NEW d \in Downloads, Pause(d)
    PROVE  LInv'
<1> USE DEF queue, stop
<1>1. \E i \in 1..Len(slots) : slots[i] = d
  <2>1. d \in In(slots) /\ d # None
    BY ListsAre DEF Pause
  <2>2. slots \in Seq(Downloads \cup {None})
    BY DEF LInv, Types
  <2> QED BY <2>1, <2>2, InList
<1>2. Placed'
  BY <1>1, PausedElsewhere DEF Pause
<1>3. slots' \in Seq(Downloads \cup {None})
  BY UnslottedIs DEF Pause
<1>4. paused' \in Seq(Downloads)
  BY AppendProperties DEF Pause, LInv, Types
<1>5. pauses' \in 0..world.pauses
  BY DEF Pause, LInv, Types, World
<1>6. Types'
  <2>1. adding = None /\ adding' = None
    BY DEF Pause
  <2>2. pausedF' \in [Downloads -> BOOLEAN] /\ abortF' \in [Downloads -> BOOLEAN]
    BY DEF Pause, LInv, Types
  <2> QED BY <1>3, <1>4, <1>5, <2>1, <2>2 DEF Pause, LInv, Types
<1>7. Answers'
  BY DEF Pause, LInv, Answers
<1> QED BY <1>2, <1>6, <1>7 DEF LInv

(* So does the rest of AddDownload; a thread is made only when the list is   *)
(* longer than the pool, so the pool is never larger than that.              *)
LEMMA LAddStep ==
    ASSUME LInv, AddStep
    PROVE  LInv'
<1> USE DEF lists, queue, flags, stop, rest
<1>1. /\ adding # None /\ adding \in [by : Workers \cup {0}, d : Downloads, at : Stages]
      /\ UNCHANGED <<slots, paused, rec, pausedF, abortF, phase, joining, pauses, world,
                     reports, asked>>
  BY DEF AddStep, CountThreads, AddWorker, ResumeWorkers, PushAdded, Adds, LInv, Types
<1>2. urls' \in Seq(Downloads) /\ permits' \in Nat
  <2>1. Append(urls, adding.d) \in Seq(Downloads)
    BY <1>1, AppendProperties DEF LInv, Types
  <2>2. CASE CountThreads \/ AddWorker \/ ResumeWorkers
    BY <2>2 DEF CountThreads, AddWorker, ResumeWorkers, LInv, Types
  <2>3. CASE PushAdded
    BY <2>1, <2>3 DEF PushAdded, Pushed, LInv, Types
  <2> QED BY <2>2, <2>3 DEF AddStep
<1>3. adding' \in {None} \cup [by : Workers \cup {0}, d : Downloads, at : Stages]
  BY <1>1 DEF AddStep, CountThreads, AddWorker, ResumeWorkers, PushAdded, Adds, Stages
<1>4. adding' # None /\ adding'.at = "making" => Len(slots') > pool'
  <2>1. CASE CountThreads
    BY <1>1, <2>1 DEF CountThreads, Adds, NeedsWorker
  <2>2. CASE AddWorker \/ ResumeWorkers
    BY <1>1, <2>2 DEF AddWorker, ResumeWorkers, Adds
  <2>3. CASE PushAdded
    BY <2>3 DEF PushAdded
  <2> QED BY <2>1, <2>2, <2>3 DEF AddStep
<1>5. pool' \in 0..Cardinality(Downloads) + 1
  <2>1. pool' = pool \/ (pool' = pool + 1 /\ Len(slots) > pool)
    BY DEF AddStep, CountThreads, AddWorker, ResumeWorkers, PushAdded, Adds, LInv, Types
  <2> QED BY <2>1, ListsAre, Sizes DEF LInv, Types, Placed
<1>6. ASSUME NEW w \in Workers
      PROVE  /\ worker'[w] \in WorkerState
             /\ \/ worker'[w] = worker[w]
                \/ worker'[w] = Idle
                \/ worker'[w] = [worker[w] EXCEPT !.at = "reported"]
  <2>1. worker \in [Workers -> WorkerState] /\ worker[w] \in WorkerState
    BY DEF LInv, Types
  <2>2. \/ worker'[w] = worker[w]
        \/ worker'[w] = Idle
        \/ worker'[w] = [worker[w] EXCEPT !.at = "reported"]
    BY <2>1 DEF AddStep, CountThreads, AddWorker, ResumeWorkers, PushAdded
  <2>3. Idle \in WorkerState /\ [worker[w] EXCEPT !.at = "reported"] \in WorkerState
    BY <2>1 DEF WorkerState, Idle
  <2> QED BY <2>1, <2>2, <2>3
<1>7. worker' \in [Workers -> WorkerState]
  <2>1. worker \in [Workers -> WorkerState]
    BY DEF LInv, Types
  <2> QED BY <1>6, <2>1 DEF AddStep, CountThreads, AddWorker, ResumeWorkers, PushAdded
<1>8. Answers'
  <2> SUFFICES ASSUME NEW w \in Workers,
                      worker'[w].at \in {"ended", "completing", "reporting"}
               PROVE  worker'[w].hr \in Results
    BY DEF Answers
  <2>1. worker[w] \in WorkerState
    BY DEF LInv, Types
  <2>2. /\ Idle.at = "waiting"
        /\ [worker[w] EXCEPT !.at = "reported"].at = "reported"
    BY <2>1 DEF Idle, WorkerState
  <2>3. worker'[w] = worker[w]
    BY <1>6, <2>2
  <2> QED BY <2>3 DEF LInv, Answers
<1>9. Types'
  BY <1>1, <1>2, <1>3, <1>4, <1>5, <1>7 DEF LInv, Types
<1>10. Placed'
  BY <1>1 DEF LInv, Placed, stopping
<1> QED BY <1>8, <1>9, <1>10 DEF LInv

(* What one worker does: it alone moves, to a state that fits.               *)
LEMMA LMoves ==
    ASSUME LInv, NEW w \in Workers, NEW r \in WorkerState,
           worker' = [worker EXCEPT ![w] = r],
           r.at \in {"ended", "completing", "reporting"} => r.hr \in Results
    PROVE  worker' \in [Workers -> WorkerState] /\ Answers'
BY DEF LInv, Types, Answers

(* A step that leaves lists and records alone.                               *)
LEMMA LKeepsLists ==
    ASSUME LInv, UNCHANGED <<slots, paused, rec, phase>>
    PROVE  Placed'
BY DEF LInv, Placed, stopping

(* Every step of a worker keeps LInv.                                        *)
LEMMA LWorker ==
    ASSUME LInv, NEW w \in Workers, WorkerStep(w)
    PROVE  LInv'
<1> USE DEF lists, queue, flags, stop, rest
<1>0. /\ worker \in [Workers -> WorkerState] /\ worker[w] \in WorkerState
      /\ worker[w].d \in Downloads \cup {None}
      /\ worker[w].at \in {"ended", "completing", "reporting"} => worker[w].hr \in Results
  BY DEF LInv, Types, WorkerState, Answers
<1>1. ASSUME NEW from, NEW to \in {"woken", "reported", "exited"}, At(w, from, to)
      PROVE  worker' \in [Workers -> WorkerState] /\ Answers'
  <2> DEFINE r == [worker[w] EXCEPT !.at = to]
  <2>1. r \in WorkerState /\ r.at = to
    BY <1>0 DEF WorkerState
  <2>2. worker' = [worker EXCEPT ![w] = r]
    BY <1>0, <1>1 DEF At
  <2> HIDE DEF r
  <2> QED BY <2>1, <2>2, LMoves
<1>2. CASE Wake(w)
  <2>1. worker' \in [Workers -> WorkerState] /\ Answers'
    BY <1>1, <1>2 DEF Wake
  <2>2. Types'
    BY <1>2, <2>1 DEF Wake, LInv, Types
  <2> QED BY <1>2, <2>1, <2>2, LKeepsLists DEF Wake, LInv
<1>3. CASE Pop(w)
  <2>1. CASE urls # <<>>
    <3>1. urls' \in Seq(Downloads) /\ Last(urls) \in Downloads
      <4>1. /\ urls \in Seq(Downloads) /\ Len(urls) \in Nat /\ Len(urls) # 0
            /\ \A i \in 1..Len(urls) : urls[i] \in Downloads
        BY <2>1, LenProperties, ElementOfSeq, EmptySeq DEF LInv, Types
      <4>2. \A i \in 1..Len(urls) - 1 : urls[i] \in Downloads
        BY <4>1
      <4>3. SubSeq(urls, 1, Len(urls) - 1) \in Seq(Downloads)
        BY <4>1, <4>2, SubSeqProperties
      <4> QED BY <1>3, <2>1, <4>1, <4>3 DEF Pop, Front, Last
    <3> DEFINE r == [Idle EXCEPT !.at = "working", !.d = Last(urls)]
    <3>2. r \in WorkerState /\ r.at = "working"
      BY <3>1 DEF WorkerState, Idle
    <3>3. worker' = [worker EXCEPT ![w] = r]
      BY <1>3, <2>1 DEF Pop
    <3> HIDE DEF r
    <3>4. worker' \in [Workers -> WorkerState] /\ Answers'
      BY <3>2, <3>3, LMoves
    <3>5. Types'
      BY <1>3, <3>1, <3>4 DEF Pop, LInv, Types
    <3> QED BY <1>3, <3>4, <3>5, LKeepsLists DEF Pop, LInv
  <2>2. CASE urls = <<>>
    <3>1. Idle \in WorkerState /\ Idle.at = "waiting"
      BY DEF WorkerState, Idle
    <3>2. worker' \in [Workers -> WorkerState] /\ Answers'
      BY <1>3, <2>2, <3>1, LMoves DEF Pop
    <3>3. Types'
      BY <1>3, <2>2, <3>2 DEF Pop, LInv, Types
    <3> QED BY <1>3, <3>2, <3>3, LKeepsLists DEF Pop, LInv
  <2> QED BY <2>1, <2>2
<1>4. CASE Transfer(w)
  <2>1. PICK hr \in Results :
           worker' = [worker EXCEPT ![w].at = "ended", ![w].hr = hr]
    BY <1>4 DEF Transfer
  <2> DEFINE r == [worker[w] EXCEPT !.at = "ended", !.hr = hr]
  <2>2. r \in WorkerState /\ r.hr \in Results
    BY <1>0, <2>1 DEF WorkerState
  <2>3. worker' = [worker EXCEPT ![w] = r]
    BY <1>0, <2>1
  <2> HIDE DEF r
  <2>4. worker' \in [Workers -> WorkerState] /\ Answers'
    BY <2>2, <2>3, LMoves
  <2>5. Types'
    BY <1>4, <2>4 DEF Transfer, LInv, Types
  <2> QED BY <1>4, <2>4, <2>5, LKeepsLists DEF Transfer, LInv
<1>5. CASE CheckStopping(w)
  <2> DEFINE r == IF stopping THEN [Idle EXCEPT !.at = "exited"]
                              ELSE [worker[w] EXCEPT !.at = "completing"]
  <2>1. r \in WorkerState /\ (r.at = "completing" => r.hr \in Results)
        /\ r.at \in {"exited", "completing"}
    BY <1>0, <1>5 DEF CheckStopping, WorkerState, Idle
  <2>2. worker' = [worker EXCEPT ![w] = r]
    BY <1>0, <1>5 DEF CheckStopping
  <2> HIDE DEF r
  <2>3. worker' \in [Workers -> WorkerState] /\ Answers'
    BY <2>1, <2>2, LMoves
  <2>4. Types'
    BY <1>5, <2>3 DEF CheckStopping, LInv, Types
  <2> QED BY <1>5, <2>3, <2>4, LKeepsLists DEF CheckStopping, LInv
<1>6. CASE CheckPaused(w)
  <2>1. PICK p \in SeesPause(worker[w].d) :
           worker' = [worker EXCEPT ![w] = IF p THEN Idle ELSE [@ EXCEPT !.at = "reporting"]]
    BY <1>6 DEF CheckPaused
  <2> DEFINE r == IF p THEN Idle ELSE [worker[w] EXCEPT !.at = "reporting"]
  <2>2. r \in WorkerState /\ (r.at = "reporting" => r.hr \in Results)
        /\ r.at \in {"waiting", "reporting"}
    BY <1>0, <1>6 DEF CheckPaused, WorkerState, Idle
  <2>3. worker' = [worker EXCEPT ![w] = r]
    BY <1>0, <2>1
  <2> HIDE DEF r
  <2>4. worker' \in [Workers -> WorkerState] /\ Answers'
    BY <2>2, <2>3, LMoves
  <2>5. Types'
    BY <1>6, <2>4 DEF CheckPaused, LInv, Types
  <2> QED BY <1>6, <2>4, <2>5, LKeepsLists DEF CheckPaused, LInv
<1>7. CASE Report(w)
  <2>1. PICK a \in Read(abortF, worker[w].d), next \in {"notifying", "reported"} :
           /\ worker' = [worker EXCEPT ![w].at = next]
           /\ reports' = [reports EXCEPT ![worker[w].d] =
                             Append(@, IF a THEN "E_ABORT" ELSE worker[w].hr)]
    BY <1>7 DEF Report
  <2> DEFINE r == [worker[w] EXCEPT !.at = next]
             hr == IF a THEN "E_ABORT" ELSE worker[w].hr
  <2>2. r \in WorkerState /\ r.at = next
    BY <1>0 DEF WorkerState
  <2>3. worker' = [worker EXCEPT ![w] = r]
    BY <1>0, <2>1
  <2>4. hr \in Results
    BY <1>0, <1>7 DEF Report, Results
  <2> HIDE DEF r, hr
  <2>5. worker' \in [Workers -> WorkerState] /\ Answers'
    BY <2>2, <2>3, LMoves
  <2>6. reports' \in [Downloads -> Seq(Results)]
    <3>1. \A e \in Downloads : Append(reports[e], hr) \in Seq(Results)
      BY <2>4, AppendProperties DEF LInv, Types
    <3> QED BY <2>1, <3>1 DEF LInv, Types, hr
  <2>7. Types'
    BY <1>7, <2>5, <2>6 DEF Report, LInv, Types
  <2> QED BY <1>7, <2>5, <2>7, LKeepsLists DEF Report, LInv
<1>8. CASE NotifyReturns(w)
  <2>1. worker' \in [Workers -> WorkerState] /\ Answers'
    BY <1>1, <1>8 DEF NotifyReturns
  <2>2. Types'
    BY <1>8, <2>1 DEF NotifyReturns, LInv, Types
  <2> QED BY <1>8, <2>1, <2>2, LKeepsLists DEF NotifyReturns, LInv
<1>9. CASE Unlist(w)
  <2>1. Idle \in WorkerState /\ Idle.at = "waiting"
    BY DEF WorkerState, Idle
  <2>2. worker' \in [Workers -> WorkerState] /\ Answers'
    BY <1>9, <2>1, LMoves DEF Unlist
  <2>3. slots' \in Seq(Downloads \cup {None})
    BY <1>9, UnslottedIs DEF Unlist
  <2>4. rec' \in [Downloads -> {"new", "live", "deleted"}]
    BY <1>9 DEF Unlist, LInv, Types
  <2>5. Types'
    BY <1>9, <2>2, <2>3, <2>4 DEF Unlist, LInv, Types
  <2>6. Placed'
    BY <1>0, <1>9, PlacedWhenUnlisted DEF Unlist
  <2> QED BY <2>2, <2>5, <2>6 DEF LInv
<1>10. CASE Leave(w)
  <2>1. worker' \in [Workers -> WorkerState] /\ Answers'
    BY <1>1, <1>10 DEF Leave
  <2>2. Types'
    BY <1>10, <2>1 DEF Leave, LInv, Types
  <2> QED BY <1>10, <2>1, <2>2, LKeepsLists DEF Leave, LInv
<1> QED
  BY <1>2, <1>3, <1>4, <1>5, <1>6, <1>7, <1>8, <1>9, <1>10 DEF WorkerStep

(* AbortDownloads deletes what is paused, and nothing else.                  *)
LEMMA LAbort ==
    ASSUME LInv, AbortDownloads
    PROVE  LInv'
<1> USE DEF lists
<1>1. /\ phase = "running" /\ phase' = "aborted" /\ ~stopping /\ stopping'
      /\ UNCHANGED <<slots, paused, permits, pool, worker, pausedF, adding, joining, pauses,
                     world, asked>>
  BY DEF AbortDownloads, stopping
<1>2. urls' \in Seq(Downloads)
  BY EmptySeq DEF AbortDownloads
<1>3. abortF' \in [Downloads -> BOOLEAN]
  BY DEF AbortDownloads, LInv, Types
<1>4. reports' \in [Downloads -> Seq(Results)]
  <2>1. \A d \in Downloads : Append(reports[d], "E_ABORT") \in Seq(Results)
    BY AppendProperties DEF LInv, Types, Results
  <2>2. \A d \in Downloads : reports'[d] \in Seq(Results)
    BY <2>1 DEF AbortDownloads, LInv, Types
  <2> QED BY <2>2 DEF AbortDownloads
<1>5. \A d \in Downloads : d \in In(paused) <=> \E i \in 1..Len(paused) : paused[i] = d
  BY InList, ListsAre DEF LInv, Types
<1>6. /\ rec' \in [Downloads -> {"new", "live", "deleted"}]
      /\ \A d \in Downloads :
            rec'[d] = IF \E i \in 1..Len(paused) : paused[i] = d THEN "deleted" ELSE rec[d]
  BY <1>5 DEF AbortDownloads, LInv, Types
<1>7. Types'
  BY <1>1, <1>2, <1>3, <1>4, <1>6 DEF LInv, Types
<1>8. Placed'
  <2>1. \A i \in 1..Len(slots) : slots[i] # None => rec'[slots[i]] = "live"
    BY <1>6, ListsAre DEF LInv, Placed
  <2>2. \A i \in 1..Len(paused) : rec'[paused[i]] = "deleted"
    BY <1>6, ListsAre
  <2>3. \A d \in Downloads : rec'[d] = "live" => \E i \in 1..Len(slots) : slots[i] = d
    BY <1>6 DEF LInv, Placed
  <2> QED BY <1>1, <2>1, <2>2, <2>3 DEF LInv, Placed
<1>9. Answers'
  BY <1>1 DEF LInv, Answers
<1> QED BY <1>7, <1>8, <1>9 DEF LInv

(* The end of Stop deletes what is still in m_aDownloads.                    *)
LEMMA LDelete ==
    ASSUME LInv, DeleteListed
    PROVE  LInv'
<1> USE DEF queue, flags, rest
<1>1. slots' = <<>> /\ paused' = <<>> /\ Len(slots') = 0 /\ Len(paused') = 0
  BY DEF DeleteListed
<1>2. slots' \in Seq(Downloads \cup {None}) /\ paused' \in Seq(Downloads)
  BY <1>1, EmptySeq
<1>3. \A d \in Downloads : d \in In(slots) <=> \E i \in 1..Len(slots) : slots[i] = d
  BY InList, ListsAre DEF LInv, Types
<1>4. /\ rec' \in [Downloads -> {"new", "live", "deleted"}]
      /\ \A d \in Downloads :
            rec'[d] = IF \E i \in 1..Len(slots) : slots[i] = d THEN "deleted" ELSE rec[d]
  BY <1>3 DEF DeleteListed, LInv, Types
<1>5. \A d \in Downloads : rec'[d] # "live"
  BY <1>4 DEF DeleteListed, stopping, LInv, Placed
<1>6. Types'
  BY <1>2, <1>4 DEF DeleteListed, LInv, Types
<1>7. Placed'
  BY <1>1, <1>5, Sizes DEF Placed
<1>8. Answers'
  BY DEF DeleteListed, LInv, Answers
<1> QED BY <1>6, <1>7, <1>8 DEF LInv

(* Every step keeps LInv.                                                    *)
LEMMA LStep == LInv /\ [Next]_vars => LInv'
<1> SUFFICES ASSUME LInv, [Next]_vars PROVE LInv'
  OBVIOUS
<1> USE DEF lists, queue, flags, stop, rest
<1>1. ASSUME NEW d \in Downloads, DownloadURL(d) PROVE LInv'
  <2>1. worker' \in [Workers -> WorkerState] /\ Answers'
    BY <1>1 DEF DownloadURL, LInv, Types, Answers
  <2> QED BY <1>1, <2>1, LDownload DEF DownloadURL
<1>2. ASSUME NEW d \in Downloads, StopDownload(d) PROVE LInv'
  <2>1. Types'
    BY <1>2 DEF StopDownload, LInv, Types
  <2> QED BY <1>2, <2>1, LKeepsLists DEF StopDownload, LInv, Answers
<1>3. ASSUME NEW d \in Downloads, Pause(d) PROVE LInv'
  BY <1>3, LPause
<1>4. ASSUME NEW d \in Downloads, Resume(d) PROVE LInv'
  BY <1>4, LResume
<1>5. ASSUME NEW w \in Workers, NEW d \in Downloads, ChainDownload(w, d) PROVE LInv'
  <2> DEFINE r == [worker[w] EXCEPT !.at = "chaining"]
  <2>1. worker \in [Workers -> WorkerState] /\ worker[w] \in WorkerState
    BY DEF LInv, Types
  <2>2. r \in WorkerState /\ r.at = "chaining"
    BY <2>1 DEF WorkerState
  <2>3. worker' = [worker EXCEPT ![w] = r]
    BY <1>5, <2>1 DEF ChainDownload
  <2> HIDE DEF r
  <2>4. worker' \in [Workers -> WorkerState] /\ Answers'
    BY <2>2, <2>3, LMoves
  <2> QED BY <1>5, <2>4, LDownload DEF ChainDownload
<1>6. ASSUME AddStep PROVE LInv'
  BY <1>6, LAddStep
<1>7. ASSUME NEW w \in Workers, WorkerStep(w) PROVE LInv'
  BY <1>7, LWorker
<1>8. ASSUME AbortDownloads PROVE LInv'
  BY <1>8, LAbort
<1>9. ASSUME StopAndWait PROVE LInv'
  <2>1. Types'
    BY <1>9, Sizes DEF StopAndWait, LInv, Types
  <2>2. Placed'
    BY <1>9 DEF StopAndWait, LInv, Placed, stopping
  <2> QED BY <1>9, <2>1, <2>2 DEF StopAndWait, LInv, Answers
<1>10. ASSUME JoinNext PROVE LInv'
  <2>1. pool' \in 0..Cardinality(Downloads) + 1 /\ joining' \in {0} \cup Workers
    BY <1>10, Sizes DEF JoinNext, LInv, Types
  <2>2. Types'
    BY <1>10, <2>1 DEF JoinNext, LInv, Types
  <2>3. Placed'
    BY <1>10 DEF JoinNext, LInv, Placed, stopping
  <2> QED BY <1>10, <2>2, <2>3 DEF JoinNext, LInv, Answers
<1>11. ASSUME DeleteListed PROVE LInv'
  BY <1>11, LDelete
<1>12. CASE UNCHANGED vars
  <2>1. Types'
    BY <1>12 DEF vars, LInv, Types
  <2> QED BY <1>12, <2>1, LKeepsLists DEF vars, LInv, Answers
<1> QED
  BY <1>1, <1>2, <1>3, <1>4, <1>5, <1>6, <1>7, <1>8, <1>9, <1>10, <1>11, <1>12
     DEF Next, StopStep

(* Types; the pool never has more threads than there are downloads, and      *)
(* one.                                                                      *)
THEOREM TypeCorrect == Spec => []TypeOK
<1>1. LInv => TypeOK
  BY DEF LInv, Types, TypeOK, WorkerState
<1> QED BY <1>1, LInit, LStep, PTL DEF Spec

(* A live record is in exactly one place of m_aDownloads and m_aPaused,      *)
(* and nothing in m_aDownloads has been deleted (the first half of           *)
(* ListsOwnRecords): none leaks, none is listed twice, whatever the order    *)
(* of Pause, Resume, completions and Stop, also when the UI does not wait    *)
(* for the workers.                                                          *)
THEOREM EveryRecordInOneList == Spec => []OneList
<1>1. ASSUME LInv PROVE OneList
  <2>1. ASSUME NEW d \in Downloads, rec[d] = "live" PROVE Cardinality(Places(d)) = 1
    <3>1. \E p : Places(d) = {p}
      <4>0. d # None
        BY <1>1, ListsAre
      <4>1. CASE \E i \in 1..Len(slots) : slots[i] = d
        <5>1. PICK i \in 1..Len(slots) : slots[i] = d
          BY <4>1
        <5>2. {k \in DOMAIN slots : slots[k] = d} = {i}
          BY <1>1, <4>0, <5>1, ListsAre DEF LInv, Placed
        <5>3. {k \in DOMAIN paused : paused[k] = d} = {}
          BY <1>1, <5>1, ListsAre DEF LInv, Placed
        <5>4. Places(d) = {<<"slots", i>>}
          BY <5>2, <5>3 DEF Places
        <5> QED BY <5>4
      <4>2. CASE \E i \in 1..Len(paused) : paused[i] = d
        <5>1. PICK i \in 1..Len(paused) : paused[i] = d
          BY <4>2
        <5>2. {k \in DOMAIN paused : paused[k] = d} = {i}
          BY <1>1, <5>1, ListsAre DEF LInv, Placed
        <5>3. {k \in DOMAIN slots : slots[k] = d} = {}
          BY <1>1, <5>1, ListsAre DEF LInv, Placed
        <5>4. Places(d) = {<<"paused", i>>}
          BY <5>2, <5>3 DEF Places
        <5> QED BY <5>4
      <4> QED BY <1>1, <2>1, <4>1, <4>2 DEF LInv, Placed
    <3> QED BY <3>1, FS_Singleton
  <2>2. \A d \in In(slots) : rec[d] = "live"
    BY <1>1, ListsAre DEF In, LInv, Placed
  <2> QED BY <2>1, <2>2 DEF OneList
<1> QED BY <1>1, LInit, LStep, PTL DEF Spec

-----------------------------------------------------------------------------
(* A thread holds a record while it works on it (before its receiver is      *)
(* told, then until it is unlisted), and else none.                          *)
Before == {"working", "ended", "completing", "reporting"}
After  == {"notifying", "chaining", "reported"}

OnHand == \A w \in Workers : worker[w].d # None <=> worker[w].at \in Before \cup After

(* The pool: numbers above the pool's size have no thread, StopAndWait has   *)
(* seen those below "joining" leave, and once it has joined them all no      *)
(* receiver is told anything; only late callers make another thread.  The    *)
(* one inside AddDownload is a worker only if it is calling from Notify.     *)
Threads ==
    /\ \A w \in Workers : w > pool => worker[w].at \in {"none", "exited"}
    /\ phase \in {"running", "aborted"} => pool >= 1
    /\ phase = "waiting" =>
          /\ joining \in 1..pool
          /\ \A w \in Workers : w < joining => worker[w].at = "exited"
    /\ phase \in {"joined", "done"} =>
          \A w \in Workers : worker[w].at \notin {"completing", "reporting"} \cup After
    /\ adding # None /\ adding.by # 0 => worker[adding.by].at = "chaining"
    /\ ~world.late /\ stopping /\ adding # None => adding.by # 0
    /\ ~world.late /\ phase \in {"joined", "done"} =>
          \A w \in Workers : worker[w].at \in {"none", "exited"}

(* m_Paused is set for the records in m_aPaused and for none in m_aDownloads.*)
Flagged ==
    /\ \A d \in Downloads : rec[d] = "new" => ~pausedF[d] /\ ~abortF[d]
    /\ \A d \in In(slots) : ~pausedF[d]
    /\ \A d \in In(paused) : pausedF[d]
    /\ adding # None => adding.d \in In(slots)

(* Until Stop there is one push at most for every record made and every      *)
(* Resume, so m_Urls refuses none when it has room for so many, and every    *)
(* record in m_aDownloads is pushed, about to be, or in the hands of a       *)
(* worker.                                                                   *)
Made == {d \in Downloads : rec[d] # "new"}

Room == Capacity >= Cardinality(Downloads) + world.pauses

Pushes ==
    ~stopping => Len(urls) + Len(paused) + (IF adding = None THEN 0 ELSE 1)
                     <= Cardinality(Made) + pauses

Attended ==
    Room /\ ~stopping => \A d \in In(slots) :
        \/ d \in In(urls)
        \/ \E w \in Workers : worker[w].d = d
        \/ adding # None /\ adding.d = d

(* In a calm world a record is in the hands of one worker, or in m_Urls      *)
(* once, or about to be pushed.                                              *)
Owned ==
    /\ \A i, j \in 1..Len(urls) : urls[i] = urls[j] => i = j
    /\ \A w \in Workers : worker[w].d \notin In(urls)
    /\ \A w, x \in Workers : worker[w].d = worker[x].d /\ worker[w].d # None => w = x
    /\ adding # None => /\ adding.d \notin In(urls)
                        /\ \A w \in Workers : worker[w].d # adding.d
    /\ \A d \in In(urls) : rec[d] = "live" \/ (rec[d] = "deleted" /\ phase = "done")
    /\ \A w \in Workers : worker[w].d # None =>
          \/ rec[worker[w].d] = "live"
          \/ rec[worker[w].d] = "deleted" /\ phase = "done" /\ world.late

(* Its receiver has been told nothing before that worker does.               *)
ToldOnce ==
    /\ \A d \in Downloads : rec[d] = "new" => reports[d] = <<>>
    /\ \A d \in In(urls) : reports[d] = <<>>
    /\ adding # None => reports[adding.d] = <<>>
    /\ \A w \in Workers : worker[w].d # None =>
          (reports[worker[w].d] # <<>> <=> worker[w].at \in After)
    /\ \A d \in In(slots) : reports[d] # <<>> => \E w \in Workers : worker[w].d = d
    /\ \A d \in In(paused) : reports[d] # <<>> <=> stopping
    /\ \A w \in Workers : worker[w].at = "reporting" => worker[w].d \notin In(paused)

(* m_Abort is set, and a transfer aborted, only because somebody asked, or   *)
(* because of a pause the worker has yet to notice.                          *)
AbortsExplained ==
    ~stopping =>
        /\ \A d \in In(slots) : abortF[d] => d \in asked
        /\ \A w \in Workers :
              worker[w].at \in {"ended", "completing", "reporting"} /\ worker[w].hr = "E_ABORT"
                  => worker[w].d \in asked \cup In(paused)

CalmInv == Owned /\ ToldOnce /\ AbortsExplained

(* The inductive invariant, next to LInv.                                    *)
RInv == OnHand /\ Threads /\ Flagged /\ Pushes /\ Attended /\ (Calm => CalmInv)

-----------------------------------------------------------------------------
(* The entries of the lists, as sets.                                        *)
LEMMA Entries ==
    ASSUME LInv
    PROVE  /\ In(slots) \subseteq Downloads /\ In(paused) \subseteq Downloads
           /\ In(urls) \subseteq Downloads
           /\ \A d \in Downloads : d \in In(slots) <=> \E i \in 1..Len(slots) : slots[i] = d
           /\ \A d \in Downloads : d \in In(paused) <=> \E i \in 1..Len(paused) : paused[i] = d
           /\ \A d \in Downloads : d \in In(urls) <=> \E i \in 1..Len(urls) : urls[i] = d
<1>1. /\ slots \in Seq(Downloads \cup {None}) /\ paused \in Seq(Downloads)
      /\ urls \in Seq(Downloads) /\ None \notin Downloads
  BY AsyncDownloadAssumption DEF LInv, Types
<1>2. /\ DOMAIN slots = 1..Len(slots) /\ DOMAIN paused = 1..Len(paused)
      /\ DOMAIN urls = 1..Len(urls)
  BY <1>1, LenProperties
<1>3. /\ \A i \in 1..Len(slots) : slots[i] \in Downloads \cup {None}
      /\ \A i \in 1..Len(paused) : paused[i] \in Downloads
      /\ \A i \in 1..Len(urls) : urls[i] \in Downloads
  BY <1>1, ElementOfSeq
<1>4. /\ In(slots) \subseteq Downloads /\ In(paused) \subseteq Downloads
      /\ In(urls) \subseteq Downloads
  BY <1>2, <1>3 DEF In
<1>5. \A d \in Downloads : d \in In(slots) <=> \E i \in 1..Len(slots) : slots[i] = d
  BY <1>1, <1>2 DEF In
<1>6. \A d \in Downloads : d \in In(paused) <=> \E i \in 1..Len(paused) : paused[i] = d
  BY <1>1, <1>2 DEF In
<1>7. \A d \in Downloads : d \in In(urls) <=> \E i \in 1..Len(urls) : urls[i] = d
  BY <1>1, <1>2 DEF In
<1> QED BY <1>4, <1>5, <1>6, <1>7

(* What LInv says of them.                                                   *)
LEMMA Lists ==
    ASSUME LInv
    PROVE  /\ In(slots) \cap In(paused) = {}
           /\ \A d \in In(slots) : rec[d] = "live"
           /\ \A d \in In(paused) : rec[d] = IF stopping THEN "deleted" ELSE "live"
           /\ \A d \in Downloads : rec[d] = "live" => d \in In(slots) \cup In(paused)
<1> USE Entries
<1>1. \A d \in In(slots) : d \in Downloads /\ rec[d] = "live"
  BY ListsAre DEF LInv, Placed
<1>2. \A d \in In(paused) : d \in Downloads /\ rec[d] = IF stopping THEN "deleted" ELSE "live"
  BY ListsAre DEF LInv, Placed
<1>3. \A d \in Downloads : rec[d] = "live" => d \in In(slots) \cup In(paused)
  BY DEF LInv, Placed
<1>4. In(slots) \cap In(paused) = {}
  BY DEF LInv, Placed
<1> QED BY <1>1, <1>2, <1>3, <1>4

(* And of the rest of the state.                                             *)
LEMMA Typed ==
    ASSUME LInv
    PROVE  /\ worker \in [Workers -> WorkerState]
           /\ \A w \in Workers :
                 /\ worker[w] \in WorkerState
                 /\ worker[w].at \in {"none", "waiting", "woken", "exited"} \cup Before \cup After
                 /\ worker[w].d \in Downloads \cup {None}
           /\ Workers \subseteq Nat /\ pool \in Nat /\ 0 \notin Workers
           /\ adding # None => adding.by \in Workers \cup {0} /\ adding.d \in Downloads
           /\ None \notin Downloads
           /\ \A d \in Downloads : rec[d] \in {"new", "live", "deleted"}
<1>1. worker \in [Workers -> WorkerState]
  BY DEF LInv, Types
<1>2. \A w \in Workers : worker[w] \in WorkerState
  BY <1>1
<1>3. \A w \in Workers :
         /\ worker[w].at \in {"none", "waiting", "woken", "exited"} \cup Before \cup After
         /\ worker[w].d \in Downloads \cup {None}
  BY <1>2 DEF WorkerState, Before, After
<1>4. Workers \subseteq Nat /\ pool \in Nat /\ 0 \notin Workers
  BY Sizes DEF LInv, Types
<1>5. adding # None => adding.by \in Workers \cup {0} /\ adding.d \in Downloads
  BY DEF LInv, Types
<1>6. \A d \in Downloads : rec[d] \in {"new", "live", "deleted"}
  BY DEF LInv, Types
<1> QED BY <1>1, <1>2, <1>3, <1>4, <1>5, <1>6, AsyncDownloadAssumption

(* The list takes a record.                                                  *)
LEMMA ListedEntries ==
    ASSUME LInv, LInv', NEW d \in Downloads, d \notin In(slots), slots' = Listed(d)
    PROVE  In(slots)' = In(slots) \cup {d}
<1>1. \A i \in 1..Len(slots) : slots[i] # d
  BY Entries
<1>2. PICK k \in 1..Len(slots') :
           /\ slots'[k] = d
           /\ \A j \in 1..Len(slots') :
                 j # k => j \in 1..Len(slots) /\ slots'[j] = slots[j]
           /\ \A j \in 1..Len(slots) : slots[j] # None => j # k
  BY <1>1, ListedPlaces
<1>3. Len(slots') >= Len(slots) /\ Len(slots) \in Nat /\ Len(slots') \in Nat
  BY <1>1, ListedPlaces, ListsAre, LenProperties
<1>4. /\ In(slots)' \subseteq Downloads
      /\ \A e \in Downloads : e \in In(slots)' <=> \E i \in 1..Len(slots') : slots'[i] = e
  <2>1. /\ slots' \in Seq(Downloads \cup {None}) /\ None \notin Downloads
    BY AsyncDownloadAssumption DEF LInv, Types
  <2>2. /\ DOMAIN slots' = 1..Len(slots')
        /\ \A i \in 1..Len(slots') : slots'[i] \in Downloads \cup {None}
    BY <2>1, LenProperties, ElementOfSeq
  <2> QED BY <2>1, <2>2 DEF In
<1>5. ASSUME NEW e \in Downloads PROVE e \in In(slots)' <=> e \in In(slots) \cup {d}
  <2>1. CASE e = d
    BY <1>2, <1>4, <2>1
  <2>2. CASE e # d
    <3>1. ASSUME e \in In(slots)' PROVE e \in In(slots)
      BY <1>2, <1>4, <2>2, <3>1, Entries
    <3>2. ASSUME e \in In(slots) PROVE e \in In(slots)'
      <4>1. PICK j \in 1..Len(slots) : slots[j] = e
        BY <3>2, Entries
      <4>2. j # k /\ j \in 1..Len(slots')
        BY <1>2, <1>3, <4>1, ListsAre
      <4> QED BY <1>2, <1>4, <4>1, <4>2
    <3> QED BY <2>2, <3>1, <3>2
  <2> QED BY <2>1, <2>2
<1> QED BY <1>4, <1>5, Entries

(* Unslotted takes it out.                                                   *)
LEMMA UnslottedEntries ==
    ASSUME LInv, NEW d, slots' = Unslotted(d)
    PROVE  In(slots)' = In(slots) \ {d}
<1>1. /\ DOMAIN slots' = DOMAIN slots
      /\ \A i \in DOMAIN slots : slots'[i] = IF slots[i] = d THEN None ELSE slots[i]
  BY DEF Unslotted
<1> QED BY <1>1 DEF In

(* Append adds it.                                                           *)
LEMMA AppendedEntries ==
    ASSUME NEW S, NEW s \in Seq(S), NEW d \in S, d # None
    PROVE  /\ In(Append(s, d)) = In(s) \cup {d}
           /\ Len(Append(s, d)) = Len(s) + 1
<1>1. /\ Append(s, d) \in Seq(S) /\ Len(Append(s, d)) = Len(s) + 1
      /\ \A i \in 1..Len(s) : Append(s, d)[i] = s[i]
      /\ Append(s, d)[Len(s) + 1] = d
  BY AppendProperties
<1>2. DOMAIN s = 1..Len(s) /\ DOMAIN Append(s, d) = 1..Len(s) + 1 /\ Len(s) \in Nat
  BY <1>1, LenProperties
<1>3. In(Append(s, d)) \subseteq In(s) \cup {d}
  <2>1. \A i \in 1..Len(s) + 1 : i = Len(s) + 1 \/ i \in 1..Len(s)
    BY <1>2
  <2> QED BY <1>1, <1>2, <2>1 DEF In
<1>4. In(s) \cup {d} \subseteq In(Append(s, d))
  <2>1. Len(s) + 1 \in 1..Len(s) + 1 /\ \A i \in 1..Len(s) : i \in 1..Len(s) + 1
    BY <1>2
  <2> QED BY <1>1, <1>2, <2>1 DEF In
<1> QED BY <1>1, <1>3, <1>4

(* Resume takes a record out of m_aPaused.                                   *)
LEMMA UnpausedEntries ==
    ASSUME LInv, NEW d \in In(paused), paused' = Unpaused(d)
    PROVE  /\ In(paused)' = In(paused) \ {d}
           /\ Len(paused') = Len(paused) - 1
<1>0. paused \in Seq(Downloads) /\ d \in Downloads /\ None \notin Downloads
  BY Entries, AsyncDownloadAssumption DEF LInv, Types
<1>1. PICK i \in 1..Len(paused) : paused[i] = d
  BY <1>0, Entries
<1>2. i = CHOOSE k \in DOMAIN paused : paused[k] = d
  <2>1. \A k \in DOMAIN paused : paused[k] = d => k = i
    BY <1>1, ListsAre DEF LInv, Placed
  <2>2. i \in DOMAIN paused
    BY ListsAre
  <2> QED BY <1>1, <2>1, <2>2
<1>3. /\ paused' \in Seq(Downloads) /\ Len(paused') = Len(paused) - 1
      /\ \A j \in 1..Len(paused) - 1 :
            paused'[j] = IF j < i THEN paused[j] ELSE paused[j + 1]
  <2>1. paused' = RemoveAt(paused, i)
    BY <1>2 DEF Unpaused
  <2> QED BY <1>0, <2>1, RemovedAt
<1>4. Len(paused) \in Nat /\ DOMAIN paused' = 1..Len(paused) - 1 /\ DOMAIN paused = 1..Len(paused)
  BY <1>3, ListsAre, LenProperties
<1>5. In(paused)' \subseteq In(paused) \ {d}
  <2>1. ASSUME NEW j \in 1..Len(paused) - 1 PROVE paused'[j] \in In(paused) \ {d}
    <3> DEFINE k == IF j < i THEN j ELSE j + 1
    <3>1. k \in 1..Len(paused) /\ k # i /\ paused'[j] = paused[k]
      BY <1>3, <1>4
    <3> HIDE DEF k
    <3>2. paused[k] # d
      BY <1>1, <3>1 DEF LInv, Placed
    <3>3. paused[k] \in Downloads
      BY <3>1, ListsAre
    <3> QED BY <1>0, <3>1, <3>2, <3>3, Entries
  <2> QED BY <1>4, <2>1 DEF In
<1>6. In(paused) \ {d} \subseteq In(paused)'
  <2>1. ASSUME NEW e \in In(paused), e # d PROVE e \in In(paused)'
    <3>1. PICK k \in 1..Len(paused) : paused[k] = e
      BY <2>1, Entries
    <3> DEFINE j == IF k < i THEN k ELSE k - 1
    <3>2. k # i
      BY <1>1, <2>1, <3>1
    <3>3. j \in 1..Len(paused) - 1 /\ paused'[j] = e
      BY <1>3, <1>4, <3>1, <3>2
    <3> HIDE DEF j
    <3>4. e # None
      BY <1>0, Entries
    <3> QED BY <1>4, <3>3, <3>4 DEF In
  <2> QED BY <2>1
<1> QED BY <1>3, <1>5, <1>6

(* PopWait takes the record on top of m_Urls.                                *)
LEMMA PoppedEntries ==
    ASSUME LInv, urls # <<>>, urls' = Front(urls)
    PROVE  /\ Last(urls) \in In(urls) /\ In(urls) = In(urls)' \cup {Last(urls)}
           /\ Len(urls') = Len(urls) - 1
           /\ (\A i, j \in 1..Len(urls) : urls[i] = urls[j] => i = j) =>
                 /\ Last(urls) \notin In(urls)'
                 /\ \A i, j \in 1..Len(urls') : urls'[i] = urls'[j] => i = j
<1>1. /\ urls \in Seq(Downloads) /\ Len(urls) \in Nat /\ Len(urls) # 0
      /\ DOMAIN urls = 1..Len(urls) /\ None \notin Downloads
      /\ \A i \in 1..Len(urls) : urls[i] \in Downloads
  BY AsyncDownloadAssumption, LenProperties, ElementOfSeq, EmptySeq DEF LInv, Types
<1> DEFINE n == Len(urls)
<1>0. n \in Nat /\ n # 0
  BY <1>1
<1>2. /\ urls' \in Seq(Downloads) /\ Len(urls') = Len(urls) - 1
      /\ \A i \in 1..Len(urls) - 1 : urls'[i] = urls[i]
  <2>1. \A i \in 1..Len(urls) - 1 : urls[i] \in Downloads
    BY <1>1
  <2> QED BY <1>1, <2>1, SubSeqProperties DEF Front
<1>3. DOMAIN urls' = 1..Len(urls) - 1
  BY <1>2, LenProperties
<1>4. Last(urls) = urls[Len(urls)] /\ Len(urls) \in 1..Len(urls)
  BY <1>1 DEF Last
<1>5. Last(urls) \in In(urls)
  BY <1>1, <1>4 DEF In
<1>6. In(urls) = In(urls)' \cup {Last(urls)}
  <2>1. \A i \in 1..Len(urls) : i = Len(urls) \/ i \in 1..Len(urls) - 1
    BY <1>0
  <2>2. \A i \in 1..Len(urls) - 1 : i \in 1..Len(urls)
    <3> HIDE DEF n
    <3>1. \A i \in 1..n - 1 : i \in 1..n
      BY <1>0
    <3> QED BY <3>1 DEF n
  <2>3. In(urls)' \subseteq In(urls)
    BY <1>1, <1>2, <1>3, <2>2 DEF In
  <2>4. In(urls) \subseteq In(urls)' \cup {Last(urls)}
    BY <1>1, <1>2, <1>3, <1>4, <2>1 DEF In
  <2> QED BY <1>5, <2>3, <2>4
<1>7. ASSUME \A i, j \in 1..Len(urls) : urls[i] = urls[j] => i = j
      PROVE  /\ Last(urls) \notin In(urls)'
             /\ \A i, j \in 1..Len(urls') : urls'[i] = urls'[j] => i = j
  <2>1. \A i \in 1..Len(urls) - 1 : i \in 1..Len(urls) /\ i # Len(urls)
    <3> HIDE DEF n
    <3>1. \A i \in 1..n - 1 : i \in 1..n /\ i # n
      BY <1>0
    <3> QED BY <3>1 DEF n
  <2>2. \A i \in 1..Len(urls) - 1 : urls'[i] # Last(urls)
    BY <1>2, <1>4, <1>7, <2>1
  <2>3. Last(urls) \notin In(urls)'
    BY <1>3, <2>2 DEF In
  <2>4. \A i, j \in 1..Len(urls') : urls'[i] = urls'[j] => i = j
    BY <1>2, <1>7, <2>1
  <2> QED BY <2>3, <2>4
<1> QED BY <1>2, <1>5, <1>6, <1>7

-----------------------------------------------------------------------------
(* One thread moves on, or lets go of its record, and nothing else changes.  *)
LEMMA HandMoves ==
    ASSUME LInv, LInv', RInv, NEW w \in Workers,
           \A x \in Workers : x # w => worker'[x] = worker[x],
           UNCHANGED <<slots, paused, urls, pool, rec, pausedF, abortF, adding, phase,
                       joining, pauses, world, reports, asked>>,
           worker[w].at \notin {"none", "exited", "chaining"},
           worker'[w].d \in {worker[w].d, None},
           worker'[w].d # None <=> worker'[w].at \in Before \cup After,
           worker'[w].d # None => (worker'[w].at \in After <=> worker[w].at \in After),
           worker'[w].at \in {"completing", "reporting"} \cup After
               => phase \notin {"joined", "done"},
           worker'[w].d = None /\ worker[w].d # None =>
               worker[w].at \notin After /\ (stopping \/ worker[w].d \notin In(slots)),
           worker'[w].at = "reporting" /\ Calm => worker'[w].d \notin In(paused),
           Calm /\ ~stopping /\ worker'[w].at \in {"ended", "completing", "reporting"}
                /\ worker'[w].hr = "E_ABORT" => worker'[w].d \in asked \cup In(paused)
    PROVE  RInv'
<1>0. /\ In(slots)' = In(slots) /\ In(paused)' = In(paused) /\ In(urls)' = In(urls)
      /\ Calm' = Calm /\ stopping' = stopping /\ Made' = Made /\ Room' = Room
  BY DEF In, Calm, stopping, Made, Room
<1> USE Typed, Entries
<1>1. OnHand'
  BY DEF RInv, OnHand
<1>2. Threads'
  BY <1>0 DEF RInv, Threads
<1>3. Flagged'
  BY <1>0 DEF RInv, Flagged
<1>4. Pushes'
  BY <1>0 DEF RInv, Pushes
<1>5. Attended'
  BY <1>0 DEF RInv, Attended
<1>6. ASSUME Calm PROVE Owned' /\ ToldOnce' /\ AbortsExplained'
  <2>1. Owned'
    BY <1>0, <1>6 DEF RInv, CalmInv, Owned
  <2>2. ToldOnce'
    BY <1>0, <1>6 DEF RInv, CalmInv, ToldOnce, OnHand
  <2>3. AbortsExplained'
    BY <1>0, <1>6 DEF RInv, CalmInv, AbortsExplained
  <2> QED BY <2>1, <2>2, <2>3
<1> QED BY <1>0, <1>1, <1>2, <1>3, <1>4, <1>5, <1>6 DEF RInv, CalmInv

(* What EXCEPT makes of a thread.                                            *)
LEMMA WorkerBecomes ==
    ASSUME LInv, NEW w \in Workers, NEW to,
           worker' = [worker EXCEPT ![w].at = to]
    PROVE  /\ worker'[w].at = to /\ worker'[w].d = worker[w].d /\ worker'[w].hr = worker[w].hr
           /\ \A x \in Workers : x # w => worker'[x] = worker[x]
<1>1. worker \in [Workers -> WorkerState] /\ worker[w] \in WorkerState
  BY Typed
<1> DEFINE r == [worker[w] EXCEPT !.at = to]
<1>2. r.at = to /\ r.d = worker[w].d /\ r.hr = worker[w].hr
  BY <1>1 DEF WorkerState
<1>3. worker' = [worker EXCEPT ![w] = r]
  BY <1>1
<1> HIDE DEF r
<1> QED BY <1>1, <1>2, <1>3

(* What a thread becomes that has no record.                                 *)
LEMMA IdleIs ==
    /\ Idle.at = "waiting" /\ Idle.d = None
    /\ [Idle EXCEPT !.at = "exited"].at = "exited"
    /\ [Idle EXCEPT !.at = "exited"].d = None
    /\ \A d : /\ [Idle EXCEPT !.at = "working", !.d = d].at = "working"
              /\ [Idle EXCEPT !.at = "working", !.d = d].d = d
BY DEF Idle

(* A thread wakes, returns from Notify or leaves the pool.                   *)
LEMMA RWake ==
    ASSUME LInv, LInv', RInv, NEW w \in Workers, Wake(w) \/ NotifyReturns(w) \/ Leave(w)
    PROVE  RInv'
<1> USE DEF lists, queue, flags, stop, rest
<1>0. \/ At(w, "waiting", "woken")
      \/ At(w, "notifying", "reported")
      \/ At(w, "waiting", "exited")
  BY DEF Wake, NotifyReturns, Leave
<1>1. /\ \/ worker[w].at = "waiting" /\ worker'[w].at \in {"woken", "exited"}
         \/ worker[w].at = "notifying" /\ worker'[w].at = "reported"
      /\ worker'[w].d = worker[w].d
      /\ \A x \in Workers : x # w => worker'[x] = worker[x]
  BY <1>0, WorkerBecomes DEF At
<1>2. /\ worker[w].d # None <=> worker[w].at \in Before \cup After
      /\ worker[w].at \in After => phase \notin {"joined", "done"}
  BY DEF RInv, OnHand, Threads
<1>3. UNCHANGED <<slots, paused, urls, pool, rec, pausedF, abortF, adding, phase,
                  joining, pauses, world, reports, asked>>
  BY DEF Wake, NotifyReturns, Leave
<1> QED BY <1>1, <1>2, <1>3, HandMoves DEF Before, After

(* ProcessDownload ends, aborted only for a reason.                          *)
LEMMA RTransfer ==
    ASSUME LInv, LInv', RInv, NEW w \in Workers, Transfer(w)
    PROVE  RInv'
<1> USE DEF lists, queue, flags, stop, rest
<1>1. PICK hr \in Results :
         /\ hr = "E_ABORT" => stopping \/ TRUE \in Read(abortF, worker[w].d)
         /\ worker' = [worker EXCEPT ![w].at = "ended", ![w].hr = hr]
  BY DEF Transfer
<1> DEFINE r == [worker[w] EXCEPT !.at = "ended", !.hr = hr]
<1>2. worker \in [Workers -> WorkerState] /\ worker[w] \in WorkerState
  BY Typed
<1>3. r.at = "ended" /\ r.d = worker[w].d /\ r.hr = hr
  BY <1>2 DEF WorkerState
<1>4. worker' = [worker EXCEPT ![w] = r]
  BY <1>1, <1>2
<1> HIDE DEF r
<1>5. /\ worker'[w].at = "ended" /\ worker'[w].d = worker[w].d /\ worker'[w].hr = hr
      /\ \A x \in Workers : x # w => worker'[x] = worker[x]
  BY <1>2, <1>3, <1>4
<1>6. worker[w].at = "working" /\ worker[w].d # None /\ worker[w].d \in Downloads
  BY Typed DEF Transfer, RInv, OnHand, Before
<1>7. ASSUME Calm, ~stopping, hr = "E_ABORT" PROVE worker[w].d \in asked \cup In(paused)
  <2>1. rec[worker[w].d] = "live"
    BY <1>6, <1>7 DEF RInv, CalmInv, Owned, stopping
  <2>2. abortF[worker[w].d] = TRUE
    BY <1>1, <1>7, <2>1 DEF Read
  <2>3. worker[w].d \in In(slots) \cup In(paused)
    BY <1>6, <2>1, Lists
  <2> QED BY <1>7, <2>2, <2>3 DEF RInv, CalmInv, AbortsExplained
<1> QED BY <1>5, <1>6, <1>7, HandMoves DEF Transfer, Before, After

(* The thread leaves when the program stops.                                 *)
LEMMA RCheckStopping ==
    ASSUME LInv, LInv', RInv, NEW w \in Workers, CheckStopping(w)
    PROVE  RInv'
<1> USE DEF lists, queue, flags, stop, rest
<1>1. worker[w].at = "ended" /\ worker[w].d # None
  BY DEF CheckStopping, RInv, OnHand, Before
<1>2. CASE stopping
  <2>1. worker' = [worker EXCEPT ![w] = [Idle EXCEPT !.at = "exited"]]
    BY <1>2 DEF CheckStopping
  <2>2. /\ worker'[w].at = "exited" /\ worker'[w].d = None
        /\ \A x \in Workers : x # w => worker'[x] = worker[x]
    BY <2>1, IdleIs, Typed
  <2> QED BY <1>1, <1>2, <2>2, HandMoves DEF CheckStopping, Before, After
<1>3. CASE ~stopping
  <2>1. worker' = [worker EXCEPT ![w].at = "completing"]
    BY <1>3 DEF CheckStopping
  <2>2. /\ worker'[w].at = "completing" /\ worker'[w].d = worker[w].d
        /\ worker'[w].hr = worker[w].hr
        /\ \A x \in Workers : x # w => worker'[x] = worker[x]
    BY <2>1, WorkerBecomes
  <2>3. Calm /\ worker[w].hr = "E_ABORT" => worker[w].d \in asked \cup In(paused)
    BY <1>1, <1>3 DEF RInv, CalmInv, AbortsExplained
  <2> QED BY <1>1, <1>3, <2>2, <2>3, HandMoves DEF CheckStopping, Before, After, stopping
<1> QED BY <1>2, <1>3

(* A pause makes the thread let go of the record, which is no longer in      *)
(* m_aDownloads.                                                             *)
LEMMA RCheckPaused ==
    ASSUME LInv, LInv', RInv, NEW w \in Workers, CheckPaused(w)
    PROVE  RInv'
<1> USE DEF lists, queue, flags, stop, rest
<1>0. PICK p \in SeesPause(worker[w].d) :
         worker' = [worker EXCEPT ![w] = IF p THEN Idle ELSE [@ EXCEPT !.at = "reporting"]]
  BY DEF CheckPaused
<1>1. /\ worker[w].at = "completing" /\ worker[w].d # None /\ worker[w].d \in Downloads
      /\ phase \notin {"joined", "done"}
  BY Typed DEF CheckPaused, RInv, OnHand, Threads, Before
<1>2. CASE p
  <2>1. worker' = [worker EXCEPT ![w] = Idle]
    BY <1>0, <1>2
  <2>2. /\ worker'[w].at = "waiting" /\ worker'[w].d = None
        /\ \A x \in Workers : x # w => worker'[x] = worker[x]
    BY <2>1, IdleIs, Typed
  <2>3. worker[w].d \notin In(slots)
    BY <1>0, <1>2, Lists DEF SeesPause, Read, RInv, Flagged
  <2> QED BY <1>1, <2>2, <2>3, HandMoves DEF CheckPaused, Before, After
<1>3. CASE ~p
  <2>1. worker' = [worker EXCEPT ![w].at = "reporting"]
    BY <1>0, <1>3
  <2>2. /\ worker'[w].at = "reporting" /\ worker'[w].d = worker[w].d
        /\ worker'[w].hr = worker[w].hr
        /\ \A x \in Workers : x # w => worker'[x] = worker[x]
    BY <2>1, WorkerBecomes
  <2>3. Calm => worker[w].d \notin In(paused)
    <3>1. Calm => rec[worker[w].d] = "live"
      BY <1>1 DEF RInv, CalmInv, Owned
    <3> QED BY <1>0, <1>3, <3>1 DEF SeesPause, Read, RInv, Flagged
  <2>4. Calm /\ ~stopping /\ worker[w].hr = "E_ABORT" => worker[w].d \in asked \cup In(paused)
    BY <1>1 DEF RInv, CalmInv, AbortsExplained
  <2> QED BY <1>1, <2>2, <2>3, <2>4, HandMoves DEF CheckPaused, Before, After
<1> QED BY <1>2, <1>3

(* PopWait: the record on top of m_Urls goes to the thread, or none does.    *)
LEMMA RPop ==
    ASSUME LInv, LInv', RInv, NEW w \in Workers, Pop(w)
    PROVE  RInv'
<1> USE DEF lists, queue, flags, stop, rest
<1> USE Typed, Entries
<1>1. worker[w].at = "woken" /\ worker[w].d = None
  BY DEF Pop, RInv, OnHand, Before, After
<1>2. CASE urls = <<>>
  <2>1. /\ worker'[w].at = "waiting" /\ worker'[w].d = None
        /\ \A x \in Workers : x # w => worker'[x] = worker[x]
    BY <1>2, IdleIs DEF Pop
  <2> QED BY <1>1, <1>2, <2>1, HandMoves DEF Pop, Before, After
<1>3. CASE urls # <<>>
  <2> DEFINE d == Last(urls)
  <2>1. /\ d \in In(urls) /\ In(urls) = In(urls)' \cup {d} /\ Len(urls') = Len(urls) - 1
        /\ (\A i, j \in 1..Len(urls) : urls[i] = urls[j] => i = j) =>
              /\ d \notin In(urls)'
              /\ \A i, j \in 1..Len(urls') : urls'[i] = urls'[j] => i = j
    BY <1>3, PoppedEntries DEF Pop
  <2>2. /\ worker'[w].at = "working" /\ worker'[w].d = d
        /\ \A x \in Workers : x # w => worker'[x] = worker[x]
    <3> DEFINE r == [Idle EXCEPT !.at = "working", !.d = Last(urls)]
    <3>1. worker' = [worker EXCEPT ![w] = r]
      BY <1>3 DEF Pop
    <3>2. r.at = "working" /\ r.d = d
      BY IdleIs
    <3> HIDE DEF r, d
    <3> QED BY <3>1, <3>2
  <2> HIDE DEF d
  <2>3. UNCHANGED <<slots, paused, pool, rec, pausedF, abortF, adding, phase, joining,
                    pauses, world, reports, asked>>
    BY DEF Pop
  <2>4. /\ In(slots)' = In(slots) /\ In(paused)' = In(paused)
        /\ Calm' = Calm /\ stopping' = stopping /\ Made' = Made /\ Room' = Room
    BY <2>3 DEF In, Calm, stopping, Made, Room
  <2>5. OnHand'
    BY <2>1, <2>2 DEF RInv, OnHand, Before
  <2>6. Threads'
    BY <1>1, <2>2, <2>3, <2>4 DEF RInv, Threads, After
  <2>7. Flagged'
    BY <2>3, <2>4 DEF RInv, Flagged
  <2>8. Pushes'
    <3>1. Len(urls) \in Nat
      BY LenProperties DEF LInv, Types
    <3>2. Len(paused) \in Nat /\ Len(paused') = Len(paused) /\ pauses \in Nat
      BY ListsAre, <2>3 DEF LInv, Types, World
    <3>3. Cardinality(Made) \in Nat
      BY AsyncDownloadAssumption, FS_Subset, FS_CardinalityType DEF Made
    <3> QED BY <2>1, <2>3, <2>4, <3>1, <3>2, <3>3 DEF RInv, Pushes
  <2>9. Attended'
    BY <1>1, <2>1, <2>2, <2>3, <2>4 DEF RInv, Attended
  <2>10. ASSUME Calm PROVE Owned' /\ ToldOnce' /\ AbortsExplained'
    <3>0. d \notin In(urls)' /\ d \in Downloads
      BY <2>1, <2>10 DEF RInv, CalmInv, Owned
    <3>1. Owned'
      <4>1. \A i, j \in 1..Len(urls') : urls'[i] = urls'[j] => i = j
        BY <2>1, <2>10 DEF RInv, CalmInv, Owned
      <4>2. ~world.late => phase # "done"
        BY <1>1 DEF RInv, Threads
      <4>3. \A x \in Workers : worker'[x].d \notin In(urls)'
        BY <2>1, <2>2, <2>10, <3>0 DEF RInv, CalmInv, Owned
      <4>4. \A x, y \in Workers : worker'[x].d = worker'[y].d /\ worker'[x].d # None => x = y
        BY <2>1, <2>2, <2>10 DEF RInv, CalmInv, Owned
      <4>5. adding # None => /\ adding.d \notin In(urls)'
                             /\ \A x \in Workers : worker'[x].d # adding.d
        BY <2>1, <2>2, <2>10 DEF RInv, CalmInv, Owned
      <4>6. \A e \in In(urls) : rec[e] = "live" \/ (rec[e] = "deleted" /\ phase = "done")
        BY <2>10 DEF RInv, CalmInv, Owned
      <4>7. \A x \in Workers : worker'[x].d # None =>
               \/ rec[worker'[x].d] = "live"
               \/ rec[worker'[x].d] = "deleted" /\ phase = "done" /\ world.late
        <5>1. \A x \in Workers : worker[x].d # None =>
                 \/ rec[worker[x].d] = "live"
                 \/ rec[worker[x].d] = "deleted" /\ phase = "done" /\ world.late
          BY <2>10 DEF RInv, CalmInv, Owned
        <5> QED BY <2>1, <2>2, <4>2, <4>6, <5>1
      <4> QED BY <2>1, <2>3, <2>4, <4>1, <4>3, <4>4, <4>5, <4>6, <4>7 DEF Owned
    <3>2. ToldOnce'
      BY <1>1, <2>1, <2>2, <2>3, <2>4, <2>10, <3>0 DEF RInv, CalmInv, ToldOnce, After
    <3>3. AbortsExplained'
      BY <1>1, <2>1, <2>2, <2>3, <2>4, <2>10, <3>0 DEF RInv, CalmInv, AbortsExplained
    <3> QED BY <3>1, <3>2, <3>3
  <2> QED BY <2>4, <2>5, <2>6, <2>7, <2>8, <2>9, <2>10 DEF RInv, CalmInv
<1> QED BY <1>2, <1>3

(* The receiver is told.                                                     *)
LEMMA RReport ==
    ASSUME LInv, LInv', RInv, NEW w \in Workers, Report(w)
    PROVE  RInv'
<1> USE DEF lists, queue, flags, stop, rest
<1> USE Typed, Entries
<1> DEFINE d == worker[w].d
<1>0. PICK a \in Read(abortF, d), next \in {"notifying", "reported"} :
         /\ worker' = [worker EXCEPT ![w].at = next]
         /\ reports' = [reports EXCEPT ![d] = Append(@, IF a THEN "E_ABORT" ELSE worker[w].hr)]
  BY DEF Report
<1>1. /\ worker[w].at = "reporting" /\ d # None /\ d \in Downloads
      /\ phase \notin {"joined", "done"}
  BY DEF Report, RInv, OnHand, Threads, Before
<1>2. /\ worker'[w].at \in After /\ worker'[w].d = d
      /\ \A x \in Workers : x # w => worker'[x] = worker[x]
  BY <1>0, WorkerBecomes DEF After
<1>3. /\ reports'[d] # <<>>
      /\ \A e \in Downloads : e # d => reports'[e] = reports[e]
  <2>1. reports \in [Downloads -> Seq(Results)] /\ worker[w].hr \in Results
    BY <1>1 DEF LInv, Types, Answers
  <2>2. reports'[d] = Append(reports[d], IF a THEN "E_ABORT" ELSE worker[w].hr)
    BY <1>0, <1>1, <2>1
  <2>3. (IF a THEN "E_ABORT" ELSE worker[w].hr) \in Results
    BY <2>1 DEF Results
  <2>4. reports'[d] # <<>>
    BY <1>1, <2>1, <2>2, <2>3, AppendProperties
  <2> QED BY <1>0, <2>1, <2>4
<1> HIDE DEF d
<1>4. UNCHANGED <<slots, paused, urls, pool, rec, pausedF, abortF, adding, phase, joining,
                  pauses, world, asked>>
  BY DEF Report
<1>5. /\ In(slots)' = In(slots) /\ In(paused)' = In(paused) /\ In(urls)' = In(urls)
      /\ Calm' = Calm /\ stopping' = stopping /\ Made' = Made /\ Room' = Room
  BY <1>4 DEF In, Calm, stopping, Made, Room
<1>6. OnHand'
  BY <1>1, <1>2 DEF RInv, OnHand
<1>7. Threads'
  BY <1>1, <1>2, <1>4, <1>5 DEF RInv, Threads
<1>8. Flagged' /\ Pushes'
  BY <1>4, <1>5 DEF RInv, Flagged, Pushes
<1>9. Attended'
  BY <1>2, <1>4, <1>5 DEF RInv, Attended, d
<1>10. ASSUME Calm PROVE Owned' /\ ToldOnce' /\ AbortsExplained'
  <2>1. Owned'
    BY <1>2, <1>4, <1>5, <1>10 DEF RInv, CalmInv, Owned, d
  <2>2. /\ rec[d] # "new" /\ d \notin In(urls) /\ d \notin In(paused)
        /\ adding # None => adding.d # d
        /\ \A x \in Workers : x # w => worker[x].d # d
    BY <1>1, <1>10 DEF RInv, CalmInv, Owned, ToldOnce, d
  <2>3. ToldOnce'
    BY <1>1, <1>2, <1>3, <1>4, <1>5, <1>10, <2>2 DEF RInv, CalmInv, ToldOnce, After, d
  <2>4. AbortsExplained'
    BY <1>1, <1>2, <1>4, <1>5, <1>10 DEF RInv, CalmInv, AbortsExplained, After
  <2> QED BY <2>1, <2>3, <2>4
<1> QED BY <1>5, <1>6, <1>7, <1>8, <1>9, <1>10 DEF RInv, CalmInv

(* The record leaves m_aDownloads and is deleted.                            *)
LEMMA RUnlist ==
    ASSUME LInv, LInv', RInv, NEW w \in Workers, Unlist(w)
    PROVE  RInv'
<1> USE DEF lists, queue, flags, stop, rest
<1> USE Typed, Entries
<1> DEFINE d == worker[w].d
<1>1. /\ worker[w].at = "reported" /\ d # None /\ d \in Downloads /\ adding = None
      /\ phase \notin {"joined", "done"}
  BY DEF Unlist, RInv, OnHand, Threads, After
<1>2. /\ worker'[w].at = "waiting" /\ worker'[w].d = None
      /\ \A x \in Workers : x # w => worker'[x] = worker[x]
  BY IdleIs DEF Unlist
<1>3. In(slots)' = In(slots) \ {d}
  BY UnslottedEntries DEF Unlist
<1>4. /\ \A e \in Downloads : e # d => rec'[e] = rec[e]
      /\ rec[d] # "new" => rec'[d] # "new"
      /\ rec[d] = "new" => rec'[d] = "new"
  BY <1>1, Lists DEF Unlist, LInv, Types
<1> HIDE DEF d
<1>5. UNCHANGED <<paused, urls, pool, pausedF, abortF, adding, phase, joining,
                  pauses, world, reports, asked>>
  BY DEF Unlist
<1>6. /\ In(paused)' = In(paused) /\ In(urls)' = In(urls)
      /\ Calm' = Calm /\ stopping' = stopping /\ Made' = Made /\ Room' = Room
  BY <1>1, <1>4, <1>5 DEF In, Calm, stopping, Made, Room
<1>7. OnHand'
  BY <1>1, <1>2 DEF RInv, OnHand, Before, After
<1>8. Threads'
  BY <1>1, <1>2, <1>5, <1>6 DEF RInv, Threads, After
<1>9. Flagged'
  BY <1>1, <1>3, <1>4, <1>5, <1>6 DEF RInv, Flagged
<1>10. Pushes'
  BY <1>5, <1>6 DEF RInv, Pushes
<1>11. Attended'
  BY <1>2, <1>3, <1>5, <1>6 DEF RInv, Attended, d
<1>12. ASSUME Calm PROVE Owned' /\ ToldOnce' /\ AbortsExplained'
  <2>1. /\ d \notin In(urls) /\ \A x \in Workers : x # w => worker[x].d # d
    BY <1>1, <1>12 DEF RInv, CalmInv, Owned, d
  <2>2. Owned'
    BY <1>1, <1>2, <1>4, <1>5, <1>6, <1>12, <2>1 DEF RInv, CalmInv, Owned
  <2>3. ToldOnce'
    BY <1>1, <1>2, <1>3, <1>4, <1>5, <1>6, <1>12, <2>1 DEF RInv, CalmInv, ToldOnce, d
  <2>4. AbortsExplained'
    BY <1>1, <1>2, <1>3, <1>5, <1>6, <1>12 DEF RInv, CalmInv, AbortsExplained
  <2> QED BY <2>2, <2>3, <2>4
<1> QED BY <1>6, <1>7, <1>8, <1>9, <1>10, <1>11, <1>12 DEF RInv, CalmInv

(* How many records have been made.                                          *)
LEMMA MadeIsFinite ==
    /\ IsFiniteSet(Made) /\ Cardinality(Made) \in Nat
    /\ Cardinality(Made) <= Cardinality(Downloads)
BY AsyncDownloadAssumption, FS_Subset, FS_CardinalityType DEF Made

(* A record is listed and about to be pushed, by whoever calls AddDownload.  *)
LEMMA RAdd ==
    ASSUME LInv, LInv', RInv, NEW d \in Downloads, NEW by \in Workers \cup {0},
           d \notin In(slots), AddLocked(by, d),
           In(paused)' = In(paused) \ {d},
           UNCHANGED <<urls, pool, phase, joining, pauses, world, reports>>,
           \A x \in Workers :
              /\ worker'[x].d = worker[x].d /\ worker'[x].hr = worker[x].hr
              /\ x = by => worker[x].at = "notifying" /\ worker'[x].at = "chaining"
              /\ x # by => worker'[x].at = worker[x].at,
           \A e \in Downloads : e # d =>
              rec'[e] = rec[e] /\ pausedF'[e] = pausedF[e] /\ abortF'[e] = abortF[e],
           rec'[d] = "live", ~pausedF'[d], ~abortF'[d],
           asked' \in {asked, asked \ {d}},
           Pushes',
           ~world.late /\ stopping => by # 0,
           Calm => /\ d \notin In(urls) /\ \A x \in Workers : worker[x].d # d
                   /\ reports[d] = <<>>
    PROVE  RInv'
<1> USE Typed, Entries
<1>1. adding = None /\ adding' # None /\ adding'.by = by /\ adding'.d = d
  BY AsyncDownloadAssumption DEF AddLocked, Call, Stages
<1>2. In(slots)' = In(slots) \cup {d}
  BY ListedEntries DEF AddLocked
<1>3. /\ In(urls)' = In(urls)
      /\ Calm' = Calm /\ stopping' = stopping /\ Room' = Room
  BY DEF In, Calm, stopping, Room
<1>4. OnHand'
  BY DEF RInv, OnHand, Before, After
<1>5. Threads'
  <2>1. \A w \in Workers : w > pool => worker'[w].at \in {"none", "exited"}
    BY DEF RInv, Threads
  <2>2. phase \in {"running", "aborted"} => pool >= 1
    BY DEF RInv, Threads
  <2>3. phase = "waiting" =>
           /\ joining \in 1..pool
           /\ \A w \in Workers : w < joining => worker'[w].at = "exited"
    BY DEF RInv, Threads
  <2>4. phase \in {"joined", "done"} =>
           \A w \in Workers : worker'[w].at \notin {"completing", "reporting"} \cup After
    BY DEF RInv, Threads, After
  <2>5. adding'.by # 0 => worker'[adding'.by].at = "chaining"
    BY <1>1
  <2>6. ~world.late /\ phase \in {"joined", "done"} =>
           \A w \in Workers : worker'[w].at \in {"none", "exited"}
    BY DEF RInv, Threads
  <2> QED BY <1>1, <1>3, <2>1, <2>2, <2>3, <2>4, <2>5, <2>6 DEF Threads
<1>6. Flagged'
  BY <1>1, <1>2, <1>3 DEF RInv, Flagged
<1>7. Attended'
  BY <1>1, <1>2, <1>3 DEF RInv, Attended
<1>8. ASSUME Calm PROVE Owned' /\ ToldOnce' /\ AbortsExplained'
  <2>1. Owned'
    BY <1>1, <1>3, <1>8 DEF RInv, CalmInv, Owned
  <2>2. ToldOnce'
    BY <1>1, <1>2, <1>3, <1>8 DEF RInv, CalmInv, ToldOnce, After
  <2>3. AbortsExplained'
    BY <1>1, <1>2, <1>3, <1>8 DEF RInv, CalmInv, AbortsExplained
  <2> QED BY <2>1, <2>2, <2>3
<1> QED BY <1>3, <1>4, <1>5, <1>6, <1>7, <1>8 DEF RInv, CalmInv

(* A new record has no owner and nothing has been told of it.                *)
LEMMA NewIsFree ==
    ASSUME LInv, RInv, NEW d \in Downloads, rec[d] = "new"
    PROVE  /\ d \notin In(slots) /\ d \notin In(paused)
           /\ ~pausedF[d] /\ ~abortF[d]
           /\ Calm => /\ d \notin In(urls) /\ \A x \in Workers : worker[x].d # d
                      /\ reports[d] = <<>>
BY Typed, Entries, Lists DEF RInv, Flagged, CalmInv, Owned, ToldOnce

(* One more record has been made, and is about to be pushed.                 *)
LEMMA PushesWhenMade ==
    ASSUME LInv, RInv, NEW d \in Downloads, rec[d] = "new",
           rec' = [rec EXCEPT ![d] = "live"], adding = None,
           UNCHANGED <<paused, urls, phase, pauses>>
    PROVE  Pushes'
<1>1. Made' = Made \cup {d} /\ d \notin Made
  BY DEF Made, LInv, Types
<1>2. Cardinality(Made') = Cardinality(Made) + 1
  BY <1>1, MadeIsFinite, FS_AddElement
<1>3. Len(urls) \in Nat /\ Len(paused) \in Nat /\ pauses \in Nat
  BY LenProperties DEF LInv, Types, World
<1> QED BY <1>2, <1>3, MadeIsFinite DEF RInv, Pushes, stopping

(* DownloadURL from any thread.                                              *)
LEMMA RDownloadURL ==
    ASSUME LInv, LInv', RInv, NEW d \in Downloads, DownloadURL(d)
    PROVE  RInv'
<1> USE DEF queue, flags, stop, rest
<1>1. rec[d] = "new" /\ rec' = [rec EXCEPT ![d] = "live"] /\ adding = None
      /\ AddLocked(0, d) /\ (stopping => world.late)
      /\ UNCHANGED <<paused, urls, permits, pool, worker, pausedF, abortF, phase, joining,
                     pauses, world, reports, asked>>
  BY DEF DownloadURL, AddLocked
<1>2. rec'[d] = "live" /\ \A e \in Downloads : e # d => rec'[e] = rec[e]
  BY <1>1 DEF LInv, Types
<1>3. In(paused)' = In(paused) \ {d}
  <2>1. In(paused)' = In(paused)
    BY <1>1 DEF In
  <2> QED BY <1>1, <2>1, NewIsFree
<1>4. Pushes'
  BY <1>1, PushesWhenMade
<1>5. 0 \notin Workers
  BY Typed
<1> QED BY <1>1, <1>2, <1>3, <1>4, <1>5, NewIsFree, RAdd

(* DownloadURL from inside Notify.                                           *)
LEMMA RChain ==
    ASSUME LInv, LInv', RInv, NEW w \in Workers, NEW d \in Downloads, ChainDownload(w, d)
    PROVE  RInv'
<1> USE DEF queue, flags, stop, rest
<1>1. rec[d] = "new" /\ rec' = [rec EXCEPT ![d] = "live"] /\ adding = None
      /\ AddLocked(w, d) /\ worker[w].at = "notifying"
      /\ worker' = [worker EXCEPT ![w].at = "chaining"]
      /\ UNCHANGED <<paused, urls, permits, pool, pausedF, abortF, phase, joining,
                     pauses, world, reports, asked>>
  BY DEF ChainDownload, AddLocked
<1>2. rec'[d] = "live" /\ \A e \in Downloads : e # d => rec'[e] = rec[e]
  BY <1>1 DEF LInv, Types
<1>3. In(paused)' = In(paused) \ {d}
  <2>1. In(paused)' = In(paused)
    BY <1>1 DEF In
  <2> QED BY <1>1, <2>1, NewIsFree
<1>4. Pushes'
  BY <1>1, PushesWhenMade
<1>5. w # 0
  BY Typed
<1>6. \A x \in Workers :
         /\ worker'[x].d = worker[x].d /\ worker'[x].hr = worker[x].hr
         /\ x = w => worker[x].at = "notifying" /\ worker'[x].at = "chaining"
         /\ x # w => worker'[x].at = worker[x].at
  BY <1>1, WorkerBecomes
<1> QED BY <1>1, <1>2, <1>3, <1>4, <1>5, <1>6, NewIsFree, RAdd

(* Resume, when the workers have noticed the pause.                          *)
LEMMA RResume ==
    ASSUME LInv, LInv', RInv, NEW d \in Downloads, Resume(d)
    PROVE  RInv'
<1> USE DEF queue, flags, stop
<1>1. /\ ~stopping /\ d \in In(paused) /\ adding = None /\ AddLocked(0, d)
      /\ Calm => Holding(d) = {} /\ d \notin In(urls)
      /\ pausedF' = [pausedF EXCEPT ![d] = FALSE] /\ abortF' = [abortF EXCEPT ![d] = FALSE]
      /\ paused' = Unpaused(d) /\ asked' = asked \ {d}
      /\ UNCHANGED <<urls, permits, pool, worker, rec, phase, joining, pauses, world, reports>>
  BY DEF Resume, AddLocked
<1>2. In(paused)' = In(paused) \ {d} /\ Len(paused') = Len(paused) - 1
  BY <1>1, UnpausedEntries
<1>3. /\ rec'[d] = "live" /\ ~pausedF'[d] /\ ~abortF'[d]
      /\ \A e \in Downloads : e # d =>
            rec'[e] = rec[e] /\ pausedF'[e] = pausedF[e] /\ abortF'[e] = abortF[e]
  BY <1>1, Lists DEF LInv, Types
<1>4. Pushes'
  <2>1. Len(urls) \in Nat /\ Len(paused) \in Nat /\ pauses \in Nat
    BY LenProperties DEF LInv, Types, World
  <2>2. Made' = Made /\ adding' # None
    BY <1>1, AsyncDownloadAssumption DEF Made, AddLocked, Call, Stages
  <2> QED BY <1>1, <1>2, <2>1, <2>2, MadeIsFinite DEF RInv, Pushes, stopping
<1>5. d \notin In(slots)
  BY <1>1, Lists
<1>6. Calm => /\ d \notin In(urls) /\ \A x \in Workers : worker[x].d # d
              /\ reports[d] = <<>>
  BY <1>1 DEF RInv, CalmInv, ToldOnce, Holding
<1>7. 0 \notin Workers
  BY Typed
<1> QED BY <1>1, <1>2, <1>3, <1>4, <1>5, <1>6, <1>7, RAdd

(* AddDownload up to the push: a thread may be made, nobody else moves.      *)
LEMMA RAddThread ==
    ASSUME LInv, LInv', RInv, CountThreads \/ AddWorker \/ ResumeWorkers
    PROVE  RInv'
<1> USE DEF lists, queue, flags, stop, rest
<1> USE Typed, Entries
<1>1. /\ adding # None /\ adding' # None /\ adding'.by = adding.by /\ adding'.d = adding.d
      /\ phase # "waiting"
      /\ UNCHANGED <<slots, paused, urls, permits, rec, pausedF, abortF, phase, joining, pauses,
                     world, reports, asked>>
  <2>1. adding \in [by : Workers \cup {0}, d : Downloads, at : Stages] /\ adding # None
    BY DEF CountThreads, AddWorker, ResumeWorkers, Adds, LInv, Types
  <2>2. PICK to : adding' = [adding EXCEPT !.at = to] /\ to \in Stages
    BY DEF CountThreads, AddWorker, ResumeWorkers, Adds, Stages
  <2>3. adding' \in [by : Workers \cup {0}, d : Downloads, at : Stages]
    BY <2>1, <2>2
  <2>4. adding' # None
    BY <2>3, AsyncDownloadAssumption DEF Call
  <2> QED BY <2>1, <2>2, <2>4 DEF CountThreads, AddWorker, ResumeWorkers
<1>2. pool' \in {pool, pool + 1}
  BY DEF CountThreads, AddWorker, ResumeWorkers
<1>3. /\ In(slots)' = In(slots) /\ In(paused)' = In(paused) /\ In(urls)' = In(urls)
      /\ Calm' = Calm /\ stopping' = stopping /\ Made' = Made /\ Room' = Room
  BY <1>1 DEF In, Calm, stopping, Made, Room
<1>4. ASSUME NEW x \in Workers
      PROVE  /\ worker'[x].d = worker[x].d
             /\ \/ worker'[x] = worker[x]
                \/ /\ x = pool + 1 /\ x = pool' /\ worker'[x].at = "waiting"
                   /\ worker[x].at \in {"none", "exited"}
  <2>1. CASE CountThreads \/ ResumeWorkers
    BY <2>1 DEF CountThreads, ResumeWorkers
  <2>2. CASE AddWorker /\ x = pool + 1
    <3>1. worker'[x] = Idle /\ pool' = pool + 1
      BY <2>2 DEF AddWorker
    <3>2. worker[x].at \in {"none", "exited"}
      BY <2>2 DEF RInv, Threads
    <3>3. worker[x].d = None
      BY <3>2 DEF RInv, OnHand, Before, After
    <3> QED BY <2>2, <3>1, <3>2, <3>3, IdleIs
  <2>3. CASE AddWorker /\ x # pool + 1
    BY <2>3 DEF AddWorker
  <2> QED BY <2>1, <2>2, <2>3
<1>5. OnHand'
  <2> SUFFICES ASSUME NEW x \in Workers
               PROVE  worker'[x].d # None <=> worker'[x].at \in Before \cup After
    BY DEF OnHand
  <2>1. worker[x].d # None <=> worker[x].at \in Before \cup After
    BY DEF RInv, OnHand
  <2> QED BY <1>4, <2>1 DEF Before, After
<1>6. adding.by # 0 => worker'[adding.by].at = "chaining"
  BY <1>1, <1>4 DEF RInv, Threads
<1>7. Threads'
  <2>1. \A w \in Workers : w > pool' => worker'[w].at \in {"none", "exited"}
    <3> SUFFICES ASSUME NEW w \in Workers, w > pool' PROVE worker'[w].at \in {"none", "exited"}
      OBVIOUS
    <3>1. w > pool /\ worker[w].at \in {"none", "exited"}
      BY <1>2 DEF RInv, Threads
    <3> QED BY <1>2, <1>4, <3>1
  <2>2. phase \in {"running", "aborted"} => pool' >= 1
    BY <1>2 DEF RInv, Threads
  <2>3. phase \in {"joined", "done"} =>
           /\ \A w \in Workers : worker'[w].at \notin {"completing", "reporting"} \cup After
           /\ world.late
    <3> SUFFICES ASSUME phase \in {"joined", "done"}
                 PROVE  /\ \A w \in Workers :
                              worker'[w].at \notin {"completing", "reporting"} \cup After
                        /\ world.late
      OBVIOUS
    <3>1. \A w \in Workers : worker[w].at \notin {"completing", "reporting"} \cup After
      BY DEF RInv, Threads
    <3>2. adding.by = 0
      BY <1>1, <3>1 DEF RInv, Threads, After
    <3>3. world.late
      BY <1>1, <3>2 DEF RInv, Threads, stopping
    <3> QED BY <1>4, <3>1, <3>2, <3>3 DEF After
  <2>4. ~world.late /\ stopping => adding.by # 0
    BY <1>1 DEF RInv, Threads
  <2> QED BY <1>1, <1>3, <1>6, <2>1, <2>2, <2>3, <2>4 DEF Threads
<1>8. Flagged'
  BY <1>1, <1>3 DEF RInv, Flagged
<1>9. Pushes'
  BY <1>1, <1>3 DEF RInv, Pushes
<1>10. Attended'
  BY <1>1, <1>3, <1>4 DEF RInv, Attended
<1>11. ASSUME Calm PROVE Owned' /\ ToldOnce' /\ AbortsExplained'
  <2>1. Owned'
    BY <1>1, <1>3, <1>4, <1>11 DEF RInv, CalmInv, Owned
  <2>2. \A w \in Workers : worker'[w].d # None =>
           /\ reports[worker'[w].d] # <<>> <=> worker'[w].at \in After
           /\ worker'[w] = worker[w]
    <3> SUFFICES ASSUME NEW w \in Workers, worker'[w].d # None
                 PROVE  /\ reports[worker'[w].d] # <<>> <=> worker'[w].at \in After
                        /\ worker'[w] = worker[w]
      OBVIOUS
    <3>1. worker[w].at \notin {"none", "exited"}
      BY <1>4 DEF RInv, OnHand, Before, After
    <3> QED BY <1>4, <1>11, <3>1 DEF RInv, CalmInv, ToldOnce
  <2>3. \A e \in In(slots) : reports[e] # <<>> => \E w \in Workers : worker'[w].d = e
    BY <1>4, <1>11 DEF RInv, CalmInv, ToldOnce
  <2>4. \A w \in Workers : worker'[w].at = "reporting" => worker'[w].d \notin In(paused)
    BY <1>4, <1>11 DEF RInv, CalmInv, ToldOnce
  <2>5. ToldOnce'
    BY <1>1, <1>3, <1>11, <2>2, <2>3, <2>4 DEF RInv, CalmInv, ToldOnce
  <2>6. AbortsExplained'
    BY <1>1, <1>3, <1>4, <1>11 DEF RInv, CalmInv, AbortsExplained
  <2> QED BY <2>1, <2>5, <2>6
<1> QED BY <1>3, <1>5, <1>7, <1>8, <1>9, <1>10, <1>11 DEF RInv, CalmInv

(* The end of AddDownload: the record is pushed.                             *)
LEMMA RPush ==
    ASSUME LInv, LInv', RInv, PushAdded
    PROVE  RInv'
<1> USE DEF lists, flags, stop, rest
<1> USE Typed, Entries
<1> DEFINE d == adding.d
<1>1. /\ adding # None /\ d \in Downloads /\ adding' = None
      /\ adding.by \in Workers \cup {0}
      /\ UNCHANGED <<slots, paused, pool, rec, pausedF, abortF, phase, joining, pauses, world,
                     reports, asked>>
  BY DEF PushAdded
<1>3. /\ In(slots)' = In(slots) /\ In(paused)' = In(paused)
      /\ Calm' = Calm /\ stopping' = stopping /\ Made' = Made /\ Room' = Room
  BY <1>1 DEF In, Calm, stopping, Made, Room
<1>4. ASSUME NEW x \in Workers
      PROVE  /\ worker'[x].d = worker[x].d
             /\ x = adding.by => worker[x].at = "chaining" /\ worker'[x].at = "reported"
             /\ x # adding.by => worker'[x] = worker[x]
  <2>1. CASE x = adding.by
    <3> DEFINE r == [worker[x] EXCEPT !.at = "reported"]
    <3>1. worker'[x] = r
      BY <2>1 DEF PushAdded
    <3>2. r.at = "reported" /\ r.d = worker[x].d
      BY DEF WorkerState
    <3> HIDE DEF r
    <3> QED BY <1>1, <2>1, <3>1, <3>2 DEF RInv, Threads
  <2>2. CASE x # adding.by
    BY <2>2 DEF PushAdded
  <2> QED BY <2>1, <2>2
<1>5. \/ In(urls)' = In(urls) \cup {d} /\ Len(urls') = Len(urls) + 1 /\ urls' = Append(urls, d)
      \/ urls' = urls /\ In(urls)' = In(urls) /\ ~(Len(urls) < Capacity)
  <2>1. CASE Len(urls) < Capacity
    <3>1. urls' = Append(urls, d) /\ urls \in Seq(Downloads)
      BY <2>1 DEF PushAdded, Pushed, LInv, Types
    <3> QED BY <1>1, <3>1, AppendedEntries
  <2>2. CASE ~(Len(urls) < Capacity)
    BY <2>2 DEF PushAdded, Pushed, In
  <2> QED BY <2>1, <2>2
<1> HIDE DEF d
<1>6. OnHand'
  <2> SUFFICES ASSUME NEW x \in Workers
               PROVE  worker'[x].d # None <=> worker'[x].at \in Before \cup After
    BY DEF OnHand
  <2>1. worker[x].d # None <=> worker[x].at \in Before \cup After
    BY DEF RInv, OnHand
  <2> QED BY <1>4, <2>1 DEF Before, After
<1>7. Threads'
  <2>1. \A w \in Workers : w > pool => worker'[w].at \in {"none", "exited"}
    BY <1>4 DEF RInv, Threads
  <2>2. phase = "waiting" =>
           /\ joining \in 1..pool
           /\ \A w \in Workers : w < joining => worker'[w].at = "exited"
    BY <1>4 DEF RInv, Threads
  <2>3. phase \in {"joined", "done"} =>
           /\ \A w \in Workers : worker'[w].at \notin {"completing", "reporting"} \cup After
           /\ world.late
    <3> SUFFICES ASSUME phase \in {"joined", "done"}
                 PROVE  /\ \A w \in Workers :
                              worker'[w].at \notin {"completing", "reporting"} \cup After
                        /\ world.late
      OBVIOUS
    <3>1. \A w \in Workers : worker[w].at \notin {"completing", "reporting"} \cup After
      BY DEF RInv, Threads
    <3>2. adding.by = 0
      BY <1>1, <3>1 DEF RInv, Threads, After
    <3>3. world.late
      BY <1>1, <3>2 DEF RInv, Threads, stopping
    <3> QED BY <1>4, <3>1, <3>2, <3>3 DEF After
  <2>4. phase \in {"running", "aborted"} => pool >= 1
    BY DEF RInv, Threads
  <2> QED BY <1>1, <1>3, <2>1, <2>2, <2>3, <2>4 DEF Threads
<1>8. Flagged'
  BY <1>1, <1>3 DEF RInv, Flagged
<1>9. Pushes'
  <2>1. Len(urls) \in Nat /\ Len(paused) \in Nat /\ pauses \in Nat
    BY LenProperties DEF LInv, Types, World
  <2> QED BY <1>1, <1>3, <1>5, <2>1, MadeIsFinite DEF RInv, Pushes
<1>10. Attended'
  <2>1. Len(urls) \in Nat /\ Len(paused) \in Nat /\ pauses \in Nat
        /\ pauses <= world.pauses /\ world.pauses \in Nat
    BY LenProperties DEF LInv, Types, World
  <2>2. Room /\ ~stopping => Len(urls) < Capacity
    <3>1. ~stopping => Len(urls) + Len(paused) + 1 <= Cardinality(Made) + pauses
      BY <1>1 DEF RInv, Pushes
    <3>2. Cardinality(Downloads) \in Nat /\ Capacity \in Nat
      BY Sizes, AsyncDownloadAssumption
    <3> QED BY <2>1, <3>1, <3>2, MadeIsFinite DEF Room
  <2>3. Room /\ ~stopping => In(urls)' = In(urls) \cup {d}
    BY <1>5, <2>2
  <2> QED BY <1>1, <1>3, <1>4, <2>3 DEF RInv, Attended, d
<1>11. ASSUME Calm PROVE Owned' /\ ToldOnce' /\ AbortsExplained'
  <2>0. /\ d \notin In(urls) /\ \A x \in Workers : worker[x].d # d
        /\ reports[d] = <<>> /\ d \in In(slots)
    BY <1>1, <1>11 DEF RInv, CalmInv, Owned, ToldOnce, Flagged, d
  <2>1. \A i, j \in 1..Len(urls') : urls'[i] = urls'[j] => i = j
    <3>1. \A i, j \in 1..Len(urls) : urls[i] = urls[j] => i = j
      BY <1>11 DEF RInv, CalmInv, Owned
    <3>2. CASE urls' = Append(urls, d)
      <4>1. /\ Len(urls') = Len(urls) + 1 /\ Len(urls) \in Nat
            /\ \A i \in 1..Len(urls) : urls'[i] = urls[i]
            /\ urls'[Len(urls) + 1] = d
        BY <1>1, <3>2, AppendProperties, LenProperties DEF LInv, Types
      <4>2. \A i \in 1..Len(urls) : urls[i] # d
        BY <1>1, <2>0
      <4>3. \A i \in 1..Len(urls') : i \in 1..Len(urls) \/ i = Len(urls) + 1
        BY <4>1
      <4> QED BY <3>1, <4>1, <4>2, <4>3
    <3> QED BY <1>5, <3>1, <3>2
  <2>2. Owned'
    <3>1. \A w \in Workers : worker'[w].d \notin In(urls)'
      BY <1>4, <1>5, <1>11, <2>0 DEF RInv, CalmInv, Owned
    <3>2. \A w, x \in Workers : worker'[w].d = worker'[x].d /\ worker'[w].d # None => w = x
      BY <1>4, <1>11 DEF RInv, CalmInv, Owned
    <3>3. \A e \in In(urls)' : rec[e] = "live" \/ (rec[e] = "deleted" /\ phase = "done")
      <4>1. rec[d] = "live"
        BY <2>0, Lists
      <4> QED BY <1>5, <1>11, <4>1 DEF RInv, CalmInv, Owned
    <3>4. \A w \in Workers : worker'[w].d # None =>
             \/ rec[worker'[w].d] = "live"
             \/ rec[worker'[w].d] = "deleted" /\ phase = "done" /\ world.late
      BY <1>4, <1>11 DEF RInv, CalmInv, Owned
    <3> QED BY <1>1, <2>1, <3>1, <3>2, <3>3, <3>4 DEF Owned
  <2>3. ToldOnce'
    <3>1. \A e \in In(urls)' : reports[e] = <<>>
      BY <1>5, <1>11, <2>0 DEF RInv, CalmInv, ToldOnce
    <3>2. \A w \in Workers : worker'[w].d # None =>
             (reports[worker'[w].d] # <<>> <=> worker'[w].at \in After)
      <4> SUFFICES ASSUME NEW w \in Workers, worker'[w].d # None
                   PROVE  reports[worker'[w].d] # <<>> <=> worker'[w].at \in After
        OBVIOUS
      <4>1. reports[worker[w].d] # <<>> <=> worker[w].at \in After
        BY <1>4, <1>11 DEF RInv, CalmInv, ToldOnce
      <4>2. worker[w].at \notin {"none", "exited"}
        BY <1>4 DEF RInv, OnHand, Before, After
      <4> QED BY <1>4, <4>1, <4>2 DEF After
    <3>3. \A e \in In(slots) : reports[e] # <<>> => \E w \in Workers : worker'[w].d = e
      BY <1>4, <1>11 DEF RInv, CalmInv, ToldOnce
    <3>4. \A w \in Workers : worker'[w].at = "reporting" => worker'[w].d \notin In(paused)
      BY <1>4, <1>11 DEF RInv, CalmInv, ToldOnce
    <3> QED BY <1>1, <1>3, <1>11, <3>1, <3>2, <3>3, <3>4 DEF RInv, CalmInv, ToldOnce
  <2>4. AbortsExplained'
    BY <1>1, <1>3, <1>4, <1>11 DEF RInv, CalmInv, AbortsExplained
  <2> QED BY <2>2, <2>3, <2>4
<1> QED BY <1>3, <1>6, <1>7, <1>8, <1>9, <1>10, <1>11 DEF RInv, CalmInv

(* StopDownload sets m_Abort of a record that somebody asked to be stopped.  *)
LEMMA RStopDownload ==
    ASSUME LInv, LInv', RInv, NEW d \in Downloads, StopDownload(d)
    PROVE  RInv'
<1> USE DEF lists, queue, stop
<1> USE Typed, Entries
<1>1. /\ d \in In(slots) /\ abortF'[d] /\ \A e \in Downloads : e # d => abortF'[e] = abortF[e]
      /\ asked' = asked \cup {d} /\ rec[d] = "live"
      /\ UNCHANGED <<slots, paused, urls, permits, pool, worker, rec, pausedF, adding, phase,
                     joining, pauses, world, reports>>
  BY Lists DEF StopDownload, LInv, Types
<1>2. /\ In(slots)' = In(slots) /\ In(paused)' = In(paused) /\ In(urls)' = In(urls)
      /\ Calm' = Calm /\ stopping' = stopping /\ Made' = Made /\ Room' = Room
  BY <1>1 DEF In, Calm, stopping, Made, Room
<1>3. OnHand' /\ Threads' /\ Pushes' /\ Attended'
  BY <1>1, <1>2 DEF RInv, OnHand, Threads, Pushes, Attended
<1>4. Flagged'
  BY <1>1, <1>2 DEF RInv, Flagged
<1>5. ASSUME Calm PROVE Owned' /\ ToldOnce' /\ AbortsExplained'
  <2>1. Owned' /\ ToldOnce'
    BY <1>1, <1>2, <1>5 DEF RInv, CalmInv, Owned, ToldOnce
  <2>2. AbortsExplained'
    BY <1>1, <1>2, <1>5 DEF RInv, CalmInv, AbortsExplained
  <2> QED BY <2>1, <2>2
<1> QED BY <1>2, <1>3, <1>4, <1>5 DEF RInv, CalmInv

(* Pause moves a record to m_aPaused, before its receiver is told.           *)
LEMMA RPause ==
    ASSUME LInv, LInv', RInv, NEW d \in Downloads, Pause(d)
    PROVE  RInv'
<1> USE DEF queue, stop
<1> USE Typed, Entries
<1>1. /\ adding = None /\ ~stopping /\ d \in In(slots) /\ d # None
      /\ Calm => \A w \in Holding(d) : worker[w].at \in {"working", "ended", "completing"}
      /\ pauses' = pauses + 1
      /\ UNCHANGED <<urls, permits, pool, worker, rec, adding, phase, joining, world, reports,
                     asked>>
  BY DEF Pause
<1>2. /\ pausedF'[d] /\ abortF'[d]
      /\ \A e \in Downloads : e # d => pausedF'[e] = pausedF[e] /\ abortF'[e] = abortF[e]
  BY DEF Pause, LInv, Types
<1>3. /\ In(slots)' = In(slots) \ {d}
      /\ In(paused)' = In(paused) \cup {d} /\ Len(paused') = Len(paused) + 1
  <2>1. paused \in Seq(Downloads) /\ paused' = Append(paused, d)
    BY DEF Pause, LInv, Types
  <2> QED BY <1>1, <2>1, UnslottedEntries, AppendedEntries DEF Pause
<1>4. /\ In(urls)' = In(urls) /\ Calm' = Calm /\ stopping' = stopping /\ Made' = Made
      /\ Room' = Room
  BY <1>1 DEF In, Calm, stopping, Made, Room
<1>5. OnHand' /\ Threads'
  BY <1>1, <1>4 DEF RInv, OnHand, Threads
<1>6. Flagged'
  BY <1>1, <1>2, <1>3, Lists DEF RInv, Flagged
<1>7. Pushes'
  <2>1. Len(urls) \in Nat /\ Len(paused) \in Nat /\ pauses \in Nat
    BY LenProperties DEF LInv, Types, World
  <2> QED BY <1>1, <1>3, <1>4, <2>1, MadeIsFinite DEF RInv, Pushes
<1>8. Attended'
  BY <1>1, <1>3, <1>4 DEF RInv, Attended
<1>9. ASSUME Calm PROVE Owned' /\ ToldOnce' /\ AbortsExplained'
  <2>1. Owned'
    BY <1>1, <1>3, <1>4, <1>9 DEF RInv, CalmInv, Owned
  <2>2. \A w \in Workers : worker[w].d = d => worker[w].at \notin After \cup {"reporting"}
    BY <1>1, <1>9 DEF Holding, After
  <2>3. reports[d] = <<>>
    <3>1. ASSUME reports[d] # <<>> PROVE FALSE
      <4>1. PICK w \in Workers : worker[w].d = d
        BY <1>1, <1>9, <3>1 DEF RInv, CalmInv, ToldOnce
      <4> QED BY <1>1, <1>9, <2>2, <3>1, <4>1 DEF RInv, CalmInv, ToldOnce
    <3> QED BY <3>1
  <2>4. ToldOnce'
    BY <1>1, <1>3, <1>4, <1>9, <2>2, <2>3 DEF RInv, CalmInv, ToldOnce
  <2>5. AbortsExplained'
    BY <1>1, <1>2, <1>3, <1>4, <1>9 DEF RInv, CalmInv, AbortsExplained
  <2> QED BY <2>1, <2>4, <2>5
<1> QED BY <1>4, <1>5, <1>6, <1>7, <1>8, <1>9 DEF RInv, CalmInv

(* AbortDownloads empties m_Urls, tells of the paused downloads and deletes  *)
(* them.                                                                     *)
LEMMA RAbort ==
    ASSUME LInv, LInv', RInv, AbortDownloads
    PROVE  RInv'
<1> USE DEF lists
<1> USE Typed, Entries
<1>1. /\ phase = "running" /\ phase' = "aborted" /\ ~stopping /\ stopping' /\ adding = None
      /\ Calm => \A d \in In(paused) : Holding(d) = {} /\ d \notin In(urls)
      /\ urls' = <<>>
      /\ UNCHANGED <<slots, paused, permits, pool, worker, pausedF, adding, joining, pauses,
                     world, asked>>
  BY DEF AbortDownloads, stopping
<1>2. /\ In(slots)' = In(slots) /\ In(paused)' = In(paused) /\ In(urls)' = {}
      /\ Calm' = Calm
  BY <1>1 DEF In, Calm
<1>3. \A d \in Downloads : rec'[d] = IF d \in In(paused) THEN "deleted" ELSE rec[d]
  BY DEF AbortDownloads
<1>4. \A d \in Downloads : d \notin In(paused) => reports'[d] = reports[d]
  BY DEF AbortDownloads, Told
<1>5. \A d \in In(paused) : reports'[d] # <<>>
  <2>1. \A d \in Downloads : reports[d] \in Seq(Results) /\ "E_ABORT" \in Results
    BY DEF LInv, Types, Results
  <2>2. \A d \in Downloads : Append(reports[d], "E_ABORT") # <<>>
    BY <2>1, AppendProperties
  <2>3. \A d \in In(paused) : reports'[d] = Append(reports[d], "E_ABORT")
    BY DEF AbortDownloads, Told
  <2> QED BY <2>2, <2>3
<1>6. \A d \in Downloads : abortF'[d] => abortF[d] \/ d \in In(slots)
  BY DEF AbortDownloads
<1>7. \A d \in In(paused) \cup In(slots) : rec[d] = "live"
  BY <1>1, Lists
<1>8. OnHand'
  BY <1>1 DEF RInv, OnHand
<1>9. Threads'
  BY <1>1 DEF RInv, Threads
<1>10. Flagged'
  BY <1>1, <1>2, <1>3, <1>6, <1>7 DEF RInv, Flagged
<1>11. Pushes' /\ Attended'
  BY <1>1 DEF Pushes, Attended
<1>12. ASSUME Calm PROVE Owned' /\ ToldOnce' /\ AbortsExplained'
  <2>1. \A w \in Workers : worker[w].d \notin In(paused)
    BY <1>1, <1>12 DEF Holding
  <2>2. \A i, j \in 1..Len(urls') : urls'[i] = urls'[j] => i = j
    BY <1>1
  <2>3. Owned'
    BY <1>1, <1>2, <1>3, <1>12, <2>1, <2>2 DEF RInv, CalmInv, Owned, stopping
  <2>4. ToldOnce'
    BY <1>1, <1>2, <1>3, <1>4, <1>5, <1>7, <1>12, <2>1, Lists DEF RInv, CalmInv, ToldOnce
  <2>5. AbortsExplained'
    BY <1>1 DEF AbortsExplained
  <2> QED BY <2>3, <2>4, <2>5
<1> QED BY <1>2, <1>8, <1>9, <1>10, <1>11, <1>12 DEF RInv, CalmInv

(* StopAndWait goes through the pool, thread by thread.                      *)
LEMMA RJoin ==
    ASSUME LInv, LInv', RInv, StopAndWait \/ JoinNext
    PROVE  RInv'
<1> USE DEF lists, queue, flags, rest
<1> USE Typed, Entries
<1>1. /\ phase \in {"aborted", "waiting"} /\ phase' \in {"waiting", "joined"}
      /\ UNCHANGED <<slots, paused, urls, worker, rec, pausedF, abortF, adding, pauses, world,
                     reports, asked>>
  BY DEF StopAndWait, JoinNext
<1>2. /\ In(slots)' = In(slots) /\ In(paused)' = In(paused) /\ In(urls)' = In(urls)
      /\ Calm' = Calm /\ stopping /\ stopping' /\ Made' = Made /\ Room' = Room
  BY <1>1 DEF In, Calm, stopping, Made, Room
<1>3. OnHand' /\ Flagged'
  BY <1>1, <1>2 DEF RInv, OnHand, Flagged
<1>4. Pushes' /\ Attended'
  BY <1>2 DEF Pushes, Attended
<1>5. Threads'
  <2>1. CASE StopAndWait
    BY <1>1, <1>2, <2>1 DEF RInv, Threads, StopAndWait
  <2>2. CASE JoinNext /\ joining < pool
    BY <1>1, <1>2, <2>2 DEF RInv, Threads, JoinNext
  <2>3. CASE JoinNext /\ ~(joining < pool)
    <3>1. /\ phase = "waiting" /\ phase' = "joined" /\ pool' = 0 /\ joining = pool
          /\ worker[joining].at = "exited"
      BY <2>3 DEF JoinNext
    <3>2. \A w \in Workers : worker[w].at \in {"none", "exited"}
      BY <3>1 DEF RInv, Threads
    <3> QED BY <1>1, <1>2, <3>1, <3>2 DEF RInv, Threads, After
  <2> QED BY <2>1, <2>2, <2>3
<1>6. ASSUME Calm PROVE Owned' /\ ToldOnce' /\ AbortsExplained'
  <2>1. Owned'
    BY <1>1, <1>2, <1>6 DEF RInv, CalmInv, Owned
  <2>2. ToldOnce'
    BY <1>1, <1>2, <1>6 DEF RInv, CalmInv, ToldOnce
  <2>3. AbortsExplained'
    BY <1>2 DEF AbortsExplained
  <2> QED BY <2>1, <2>2, <2>3
<1> QED BY <1>2, <1>3, <1>4, <1>5, <1>6 DEF RInv, CalmInv

(* The end of Stop.                                                          *)
LEMMA RDelete ==
    ASSUME LInv, LInv', RInv, DeleteListed
    PROVE  RInv'
<1> USE DEF queue, flags, rest
<1> USE Typed, Entries
<1>1. /\ phase = "joined" /\ phase' = "done" /\ adding = None /\ slots' = <<>> /\ paused' = <<>>
      /\ UNCHANGED <<urls, pool, worker, pausedF, abortF, adding, joining, pauses, world,
                     reports, asked>>
  BY DEF DeleteListed
<1>2. /\ In(slots)' = {} /\ In(paused)' = {} /\ In(urls)' = In(urls)
      /\ Calm' = Calm /\ stopping /\ stopping'
  BY <1>1 DEF In, Calm, stopping
<1>3. \A d \in Downloads : rec'[d] = IF d \in In(slots) THEN "deleted" ELSE rec[d]
  BY DEF DeleteListed
<1>4. \A d \in In(slots) : rec[d] = "live"
  BY Lists
<1>5. OnHand' /\ Threads'
  BY <1>1, <1>2 DEF RInv, OnHand, Threads
<1>6. Flagged'
  BY <1>1, <1>2, <1>3, <1>4 DEF RInv, Flagged
<1>7. Pushes' /\ Attended'
  BY <1>2 DEF Pushes, Attended
<1>8. ASSUME Calm PROVE Owned' /\ ToldOnce' /\ AbortsExplained'
  <2>1. \A w \in Workers : worker[w].d # None => world.late
    <3>1. ~world.late => \A w \in Workers : worker[w].at \in {"none", "exited"}
      BY <1>1 DEF RInv, Threads
    <3> QED BY <3>1 DEF RInv, OnHand, Before, After
  <2>2. Owned'
    <3>1. \A d \in In(urls) : rec'[d] = "live" \/ rec'[d] = "deleted"
      BY <1>1, <1>3, <1>8 DEF RInv, CalmInv, Owned
    <3>2. \A w \in Workers : worker[w].d # None =>
             rec'[worker[w].d] = "live" \/ rec'[worker[w].d] = "deleted"
      BY <1>1, <1>3, <1>8 DEF RInv, CalmInv, Owned
    <3> QED BY <1>1, <1>2, <1>8, <2>1, <3>1, <3>2 DEF RInv, CalmInv, Owned
  <2>3. ToldOnce'
    BY <1>1, <1>2, <1>3, <1>4, <1>8 DEF RInv, CalmInv, ToldOnce
  <2>4. AbortsExplained'
    BY <1>2 DEF AbortsExplained
  <2> QED BY <2>2, <2>3, <2>4
<1> QED BY <1>2, <1>5, <1>6, <1>7, <1>8 DEF RInv, CalmInv

(* Nothing has happened yet.                                                 *)
LEMMA RInit == Init => RInv
<1> SUFFICES ASSUME Init PROVE RInv
  OBVIOUS
<1>1. \A w \in Workers : /\ worker[w].d = None
                         /\ worker[w].at = IF w = 1 THEN "waiting" ELSE "none"
  BY DEF Init, Idle
<1>2. /\ In(slots) = {} /\ In(paused) = {} /\ In(urls) = {} /\ ~stopping /\ Made = {}
  BY DEF Init, In, stopping, Made
<1>3. Len(slots) = 0 /\ Len(paused) = 0 /\ Len(urls) = 0 /\ Cardinality(Made) = 0
  BY <1>2, FS_EmptySet DEF Init
<1>4. OnHand
  BY <1>1 DEF OnHand, Before, After
<1>5. Threads
  BY <1>1, <1>2, Sizes DEF Init, Threads
<1>6. Flagged /\ Pushes /\ Attended
  BY <1>2, <1>3 DEF Init, Flagged, Pushes, Attended
<1>7. CalmInv
  BY <1>1, <1>2, <1>3 DEF Init, CalmInv, Owned, ToldOnce, AbortsExplained
<1> QED BY <1>4, <1>5, <1>6, <1>7 DEF RInv

(* Every step keeps the invariant.                                           *)
LEMMA RStep == LInv /\ RInv /\ [Next]_vars => RInv'
<1> SUFFICES ASSUME LInv, RInv, [Next]_vars PROVE RInv'
  OBVIOUS
<1>0. LInv'
  BY LStep
<1>1. ASSUME NEW d \in Downloads,
             DownloadURL(d) \/ StopDownload(d) \/ Pause(d) \/ Resume(d)
      PROVE  RInv'
  BY <1>0, <1>1, RDownloadURL, RStopDownload, RPause, RResume
<1>2. ASSUME NEW w \in Workers, WorkerStep(w) PROVE RInv'
  BY <1>0, <1>2, RWake, RPop, RTransfer, RCheckStopping, RCheckPaused, RReport, RUnlist
     DEF WorkerStep
<1>3. ASSUME NEW w \in Workers, NEW d \in Downloads, ChainDownload(w, d) PROVE RInv'
  BY <1>0, <1>3, RChain
<1>4. ASSUME AddStep PROVE RInv'
  BY <1>0, <1>4, RAddThread, RPush DEF AddStep
<1>5. ASSUME AbortDownloads PROVE RInv'
  BY <1>0, <1>5, RAbort
<1>6. ASSUME StopStep PROVE RInv'
  BY <1>0, <1>6, RJoin, RDelete DEF StopStep
<1>7. CASE UNCHANGED vars
  <2>1. /\ In(slots)' = In(slots) /\ In(paused)' = In(paused) /\ In(urls)' = In(urls)
        /\ Calm' = Calm /\ stopping' = stopping /\ Made' = Made /\ Room' = Room
    BY <1>7 DEF vars, In, Calm, stopping, Made, Room
  <2>2. OnHand' /\ Threads' /\ Flagged' /\ Pushes' /\ Attended'
    BY <1>7, <2>1 DEF vars, RInv, OnHand, Threads, Flagged, Pushes, Attended
  <2>3. Calm => Owned' /\ ToldOnce' /\ AbortsExplained'
    BY <1>7, <2>1 DEF vars, RInv, CalmInv, Owned, ToldOnce, AbortsExplained
  <2> QED BY <2>1, <2>2, <2>3 DEF RInv, CalmInv
<1> QED BY <1>1, <1>2, <1>3, <1>4, <1>5, <1>6, <1>7 DEF Next

-----------------------------------------------------------------------------
(* What a calm world maps a download to.                                     *)
LEMMA StateIs ==
    ASSUME NEW d, Calm
    PROVE  /\ reports[d] # <<>> => /\ StateOf(d) = "answered"
                                   /\ AnswerTo(d) = Last(reports[d])
           /\ reports[d] = <<>> => /\ rec[d] = "new" => StateOf(d) = "new"
                                   /\ rec[d] = "deleted" => StateOf(d) = "dropped"
                                   /\ rec[d] = "live" =>
                                        StateOf(d) = IF d \in In(paused) THEN "paused"
                                                     ELSE "running"
                                   /\ AnswerTo(d) = None
BY DEF StateOf, AnswerTo

LEMMA StateWillBe ==
    ASSUME NEW d, Calm'
    PROVE  /\ reports'[d] # <<>> => /\ StateOf(d)' = "answered"
                                    /\ AnswerTo(d)' = Last(reports'[d])
           /\ reports'[d] = <<>> => /\ rec'[d] = "new" => StateOf(d)' = "new"
                                    /\ rec'[d] = "deleted" => StateOf(d)' = "dropped"
                                    /\ rec'[d] = "live" =>
                                         StateOf(d)' = IF d \in In(paused)' THEN "paused"
                                                       ELSE "running"
                                    /\ AnswerTo(d)' = None
BY DEF StateOf, AnswerTo

(* A download of which a step changes nothing that its receiver can tell.    *)
LEMMA Unseen ==
    ASSUME LInv, NEW d \in Downloads, Calm, Calm', reports'[d] = reports[d],
           \/ reports[d] # <<>>
           \/ rec'[d] = rec[d] /\ (d \in In(paused)' <=> d \in In(paused))
    PROVE  StateOf(d)' = StateOf(d) /\ AnswerTo(d)' = AnswerTo(d)
<1>1. rec[d] \in {"new", "live", "deleted"}
  BY Typed
<1>2. CASE reports[d] # <<>>
  BY <1>2, StateIs, StateWillBe
<1>3. CASE reports[d] = <<>>
  BY <1>1, <1>3, StateIs, StateWillBe
<1> QED BY <1>2, <1>3

(* A step that nobody can tell.                                              *)
LEMMA Stutters ==
    ASSUME \A d \in Downloads : StateOf(d)' = StateOf(d) /\ AnswerTo(d)' = AnswerTo(d),
           Calm' = Calm, Calm => asked' = asked /\ stopping' = stopping
    PROVE  UNCHANGED Request!vars
BY DEF Request!vars

(* The environment is the same for ever.                                     *)
LEMMA SameWorld == [Next]_vars => world' = world
<1> SUFFICES ASSUME [Next]_vars PROVE world' = world
  OBVIOUS
<1> USE DEF lists, queue, flags, stop, rest
<1>1. ASSUME NEW d \in Downloads,
             DownloadURL(d) \/ StopDownload(d) \/ Pause(d) \/ Resume(d)
      PROVE  world' = world
  BY <1>1 DEF DownloadURL, StopDownload, Pause, Resume
<1>2. ASSUME NEW w \in Workers, WorkerStep(w) PROVE world' = world
  BY <1>2 DEF WorkerStep, Wake, Pop, Transfer, CheckStopping, CheckPaused, Report,
              NotifyReturns, Unlist, Leave
<1>3. ASSUME NEW w \in Workers, NEW d \in Downloads, ChainDownload(w, d) PROVE world' = world
  BY <1>3 DEF ChainDownload
<1>4. ASSUME AddStep \/ AbortDownloads \/ StopStep PROVE world' = world
  BY <1>4 DEF AddStep, CountThreads, AddWorker, ResumeWorkers, PushAdded, AbortDownloads,
              StopStep, StopAndWait, JoinNext, DeleteListed
<1> QED BY <1>1, <1>2, <1>3, <1>4 DEF Next, vars

(* A new record is a request that starts.                                    *)
LEMMA StartStep ==
    ASSUME LInv, RInv, Calm, Calm', NEW d \in Downloads, rec[d] = "new",
           rec' = [rec EXCEPT ![d] = "live"],
           UNCHANGED <<paused, reports, asked, phase>>
    PROVE  Request!Next
<1>1. rec'[d] = "live" /\ \A e \in Downloads : e # d => rec'[e] = rec[e]
  BY DEF LInv, Types
<1>2. In(paused)' = In(paused) /\ stopping' = stopping
  BY DEF In, stopping
<1>3. StateOf(d) = "new" /\ StateOf(d)' = "running" /\ AnswerTo(d) = None /\ AnswerTo(d)' = None
  BY <1>1, <1>2, NewIsFree, StateIs, StateWillBe
<1>4. \A e \in Downloads : e # d => StateOf(e)' = StateOf(e) /\ AnswerTo(e)' = AnswerTo(e)
  BY <1>1, <1>2, Unseen
<1>5. Request!Start(d)
  BY <1>2, <1>3, <1>4 DEF Request!Start
<1> QED BY <1>5 DEF Request!Next

(* Pause and Resume.                                                         *)
LEMMA PauseStep ==
    ASSUME LInv, RInv, Calm, Calm', NEW d \in Downloads, Pause(d) PROVE Request!Next
<1> USE DEF queue, stop
<1>1. /\ ~stopping /\ stopping' = stopping /\ d \in In(slots)
      /\ \A w \in Holding(d) : worker[w].at \in {"working", "ended", "completing"}
      /\ UNCHANGED <<rec, reports, asked>>
  BY DEF Pause, stopping
<1>2. In(paused)' = In(paused) \cup {d}
  <2>1. paused \in Seq(Downloads) /\ paused' = Append(paused, d) /\ d # None
    BY Typed DEF Pause, LInv, Types
  <2> QED BY <2>1, AppendedEntries
<1>3. reports[d] = <<>>
  <2>1. ASSUME reports[d] # <<>> PROVE FALSE
    <3>1. PICK w \in Workers : worker[w].d = d
      BY <1>1, <2>1 DEF RInv, CalmInv, ToldOnce
    <3>2. worker[w].at \in After
      BY <2>1, <3>1, Typed DEF RInv, CalmInv, ToldOnce
    <3> QED BY <1>1, <3>1, <3>2 DEF Holding, After
  <2> QED BY <2>1
<1>4. rec[d] = "live" /\ d \notin In(paused)
  BY <1>1, Lists
<1>5. /\ StateOf(d) = "running" /\ StateOf(d)' = "paused"
      /\ AnswerTo(d) = None /\ AnswerTo(d)' = None
  BY <1>1, <1>2, <1>3, <1>4, StateIs, StateWillBe
<1>6. \A e \in Downloads : e # d => StateOf(e)' = StateOf(e) /\ AnswerTo(e)' = AnswerTo(e)
  BY <1>1, <1>2, Unseen
<1>7. Request!Pause(d)
  BY <1>1, <1>5, <1>6 DEF Request!Pause
<1> QED BY <1>7 DEF Request!Next

LEMMA ResumeStep ==
    ASSUME LInv, RInv, Calm, Calm', NEW d \in Downloads, Resume(d) PROVE Request!Next
<1> USE DEF queue, stop
<1>1. /\ ~stopping /\ stopping' = stopping /\ d \in In(paused) /\ asked' = asked \ {d}
      /\ UNCHANGED <<rec, reports>>
  BY DEF Resume, stopping
<1>2. In(paused)' = In(paused) \ {d}
  BY <1>1, UnpausedEntries DEF Resume
<1>3. rec[d] = "live" /\ reports[d] = <<>>
  BY <1>1, Lists DEF RInv, CalmInv, ToldOnce
<1>4. /\ StateOf(d) = "paused" /\ StateOf(d)' = "running"
      /\ AnswerTo(d) = None /\ AnswerTo(d)' = None
  BY <1>1, <1>2, <1>3, StateIs, StateWillBe
<1>5. \A e \in Downloads : e # d => StateOf(e)' = StateOf(e) /\ AnswerTo(e)' = AnswerTo(e)
  BY <1>1, <1>2, Unseen
<1>6. Request!Resume(d)
  BY <1>1, <1>4, <1>5 DEF Request!Resume
<1> QED BY <1>6 DEF Request!Next

(* StopDownload, of a download that runs or whose answer is on its way.      *)
LEMMA StopStepOf ==
    ASSUME LInv, RInv, Calm, Calm', NEW d \in Downloads, StopDownload(d) PROVE Request!Next
<1> USE DEF lists, stop
<1>1. /\ d \in In(slots) /\ asked' = asked \cup {d} /\ stopping' = stopping
      /\ In(paused)' = In(paused) /\ UNCHANGED <<rec, reports>>
  BY DEF StopDownload, stopping, In
<1>2. rec[d] = "live" /\ d \notin In(paused)
  BY <1>1, Lists
<1>3. StateOf(d) \in {"running", "answered"}
  BY <1>2, StateIs
<1>4. \A e \in Downloads : StateOf(e)' = StateOf(e) /\ AnswerTo(e)' = AnswerTo(e)
  BY <1>1, Unseen
<1>5. Request!Stop(d)
  BY <1>1, <1>3, <1>4 DEF Request!Stop
<1> QED BY <1>5 DEF Request!Next

(* The receiver is told for the first time, E_ABORT only for a reason.       *)
LEMMA AnswerStep ==
    ASSUME LInv, RInv, Calm, Calm', NEW w \in Workers, Report(w) PROVE Request!Next
<1> USE DEF lists, queue, flags, stop
<1> USE Typed, Entries
<1>a. PICK d : d = worker[w].d
  OBVIOUS
<1>0. PICK a \in Read(abortF, d) :
         reports' = [reports EXCEPT ![d] = Append(@, IF a THEN "E_ABORT" ELSE worker[w].hr)]
  BY <1>a DEF Report
<1>b. PICK result : result = IF a THEN "E_ABORT" ELSE worker[w].hr
  OBVIOUS
<1>1. /\ worker[w].at = "reporting" /\ d # None /\ d \in Downloads
      /\ phase \notin {"joined", "done"} /\ worker[w].hr \in Results
      /\ UNCHANGED <<rec, paused, asked, phase>>
  BY <1>a DEF Report, RInv, OnHand, Threads, Before, LInv, Answers
<1>2. result \in Results /\ reports[d] \in Seq(Results)
  BY <1>1, <1>b DEF Results, LInv, Types
<1>3. reports[d] = <<>> /\ rec[d] = "live" /\ d \notin In(paused)
  BY <1>1, <1>a DEF RInv, CalmInv, ToldOnce, Owned, After
<1>4. reports'[d] = <<result>> /\ \A e \in Downloads : e # d => reports'[e] = reports[e]
  <2>1. reports'[d] = Append(reports[d], result)
    BY <1>0, <1>1, <1>b DEF LInv, Types
  <2>2. Append(<<>>, result) = <<result>>
    OBVIOUS
  <2> QED BY <1>0, <1>3, <2>1, <2>2 DEF LInv, Types
<1>5. result = "E_ABORT" => d \in asked \/ stopping
  <2> SUFFICES ASSUME result = "E_ABORT", ~stopping PROVE d \in asked
    OBVIOUS
  <2>1. d \in In(slots)
    BY <1>1, <1>3, Lists
  <2>2. CASE a
    <3>1. abortF[d] = TRUE
      BY <1>0, <1>3, <2>2 DEF Read
    <3> QED BY <2>1, <3>1 DEF RInv, CalmInv, AbortsExplained
  <2>3. CASE ~a
    BY <1>1, <1>3, <1>a, <1>b, <2>3 DEF RInv, CalmInv, AbortsExplained
  <2> QED BY <2>2, <2>3
<1>6. In(paused)' = In(paused) /\ stopping' = stopping
  BY <1>1 DEF In, stopping
<1>7. reports'[d] # <<>> /\ Last(reports'[d]) = result
  BY <1>4 DEF Last
<1>8. /\ StateOf(d) = "running" /\ StateOf(d)' = "answered"
      /\ AnswerTo(d)' = result
  BY <1>3, <1>7, StateIs, StateWillBe
<1>9. \A e \in Downloads : e # d => StateOf(e)' = StateOf(e) /\ AnswerTo(e)' = AnswerTo(e)
  BY <1>1, <1>4, <1>6, Unseen
<1>10. Request!Answer(d, result)
  <2>1. /\ Calm' = Calm /\ asked' = asked
    BY <1>1
  <2>2. [e \in Downloads |-> StateOf(e)]'
          = [[e \in Downloads |-> StateOf(e)] EXCEPT ![d] = "answered"]
    BY <1>1, <1>8, <1>9
  <2>3. [e \in Downloads |-> AnswerTo(e)]'
          = [[e \in Downloads |-> AnswerTo(e)] EXCEPT ![d] = result]
    BY <1>1, <1>8, <1>9
  <2> QED BY <1>1, <1>5, <1>6, <1>8, <2>1, <2>2, <2>3 DEF Request!Answer
<1> QED BY <1>1, <1>2, <1>10 DEF Request!Next

(* AbortDownloads answers the paused requests.                               *)
LEMMA ShutStep ==
    ASSUME LInv, RInv, Calm, Calm', AbortDownloads PROVE Request!Next
<1> USE DEF lists
<1> USE Typed, Entries
<1>1. /\ ~stopping /\ stopping' /\ UNCHANGED <<paused, asked>>
      /\ In(paused)' = In(paused)
  BY DEF AbortDownloads, stopping, In
<1>2. ASSUME NEW d \in In(paused)
      PROVE  /\ StateOf(d) = "paused" /\ StateOf(d)' = "answered" /\ AnswerTo(d)' = "E_ABORT"
  <2>1. d \in Downloads /\ rec[d] = "live" /\ reports[d] = <<>>
    BY <1>1, Lists DEF RInv, CalmInv, ToldOnce
  <2>2. reports'[d] = Append(<<>>, "E_ABORT")
    BY <2>1 DEF AbortDownloads, Told
  <2>3. Append(<<>>, "E_ABORT") = <<"E_ABORT">>
    OBVIOUS
  <2>4. reports'[d] # <<>> /\ Last(reports'[d]) = "E_ABORT"
    BY <2>2, <2>3 DEF Last
  <2> QED BY <2>1, <2>4, StateIs, StateWillBe
<1>3. ASSUME NEW d \in Downloads, d \notin In(paused)
      PROVE  StateOf(d) # "paused" /\ StateOf(d)' = StateOf(d) /\ AnswerTo(d)' = AnswerTo(d)
  <2>1. reports'[d] = reports[d] /\ rec'[d] = rec[d]
    BY <1>3 DEF AbortDownloads, Told
  <2>2. StateOf(d)' = StateOf(d) /\ AnswerTo(d)' = AnswerTo(d)
    BY <1>1, <2>1, Unseen
  <2>3. StateOf(d) # "paused"
    BY <1>3, StateIs
  <2> QED BY <2>2, <2>3
<1>4. Request!Shut
  BY <1>1, <1>2, <1>3 DEF Request!Shut
<1> QED BY <1>4 DEF Request!Next

(* The end of Stop drops what still runs.                                    *)
LEMMA DropStep ==
    ASSUME LInv, RInv, Calm, Calm', DeleteListed PROVE Request!Next
<1> USE DEF rest
<1> USE Typed, Entries
<1>1. /\ stopping /\ stopping' /\ UNCHANGED <<asked, reports>>
      /\ In(paused)' = {}
  BY DEF DeleteListed, stopping, In
<1>2. \A d \in Downloads : rec'[d] = IF d \in In(slots) THEN "deleted" ELSE rec[d]
  BY DEF DeleteListed
<1>3. ASSUME NEW d \in Downloads
      PROVE  /\ StateOf(d)' = IF StateOf(d) = "running" THEN "dropped" ELSE StateOf(d)
             /\ AnswerTo(d)' = AnswerTo(d)
  <2>1. CASE reports[d] # <<>>
    BY <1>1, <2>1, StateIs, StateWillBe
  <2>2. CASE reports[d] = <<>> /\ d \in In(slots)
    <3>1. rec[d] = "live" /\ rec'[d] = "deleted" /\ d \notin In(paused)
      BY <1>2, <2>2, Lists
    <3> QED BY <1>1, <2>2, <3>1, StateIs, StateWillBe
  <2>3. CASE reports[d] = <<>> /\ d \notin In(slots)
    <3>1. d \notin In(paused)
      BY <1>1, <2>3 DEF RInv, CalmInv, ToldOnce
    <3>2. rec[d] # "live" /\ rec'[d] = rec[d]
      BY <1>2, <2>3, <3>1, Lists
    <3> QED BY <1>1, <2>3, <3>2, StateIs, StateWillBe
  <2> QED BY <2>1, <2>2, <2>3
<1>4. Request!Drop
  BY <1>1, <1>3 DEF Request!Drop
<1> QED BY <1>4 DEF Request!Next

(* Every step is a step of Requests, or nobody can tell.                     *)
LEMMA RefinementStep ==
    ASSUME LInv, RInv, [Next]_vars PROVE [Request!Next]_Request!vars
<1> USE DEF lists, queue, flags, stop, rest
<1> USE Typed, Entries
<1>0. Calm' = Calm
  BY SameWorld DEF Calm
<1>1. CASE ~Calm
  <2>1. \A d \in Downloads : /\ StateOf(d) = "new" /\ StateOf(d)' = "new"
                             /\ AnswerTo(d) = None /\ AnswerTo(d)' = None
    BY <1>0, <1>1 DEF StateOf, AnswerTo
  <2> QED BY <1>0, <1>1, <2>1, Stutters
<1>2. CASE Calm
  <2> USE <1>0, <1>2
  <2>0. ASSUME UNCHANGED <<paused, rec, reports, asked>>, stopping' = stopping
        PROVE  UNCHANGED Request!vars
    <3>1. In(paused)' = In(paused)
      BY <2>0 DEF In
    <3>2. \A d \in Downloads : StateOf(d)' = StateOf(d) /\ AnswerTo(d)' = AnswerTo(d)
      BY <2>0, <3>1, Unseen
    <3> QED BY <2>0, <3>2, Stutters
  <2>1. ASSUME NEW d \in Downloads, DownloadURL(d) PROVE Request!Next
    BY <2>1, StartStep DEF DownloadURL
  <2>2. ASSUME NEW w \in Workers, NEW d \in Downloads, ChainDownload(w, d) PROVE Request!Next
    BY <2>2, StartStep DEF ChainDownload
  <2>3. ASSUME NEW d \in Downloads, StopDownload(d) \/ Pause(d) \/ Resume(d)
        PROVE  Request!Next
    BY <2>3, StopStepOf, PauseStep, ResumeStep
  <2>4. ASSUME NEW w \in Workers, WorkerStep(w)
        PROVE  Request!Next \/ UNCHANGED Request!vars
    <3>1. CASE Report(w)
      BY <3>1, AnswerStep
    <3>2. CASE Unlist(w)
      <4>1. /\ UNCHANGED <<paused, reports, asked>> /\ stopping' = stopping
            /\ worker[w].at = "reported" /\ worker[w].d # None
        BY <3>2 DEF Unlist, stopping, RInv, OnHand, After
      <4>2. reports[worker[w].d] # <<>>
        BY <4>1 DEF RInv, CalmInv, ToldOnce, After
      <4>3. \A d \in Downloads : d # worker[w].d => rec'[d] = rec[d]
        BY <3>2 DEF Unlist, LInv, Types
      <4>4. In(paused)' = In(paused)
        BY <4>1 DEF In
      <4>5. \A d \in Downloads : StateOf(d)' = StateOf(d) /\ AnswerTo(d)' = AnswerTo(d)
        BY <4>1, <4>2, <4>3, <4>4, Unseen
      <4> QED BY <4>1, <4>5, Stutters
    <3>3. CASE Wake(w) \/ Pop(w) \/ Transfer(w) \/ CheckStopping(w) \/ CheckPaused(w)
                 \/ NotifyReturns(w) \/ Leave(w)
      <4>1. UNCHANGED <<paused, rec, reports, asked>> /\ stopping' = stopping
        BY <3>3 DEF Wake, Pop, Transfer, CheckStopping, CheckPaused, NotifyReturns, Leave,
                    stopping
      <4> QED BY <4>1, <2>0
    <3> QED BY <2>4, <3>1, <3>2, <3>3 DEF WorkerStep
  <2>5. CASE AddStep
    BY <2>0, <2>5 DEF AddStep, CountThreads, AddWorker, ResumeWorkers, PushAdded, stopping
  <2>6. CASE AbortDownloads
    BY <2>6, ShutStep
  <2>7. CASE StopAndWait \/ JoinNext
    BY <2>0, <2>7 DEF StopAndWait, JoinNext, stopping
  <2>8. CASE DeleteListed
    BY <2>8, DropStep
  <2>9. CASE UNCHANGED vars
    BY <2>0, <2>9 DEF vars, stopping
  <2> QED BY <2>1, <2>2, <2>3, <2>4, <2>5, <2>6, <2>7, <2>8, <2>9 DEF Next, StopStep
<1> QED BY <1>1, <1>2

(* FAsyncDownload keeps its promises to the receivers: every behaviour,      *)
(* seen through reports, m_aPaused, and whether the program stops, is one of *)
(* Requests.  At most one answer to a request, none while it is paused,      *)
(* E_ABORT only of what somebody stopped or when the program stops.          *)
THEOREM PromisesKept == Spec => ImplementsRequests
<1>1. Init => Request!Init
  <2> SUFFICES ASSUME Init PROVE Request!Init
    OBVIOUS
  <2>1. /\ ~stopping /\ asked = {}
        /\ \A d \in Downloads : StateOf(d) = "new" /\ AnswerTo(d) = None
    BY DEF Init, StateOf, AnswerTo, stopping
  <2> QED BY <2>1 DEF Request!Init
<1> QED BY <1>1, LInit, LStep, RInit, RStep, RefinementStep, PTL
        DEF Spec, ImplementsRequests, Request!Spec

(* In a calm world a record is held by one worker and has not been deleted   *)
(* under it, except a late caller's when Stop is over.                       *)
THEOREM OneOwner == Spec => []WorkersHoldTheirOwn
<1>1. ASSUME LInv, RInv PROVE WorkersHoldTheirOwn
  <2> SUFFICES ASSUME Calm, NEW w \in Workers, worker[w].d # None
               PROVE  /\ Holding(worker[w].d) = {w}
                      /\ rec[worker[w].d] = "live" \/ (world.late /\ phase = "done")
    BY DEF WorkersHoldTheirOwn
  <2>1. rec[worker[w].d] = "live" \/ (world.late /\ phase = "done")
    BY <1>1 DEF RInv, CalmInv, Owned
  <2>2. Holding(worker[w].d) = {w}
    BY <1>1 DEF RInv, CalmInv, Owned, Holding
  <2> QED BY <2>1, <2>2
<1> QED BY <1>1, LInit, LStep, RInit, RStep, PTL DEF Spec

(* m_Urls has room for a push of every download and one more for each Pause. *)
RoomForAll == \A w \in Worlds : Capacity >= Cardinality(Downloads) + w.pauses

(* Then, in no world, calm or not, is anything in m_aDownloads left without  *)
(* a worker before Stop: it is in m_Urls, in the hands of a worker or about  *)
(* to be pushed.                                                             *)
THEOREM NothingStranded == RoomForAll /\ Spec => []ListsOwnRecords
<1>1. Init => world \in Worlds
  BY DEF Init
<1>2. world \in Worlds /\ [Next]_vars => (world \in Worlds)'
  BY SameWorld
<1>3. RoomForAll /\ LInv /\ RInv /\ world \in Worlds => NoneStranded
  <2> SUFFICES ASSUME RoomForAll, LInv, RInv, world \in Worlds PROVE NoneStranded
    OBVIOUS
  <2>1. Room
    BY DEF Room, RoomForAll
  <2> QED BY <2>1 DEF NoneStranded, Stranded, Holding, RInv, Attended
<1>4. RoomForAll /\ [Next]_vars => RoomForAll'
  BY DEF RoomForAll
<1>5. RoomForAll /\ Spec => []NoneStranded
  BY <1>1, <1>2, <1>3, <1>4, LInit, LStep, RInit, RStep, PTL DEF Spec
<1> QED BY <1>5, EveryRecordInOneList, PTL DEF ListsOwnRecords
=============================================================================
