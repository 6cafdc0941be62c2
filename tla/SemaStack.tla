------------------------------ MODULE SemaStack ------------------------------
(***************************************************************************)
(* FFastSyncSemaStack (common/FTemplates.h): the bounded LIFO that every   *)
(* asynchronous hand-off of the program goes through: download alerts,     *)
(* HTTP jobs, quick HTTP tasks, dispatcher requests.                       *)
(*                                                                         *)
(* A stack of at most Capacity items lives under a critical section; a     *)
(* counting semaphore says how many items a consumer may fetch.  Neither   *)
(* Push nor PopWait is atomic: Push stores under the lock and releases the *)
(* semaphore after it, PopWait takes a permit first and locks later.  So   *)
(* the two counts disagree in between, after a Push that found the stack   *)
(* full (it releases all the same) and after a Clear (which forgets the    *)
(* items and keeps their permits).                                         *)
(***************************************************************************)
EXTENDS Integers, Sequences, FiniteSets

CONSTANTS Producers,   \* threads that call Push
          Consumers,   \* threads that loop on PopWait
          Items,       \* values handed over
          Capacity,    \* SetSize(nSize)
          MaxPermits,  \* SYNC_MAX_SEM_COUNT
          MaxPushes    \* bound of the model: calls of Push

ASSUME SemaStackAssumption ==
    /\ IsFiniteSet(Producers)
    /\ IsFiniteSet(Consumers)
    /\ Capacity \in Nat
    /\ MaxPermits \in Nat
    /\ Capacity <= MaxPermits
    /\ MaxPushes \in Nat

VARIABLES
    stack,    \* m_Stack: m_kArray[0 .. m_kIndex-1], the top is the last element
    permits,  \* the count of m_Sema
    prod,     \* where each producer is in Push
    cons,     \* where each consumer is in PopWait
    pushes,   \* calls of Push so far (bounds the model)
    lost      \* ghost: permits that will find no item (see Accounting)

vars == <<stack, permits, prod, cons, pushes, lost>>

Releasing == {p \in Producers : prod[p] = "releasing"}
Woken     == {c \in Consumers : cons[c] = "woken"}

TypeOK ==
    /\ stack \in Seq(Items)
    /\ Len(stack) <= Capacity
    /\ permits \in 0..MaxPermits
    /\ prod \in [Producers -> {"idle", "releasing"}]
    /\ cons \in [Consumers -> {"waiting", "woken", "stopped"}]
    /\ pushes \in 0..MaxPushes
    /\ lost \in Nat

Init ==
    /\ stack = <<>>
    /\ permits = 0
    /\ prod = [p \in Producers |-> "idle"]
    /\ cons = [c \in Consumers |-> "waiting"]
    /\ pushes = 0
    /\ lost = 0

-----------------------------------------------------------------------------
(* Mutant of PushLocked: the stack grows beyond its size.                    *)
PushUnbounded(p, v) ==
    /\ prod[p] = "idle"
    /\ pushes < MaxPushes
    /\ pushes' = pushes + 1
    /\ prod' = [prod EXCEPT ![p] = "releasing"]
    /\ stack' = Append(stack, v)
    /\ UNCHANGED <<permits, cons, lost>>

(* Push, first half: Lock; m_Stack.Push(V); Unlock.  A full stack refuses V. *)
PushLocked(p, v) ==
    /\ prod[p] = "idle"
    /\ pushes < MaxPushes
    /\ pushes' = pushes + 1
    /\ prod' = [prod EXCEPT ![p] = "releasing"]
    /\ \/ /\ Len(stack) < Capacity
          /\ stack' = Append(stack, v)
          /\ lost' = lost
       \/ /\ Len(stack) >= Capacity
          /\ stack' = stack
          /\ lost' = lost + 1
    /\ UNCHANGED <<permits, cons>>

(* Mutant of PushRelease: only the first of several items is signalled.      *)
ReleaseWhenIdle(p) ==
    /\ prod[p] = "releasing"
    /\ prod' = [prod EXCEPT ![p] = "idle"]
    /\ permits' = IF permits = 0 THEN 1 ELSE permits
    /\ UNCHANGED <<stack, cons, pushes, lost>>

(* Push, second half: m_Sema.Release(), whatever m_Stack.Push returned.      *)
(* ReleaseSemaphore refuses to count beyond the maximum.                     *)
PushRelease(p) ==
    /\ prod[p] = "releasing"
    /\ prod' = [prod EXCEPT ![p] = "idle"]
    /\ \/ /\ permits < MaxPermits
          /\ permits' = permits + 1
          /\ lost' = lost
       \/ /\ permits = MaxPermits
          /\ permits' = permits
          /\ lost' = lost - 1
    /\ UNCHANGED <<stack, cons, pushes>>

(* PopWait, first half: m_Sema.Wait returned WAIT_OBJECT_0.                  *)
Wake(c) ==
    /\ cons[c] = "waiting"
    /\ permits > 0
    /\ permits' = permits - 1
    /\ cons' = [cons EXCEPT ![c] = "woken"]
    /\ UNCHANGED <<stack, prod, pushes, lost>>

(* Mutant of PopLocked: a queue, not a stack.                                *)
PopOldest(c) ==
    /\ cons[c] = "woken"
    /\ cons' = [cons EXCEPT ![c] = "waiting"]
    /\ \/ stack # <<>> /\ stack' = Tail(stack) /\ lost' = lost
       \/ stack = <<>> /\ stack' = stack /\ lost' = lost - 1
    /\ UNCHANGED <<permits, prod, pushes>>

(* PopWait, second half: lock and pop; bPopped says whether there was an     *)
(* item.  The consumer deals with it and waits again.                        *)
PopLocked(c) ==
    /\ cons[c] = "woken"
    /\ cons' = [cons EXCEPT ![c] = "waiting"]
    /\ \/ /\ stack # <<>>
          /\ stack' = SubSeq(stack, 1, Len(stack) - 1)
          /\ lost' = lost
       \/ /\ stack = <<>>
          /\ stack' = stack
          /\ lost' = lost - 1
    /\ UNCHANGED <<permits, prod, pushes>>

(* Mutant of Clear: the permits go too, also those of a Push under way.      *)
ClearWithPermits ==
    /\ stack # <<>>
    /\ stack' = <<>>
    /\ permits' = 0
    /\ lost' = lost + Len(stack)
    /\ UNCHANGED <<prod, cons, pushes>>

(* Clear: m_kIndex = 0 under the lock; the semaphore keeps its count.        *)
Clear ==
    /\ stack # <<>>
    /\ stack' = <<>>
    /\ lost' = lost + Len(stack)
    /\ UNCHANGED <<permits, prod, cons, pushes>>

(* StopThread: the APC ends the alertable wait, the thread leaves its loop.  *)
StopConsumer(c) ==
    /\ cons[c] = "waiting"
    /\ cons' = [cons EXCEPT ![c] = "stopped"]
    /\ UNCHANGED <<stack, permits, prod, pushes, lost>>

Next ==
    \/ \E p \in Producers : (\E v \in Items : PushLocked(p, v)) \/ PushRelease(p)
    \/ \E c \in Consumers : Wake(c) \/ PopLocked(c) \/ StopConsumer(c)
    \/ Clear

(* A thread inside Push or holding a permit goes on; a consumer blocked on a *)
(* signalled semaphore is eventually scheduled.  Nobody has to push, clear   *)
(* or stop.                                                                  *)
Fairness ==
    /\ \A p \in Producers : WF_vars(PushRelease(p))
    /\ \A c \in Consumers : WF_vars(Wake(c)) /\ WF_vars(PopLocked(c))

Spec == Init /\ [][Next]_vars

FairSpec == Spec /\ Fairness

-----------------------------------------------------------------------------
(* Permits, those still to be released and those already taken, cover the    *)
(* items exactly, but for the permits that a refused Push or a Clear left    *)
(* behind (common/FTemplates.h:92-117).                                      *)
Accounting ==
    permits + Cardinality(Releasing) + Cardinality(Woken) = Len(stack) + lost

(* No lost wake-up: as long as an item is in the stack, a permit for it is   *)
(* in the semaphore, about to be released, or held by a consumer on its way  *)
(* to the lock.  Clear, refused pushes, the limit of the semaphore and       *)
(* stopped consumers never strand an item.                                   *)
NoLostWakeup ==
    stack # <<>> => permits > 0 \/ Releasing # {} \/ Woken # {}

(* A consumer is woken for nothing (bPopped == false) only when an earlier   *)
(* Push was refused or an earlier Clear dropped items: the condition under   *)
(* which the HTTP worker reaches its ATLASSERT(0)                            *)
(* (LiberTV/FAsyncHttpDownload.cpp:34-38).                                   *)
FruitlessWakeupsAreOwed ==
    [][ \A c \in Consumers :
            PopLocked(c) /\ stack = <<>> => lost > 0 ]_vars

(* What was pushed is fetched (or cleared) as long as one consumer lives.    *)
Drains ==
    stack # <<>> ~> (stack = <<>> \/ \A c \in Consumers : cons[c] = "stopped")

(* The two halves of Push and of PopWait, in any order of any threads, hand  *)
(* items over as HandOff says: none is lost or doubled, the last one put is  *)
(* the first one taken, and an empty-handed PopWait is one that an earlier   *)
(* refusal or Clear left behind (common/FTemplates.h:92-134).                *)
HandedOver ==
    INSTANCE HandOff WITH box <- stack, owed <- lost,
                          open <- \E c \in Consumers : cons[c] # "stopped"

ImplementsHandOff == HandedOver!Spec
=============================================================================
