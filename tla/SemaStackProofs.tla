--------------------------- MODULE SemaStackProofs ---------------------------
(***************************************************************************)
(* Proofs about SemaStack: its type invariant, the accounting of permits   *)
(* against items, and from it the absence of lost wake-ups, for any finite *)
(* sets of threads and any capacity.                                       *)
(***************************************************************************)
EXTENDS SemaStack, FiniteSetTheorems, SequenceTheorems, TLAPS

(* The sets counted by Accounting are finite.                                *)
LEMMA CountsAreNat ==
    /\ IsFiniteSet(Releasing) /\ Cardinality(Releasing) \in Nat
    /\ IsFiniteSet(Woken)     /\ Cardinality(Woken) \in Nat
<1>1. Releasing \subseteq Producers /\ Woken \subseteq Consumers
  BY DEF Releasing, Woken
<1>2. IsFiniteSet(Releasing) /\ IsFiniteSet(Woken)
  BY <1>1, SemaStackAssumption, FS_Subset
<1> QED
  BY <1>2, FS_CardinalityType

(* A producer that enters (leaves) the second half of Push adds (removes)    *)
(* one to the releasing producers.                                           *)
LEMMA ProducerEnters ==
    ASSUME TypeOK, NEW p \in Producers, prod[p] = "idle",
           prod' = [prod EXCEPT ![p] = "releasing"]
    PROVE  Cardinality(Releasing') = Cardinality(Releasing) + 1
<1>1. Releasing' = Releasing \cup {p} /\ p \notin Releasing
  BY DEF TypeOK, Releasing
<1> QED
  BY <1>1, CountsAreNat, FS_AddElement

LEMMA ProducerLeaves ==
    ASSUME TypeOK, NEW p \in Producers, prod[p] = "releasing",
           prod' = [prod EXCEPT ![p] = "idle"]
    PROVE  Cardinality(Releasing') = Cardinality(Releasing) - 1
<1>1. Releasing' = Releasing \ {p} /\ p \in Releasing
  BY DEF TypeOK, Releasing
<1> QED
  BY <1>1, CountsAreNat, FS_RemoveElement

(* The same for a consumer between its permit and the lock.                  *)
LEMMA ConsumerEnters ==
    ASSUME TypeOK, NEW c \in Consumers, cons[c] = "waiting",
           cons' = [cons EXCEPT ![c] = "woken"]
    PROVE  Cardinality(Woken') = Cardinality(Woken) + 1
<1>1. Woken' = Woken \cup {c} /\ c \notin Woken
  BY DEF TypeOK, Woken
<1> QED
  BY <1>1, CountsAreNat, FS_AddElement

LEMMA ConsumerLeaves ==
    ASSUME TypeOK, NEW c \in Consumers, cons[c] = "woken",
           cons' = [cons EXCEPT ![c] = "waiting"]
    PROVE  /\ Cardinality(Woken') = Cardinality(Woken) - 1
           /\ Cardinality(Woken) > 0
<1>1. Woken' = Woken \ {c} /\ c \in Woken
  BY DEF TypeOK, Woken
<1>2. Cardinality(Woken') = Cardinality(Woken) - 1
  BY <1>1, CountsAreNat, FS_RemoveElement
<1>3. Cardinality(Woken) # 0
  BY <1>1, CountsAreNat, FS_EmptySet
<1> QED
  BY <1>2, <1>3, CountsAreNat

-----------------------------------------------------------------------------
(* The inductive invariant.  TypeOK alone is not inductive: lost decreases,  *)
(* and that it stays in Nat follows from the accounting.                     *)
IInv == TypeOK /\ Accounting

LEMMA InitIInv == Init => IInv
<1> SUFFICES ASSUME Init PROVE IInv
  OBVIOUS
<1>1. TypeOK
  BY SemaStackAssumption DEF Init, TypeOK
<1>2. Releasing = {} /\ Woken = {}
  BY DEF Init, Releasing, Woken
<1>3. Accounting
  BY <1>2, FS_EmptySet DEF Init, Accounting
<1> QED
  BY <1>1, <1>3 DEF IInv

LEMMA NextIInv == IInv /\ [Next]_vars => IInv'
<1> SUFFICES ASSUME IInv, [Next]_vars PROVE IInv'
  OBVIOUS
<1> USE SemaStackAssumption, CountsAreNat DEF IInv
<1>a. Len(stack) \in Nat
  BY LenProperties DEF TypeOK
<1> USE <1>a
<1>1. ASSUME NEW p \in Producers, NEW v \in Items, PushLocked(p, v)
      PROVE  IInv'
  <2>1. Cardinality(Releasing') = Cardinality(Releasing) + 1
    BY <1>1, ProducerEnters DEF PushLocked
  <2>2. Woken' = Woken
    BY <1>1 DEF PushLocked, Woken
  <2>3. CASE Len(stack) < Capacity /\ stack' = Append(stack, v) /\ lost' = lost
    <3>1. stack' \in Seq(Items) /\ Len(stack') = Len(stack) + 1
      BY <2>3, AppendProperties DEF TypeOK
    <3>2. TypeOK'
      BY <1>1, <2>3, <3>1 DEF PushLocked, TypeOK
    <3>3. Accounting'
      <4>1. permits' = permits /\ lost' = lost
        BY <1>1, <2>3 DEF PushLocked
      <4> QED
        BY <2>1, <2>2, <3>1, <4>1 DEF Accounting, TypeOK
    <3> QED
      BY <3>2, <3>3
  <2>4. CASE Len(stack) >= Capacity /\ stack' = stack /\ lost' = lost + 1
    <3>1. TypeOK'
      BY <1>1, <2>4 DEF PushLocked, TypeOK
    <3>2. Accounting'
      BY <1>1, <2>1, <2>2, <2>4 DEF PushLocked, Accounting, TypeOK
    <3> QED
      BY <3>1, <3>2
  <2> QED
    BY <1>1, <2>3, <2>4 DEF PushLocked
<1>2. ASSUME NEW p \in Producers, PushRelease(p)
      PROVE  IInv'
  <2>1. Cardinality(Releasing') = Cardinality(Releasing) - 1
    BY <1>2, ProducerLeaves DEF PushRelease
  <2>2. Woken' = Woken
    BY <1>2 DEF PushRelease, Woken
  <2>3. Cardinality(Releasing') \in Nat 
    <3>1. Releasing' \subseteq Producers
      BY DEF Releasing
    <3> QED
      BY <3>1, FS_Subset, FS_CardinalityType
  <2>4. CASE permits < MaxPermits /\ permits' = permits + 1 /\ lost' = lost
    BY <1>2, <2>1, <2>2, <2>4 DEF PushRelease, TypeOK, Accounting
  <2>5. CASE permits = MaxPermits /\ permits' = permits /\ lost' = lost - 1
    <3>1. Accounting'
      BY <1>2, <2>1, <2>2, <2>3, <2>5 DEF PushRelease, TypeOK, Accounting
    <3>2. lost' \in Nat
      BY <1>2, <2>1, <2>3, <2>5 DEF PushRelease, TypeOK, Accounting
    <3>3. TypeOK'
      BY <1>2, <2>5, <3>2 DEF PushRelease, TypeOK
    <3> QED
      BY <3>1, <3>3
  <2> QED
    BY <1>2, <2>4, <2>5 DEF PushRelease
<1>3. ASSUME NEW c \in Consumers, Wake(c)
      PROVE  IInv'
  <2>1. Cardinality(Woken') = Cardinality(Woken) + 1
    BY <1>3, ConsumerEnters DEF Wake
  <2>2. Releasing' = Releasing
    BY <1>3 DEF Wake, Releasing
  <2>3. TypeOK'
    BY <1>3 DEF Wake, TypeOK
  <2>4. Accounting'
    BY <1>3, <2>1, <2>2 DEF Wake, Accounting, TypeOK
  <2> QED
    BY <2>3, <2>4
<1>4. ASSUME NEW c \in Consumers, PopLocked(c)
      PROVE  IInv'
  <2>1. /\ Cardinality(Woken') = Cardinality(Woken) - 1
        /\ Cardinality(Woken) > 0
    BY <1>4, ConsumerLeaves DEF PopLocked
  <2>2. Releasing' = Releasing
    BY <1>4 DEF PopLocked, Releasing
  <2>3. CASE /\ stack # <<>> /\ lost' = lost
             /\ stack' = SubSeq(stack, 1, Len(stack) - 1)
    <3>1. stack' \in Seq(Items) /\ Len(stack') = Len(stack) - 1
      <4>1. Len(stack) # 0 /\ Len(stack) \in Nat
        BY <2>3, EmptySeq, LenProperties DEF TypeOK
      <4>2. \A i \in 1..(Len(stack) - 1) : stack[i] \in Items
        BY <4>1, ElementOfSeq DEF TypeOK
      <4> DEFINE n == Len(stack) - 1
      <4>3. n \in Nat
        BY <4>1
      <4>4. \A i \in 1..n : stack[i] \in Items
        BY <4>2
      <4> HIDE DEF n
      <4>5. 1 \in Int /\ n \in Int
        BY <4>3
      <4>6. /\ SubSeq(stack, 1, n) \in Seq(Items)
            /\ Len(SubSeq(stack, 1, n)) = IF 1 <= n THEN n - 1 + 1 ELSE 0
        BY <4>4, <4>5, SubSeqProperties
      <4>7. Len(SubSeq(stack, 1, n)) = n
        BY <4>3, <4>6
      <4> QED
        BY <2>3, <4>6, <4>7 DEF n
    <3>2. TypeOK'
      BY <1>4, <3>1, <2>3 DEF PopLocked, TypeOK
    <3>3. Accounting'
      <4>1. permits' = permits /\ lost' = lost
        BY <1>4, <2>3 DEF PopLocked
      <4> QED
        BY <2>1, <2>2, <3>1, <4>1, SMTT(30) DEF Accounting, TypeOK
    <3> QED
      BY <3>2, <3>3
  <2>4. CASE stack = <<>> /\ stack' = stack /\ lost' = lost - 1
    <3>1. lost > 0
      BY <2>1, <2>4 DEF Accounting, TypeOK
    <3>2. TypeOK'
      BY <1>4, <2>4, <3>1 DEF PopLocked, TypeOK
    <3>3. Accounting'
      BY <1>4, <2>1, <2>2, <2>4 DEF PopLocked, Accounting, TypeOK
    <3> QED
      BY <3>2, <3>3
  <2> QED
    BY <1>4, <2>3, <2>4 DEF PopLocked
<1>5. ASSUME NEW c \in Consumers, StopConsumer(c)
      PROVE  IInv'
  <2>1. Releasing' = Releasing /\ Woken' = Woken
    BY <1>5 DEF StopConsumer, Releasing, Woken, TypeOK
  <2> QED
    BY <1>5, <2>1 DEF StopConsumer, TypeOK, Accounting
<1>6. CASE Clear
  <2>1. Releasing' = Releasing /\ Woken' = Woken
    BY <1>6 DEF Clear, Releasing, Woken
  <2>2. Len(stack) \in Nat /\ Len(stack') = 0 /\ stack' \in Seq(Items)
    BY <1>6 DEF Clear, TypeOK
  <2> QED
    BY <1>6, <2>1, <2>2 DEF Clear, TypeOK, Accounting
<1>7. CASE UNCHANGED vars
  BY <1>7 DEF vars, TypeOK, Accounting, Releasing, Woken
<1> QED
  BY <1>1, <1>2, <1>3, <1>4, <1>5, <1>6, <1>7 DEF Next

-----------------------------------------------------------------------------
(* Every reachable state is well typed; in particular the ghost count lost   *)
(* is never negative and the stack never exceeds its array.                  *)
THEOREM TypeCorrect == Spec => []TypeOK
<1>1. IInv => TypeOK
  BY DEF IInv
<1> QED
  BY InitIInv, NextIInv, <1>1, PTL DEF Spec

(* Permits and items balance in every reachable state.                       *)
THEOREM AccountingHolds == Spec => []Accounting
<1>1. IInv => Accounting
  BY DEF IInv
<1> QED
  BY InitIInv, NextIInv, <1>1, PTL DEF Spec

(* No interleaving of Push, PopWait, Clear and StopThread strands an item.   *)
THEOREM NoWakeupIsLost == Spec => []NoLostWakeup
<1>1. IInv => NoLostWakeup
  <2> SUFFICES ASSUME IInv, stack # <<>>,
                      permits = 0, Releasing = {}, Woken = {}
               PROVE  FALSE
    BY DEF IInv, NoLostWakeup, TypeOK
  <2>1. Cardinality(Releasing) = 0 /\ Cardinality(Woken) = 0
    BY FS_EmptySet
  <2>2. Len(stack) \in Nat /\ Len(stack) # 0
    BY EmptySeq DEF IInv, TypeOK
  <2> QED
    BY <2>1, <2>2 DEF IInv, TypeOK, Accounting
<1> QED
  BY InitIInv, NextIInv, <1>1, PTL DEF Spec

(* A consumer that wakes to an empty stack pays for an earlier refused Push  *)
(* or Clear: without those, the assertion of the HTTP worker is unreachable. *)
THEOREM FruitlessWakeupsExplained == Spec => FruitlessWakeupsAreOwed
<1>1. IInv /\ [Next]_vars =>
        [\A c \in Consumers : PopLocked(c) /\ stack = <<>> => lost > 0]_vars
  <2> SUFFICES ASSUME IInv, NEW c \in Consumers, PopLocked(c), stack = <<>>
               PROVE  lost > 0
    OBVIOUS
  <2>1. Cardinality(Woken) > 0
    BY ConsumerLeaves DEF IInv, PopLocked
  <2> QED
    BY <2>1, CountsAreNat DEF IInv, TypeOK, Accounting
<1> QED
  BY InitIInv, NextIInv, <1>1, PTL DEF Spec, FruitlessWakeupsAreOwed

-----------------------------------------------------------------------------
(* Each step is a step of HandOff, or leaves its state alone.  The invariant *)
(* is needed twice: a full stack holds exactly Capacity items, and a permit  *)
(* that is dropped or taken in vain was owed.                                *)
LEMMA StepHandsOver == IInv /\ [Next]_vars => [HandedOver!Next]_(HandedOver!vars)
<1> SUFFICES ASSUME IInv, [Next]_vars
             PROVE  HandedOver!Next \/ UNCHANGED HandedOver!vars
  OBVIOUS
<1> USE SemaStackAssumption, CountsAreNat DEF IInv, HandedOver!vars, HandedOver!Next
<1>a. Len(stack) \in Nat
  BY LenProperties DEF TypeOK
<1>1. ASSUME NEW p \in Producers, NEW v \in Items, PushLocked(p, v)
      PROVE  HandedOver!Next
  <2>1. CASE Len(stack) < Capacity /\ stack' = Append(stack, v) /\ lost' = lost
    BY <1>1, <2>1 DEF PushLocked, HandedOver!Put
  <2>2. CASE Len(stack) >= Capacity /\ stack' = stack /\ lost' = lost + 1
    BY <1>1, <1>a, <2>2 DEF PushLocked, TypeOK, HandedOver!Refuse
  <2> QED
    BY <1>1, <2>1, <2>2 DEF PushLocked
<1>2. ASSUME NEW p \in Producers, PushRelease(p)
      PROVE  HandedOver!Next \/ UNCHANGED HandedOver!vars
  <2>1. CASE lost' = lost
    BY <1>2, <2>1 DEF PushRelease
  <2>2. CASE permits = MaxPermits /\ lost' = lost - 1
    <3>1. Cardinality(Releasing) > 0
      <4>1. p \in Releasing
        BY <1>2 DEF PushRelease, Releasing
      <4> QED
        BY <4>1, FS_EmptySet
    <3>2. lost > 0
      BY <1>a, <2>2, <3>1 DEF TypeOK, Accounting
    <3> QED
      BY <1>2, <2>2, <3>2 DEF PushRelease, HandedOver!Settle
  <2> QED
    BY <1>2, <2>1, <2>2 DEF PushRelease
<1>3. ASSUME NEW c \in Consumers, Wake(c)
      PROVE  UNCHANGED HandedOver!vars
  <2>1. \A k \in Consumers : cons'[k] # "stopped" <=> cons[k] # "stopped"
    BY <1>3 DEF Wake, TypeOK
  <2> QED
    BY <1>3, <2>1 DEF Wake
<1>4. ASSUME NEW c \in Consumers, PopLocked(c)
      PROVE  HandedOver!Next
  <2>1. \A k \in Consumers : cons'[k] # "stopped" <=> cons[k] # "stopped"
    BY <1>4 DEF PopLocked, TypeOK
  <2>2. cons[c] # "stopped"
    BY <1>4 DEF PopLocked
  <2>3. CASE /\ stack # <<>> /\ lost' = lost
             /\ stack' = SubSeq(stack, 1, Len(stack) - 1)
    BY <2>1, <2>2, <2>3 DEF HandedOver!Take
  <2>4. CASE stack = <<>> /\ stack' = stack /\ lost' = lost - 1
    <3>1. Cardinality(Woken) > 0
      BY <1>4, ConsumerLeaves DEF PopLocked
    <3>2. lost > 0
      BY <2>4, <3>1 DEF TypeOK, Accounting
    <3> QED
      BY <2>1, <2>4, <3>2 DEF HandedOver!Settle
  <2> QED
    BY <1>4, <2>3, <2>4 DEF PopLocked
<1>5. ASSUME NEW c \in Consumers, StopConsumer(c)
      PROVE  HandedOver!Next \/ UNCHANGED HandedOver!vars
  <2>1. cons[c] # "stopped" /\ UNCHANGED <<stack, lost>>
    BY <1>5 DEF StopConsumer
  <2>2. CASE \E k \in Consumers : cons'[k] # "stopped"
    BY <2>1, <2>2
  <2>3. CASE ~ \E k \in Consumers : cons'[k] # "stopped"
    BY <2>1, <2>3 DEF HandedOver!Close
  <2> QED
    BY <2>2, <2>3
<1>6. CASE Clear
  BY <1>6 DEF Clear, HandedOver!Forget
<1>7. CASE UNCHANGED vars
  BY <1>7 DEF vars
<1> QED
  BY <1>1, <1>2, <1>3, <1>4, <1>5, <1>6, <1>7 DEF Next

(* SemaStack implements HandOff, for any threads, items, capacity and limit  *)
(* of the semaphore.                                                         *)
THEOREM HandOffImplemented == Spec => ImplementsHandOff
<1>1. Init => HandedOver!Init
  BY DEF Init, HandedOver!Init
<1> QED
  BY <1>1, InitIInv, NextIInv, StepHandsOver, PTL
     DEF Spec, ImplementsHandOff, HandedOver!Spec
=============================================================================
