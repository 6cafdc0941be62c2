--------------------------- MODULE SequenceLemmas ---------------------------
(***************************************************************************)
(* Facts about sequences that the proofs about the components share: what  *)
(* Append, Tail, \o, Front, RemoveAt, RemoveFirst and SetToSeq do to the   *)
(* set of entries of a queue, a stack or a list.                           *)
(***************************************************************************)
EXTENDS Integers, Sequences, FiniteSets, SequencesExt, FiniteSetTheorems,
        SequenceTheorems, WellFoundedInduction, TLAPS

(* All entries but the first: what waits behind the head.                    *)
Behind(s) == {s[i] : i \in 2..Len(s)}

LEMMA SeqEntries ==
    ASSUME NEW S, NEW s \in Seq(S)
    PROVE  /\ Len(s) \in Nat /\ DOMAIN s = 1..Len(s)
           /\ Range(s) = {s[i] : i \in 1..Len(s)}
           /\ Range(s) \subseteq S
           /\ s = <<>> <=> Len(s) = 0
<1>1. Len(s) \in Nat /\ DOMAIN s = 1..Len(s) /\ \A i \in 1..Len(s) : s[i] \in S
  BY LenProperties, ElementOfSeq
<1>2. Range(s) = {s[i] : i \in 1..Len(s)} /\ Range(s) \subseteq S
  BY <1>1 DEF Range
<1>3. s = <<>> <=> Len(s) = 0
  BY <1>1, EmptySeq
<1> QED BY <1>1, <1>2, <1>3

LEMMA NoEntries == Range(<<>>) = {} /\ Behind(<<>>) = {} /\ IsInjective(<<>>)
<1>1. <<>> \in Seq({}) /\ Len(<<>>) = 0
  BY EmptySeq
<1>2. DOMAIN <<>> = {}
  BY <1>1, SeqEntries
<1> QED BY <1>1, <1>2 DEF Range, Behind, IsInjective

LEMMA OneEntry ==
    ASSUME NEW S, NEW c \in S
    PROVE  /\ <<c>> \in Seq(S) /\ <<c>> # <<>> /\ Head(<<c>>) = c /\ Len(<<c>>) = 1
           /\ Range(<<c>>) = {c} /\ Behind(<<c>>) = {}
<1>1. /\ <<c>> \in Seq(S) /\ Len(<<c>>) = 1 /\ <<c>>[1] = c /\ Head(<<c>>) = c
  OBVIOUS
<1>2. Range(<<c>>) = {c}
  <2> DEFINE s == <<c>>
  <2>1. s \in Seq(S) /\ Len(s) = 1 /\ s[1] = c
    BY <1>1
  <2> HIDE DEF s
  <2>2. Range(s) = {s[i] : i \in 1..1}
    BY <2>1, SeqEntries
  <2>3. \A i \in 1..1 : i = 1
    OBVIOUS
  <2>4. Range(s) = {c}
    BY <2>1, <2>2, <2>3
  <2> QED BY <2>4 DEF s
<1>3. Behind(<<c>>) = {}
  BY <1>1 DEF Behind
<1>4. <<c>> # <<>>
  BY <1>1, SeqEntries
<1> QED BY <1>1, <1>2, <1>3, <1>4

(* The head and what is behind it.                                           *)
LEMMA HeadAndTail ==
    ASSUME NEW S, NEW s \in Seq(S), s # <<>>
    PROVE  /\ Head(s) \in S /\ Head(s) = s[1]
           /\ Tail(s) \in Seq(S) /\ Len(Tail(s)) = Len(s) - 1
           /\ Range(s) = {Head(s)} \cup Behind(s)
           /\ Range(Tail(s)) = Behind(s)
           /\ Behind(Tail(s)) \subseteq Behind(s)
           /\ Tail(s) # <<>> => Head(Tail(s)) \in Behind(s)
<1>1. /\ Head(s) \in S /\ Tail(s) \in Seq(S) /\ Len(Tail(s)) = Len(s) - 1
      /\ \A i \in 1..Len(Tail(s)) : Tail(s)[i] = s[i + 1]
      /\ Head(s) = s[1]
  BY HeadTailProperties
<1>2. Len(s) \in Nat /\ Len(s) > 0 /\ Range(s) = {s[i] : i \in 1..Len(s)}
  BY SeqEntries
<1>3. Range(Tail(s)) = {Tail(s)[i] : i \in 1..Len(Tail(s))} /\ (Tail(s) = <<>> <=> Len(Tail(s)) = 0)
  BY <1>1, SeqEntries
<1> DEFINE n == Len(s)
           t == Tail(s)
<1>4. /\ n \in Nat /\ n > 0 /\ Len(t) = n - 1 /\ \A i \in 1..n - 1 : t[i] = s[i + 1]
      /\ Range(t) = {t[i] : i \in 1..n - 1} /\ Range(s) = {s[i] : i \in 1..n}
      /\ (t # <<>> => n - 1 > 0)
  BY <1>1, <1>2, <1>3
<1>5. Behind(s) = {s[i] : i \in 2..n} /\ Behind(t) = {t[i] : i \in 2..n - 1}
  BY <1>4 DEF Behind
<1>6. t # <<>> => Head(t) = t[1]
  BY <1>1
<1> HIDE DEF n, t
<1>7. \A i \in 2..n : i - 1 \in 1..n - 1 /\ s[i] = t[i - 1]
  BY <1>4
<1>8. Range(t) = Behind(s)
  <2>1. \A i \in 1..n - 1 : i + 1 \in 2..n /\ t[i] = s[i + 1]
    BY <1>4
  <2>2. Range(t) \subseteq Behind(s)
    BY <1>4, <1>5, <2>1
  <2>3. Behind(s) \subseteq Range(t)
    BY <1>4, <1>5, <1>7
  <2> QED BY <2>2, <2>3
<1>9. Behind(t) \subseteq Behind(s)
  <2>1. \A i \in 2..n - 1 : i \in 1..n - 1
    BY <1>4
  <2> QED BY <1>4, <1>5, <1>8, <2>1
<1>10. Range(s) = {s[1]} \cup Behind(s)
  <2>1. 1 \in 1..n /\ \A i \in 1..n : i = 1 \/ i \in 2..n
    BY <1>4
  <2>2. \A i \in 2..n : i \in 1..n
    BY <1>4
  <2> QED BY <1>4, <1>5, <2>1, <2>2
<1>11. t # <<>> => t[1] \in Behind(s)
  <2>1. t # <<>> => 1 \in 1..n - 1
    BY <1>4
  <2> QED BY <1>4, <1>8, <2>1
<1> QED BY <1>1, <1>6, <1>8, <1>9, <1>10, <1>11 DEF n, t

(* A queue or a stack grows.                                                 *)
LEMMA Joined ==
    ASSUME NEW S, NEW s \in Seq(S), NEW t \in Seq(S)
    PROVE  /\ s \o t \in Seq(S) /\ Len(s \o t) = Len(s) + Len(t)
           /\ Range(s \o t) = Range(s) \cup Range(t)
<1>1. /\ s \o t \in Seq(S) /\ Len(s \o t) = Len(s) + Len(t)
      /\ \A i \in 1..Len(s) + Len(t) :
            (s \o t)[i] = IF i <= Len(s) THEN s[i] ELSE t[i - Len(s)]
  BY ConcatProperties
<1> DEFINE m == Len(s)
           n == Len(t)
           u == s \o t
<1>2. /\ m \in Nat /\ n \in Nat /\ Range(s) = {s[i] : i \in 1..m}
      /\ Range(t) = {t[i] : i \in 1..n}
  BY SeqEntries
<1>3. Range(u) = {u[i] : i \in 1..m + n}
  BY <1>1, SeqEntries
<1>4. \A i \in 1..m + n : u[i] = IF i <= m THEN s[i] ELSE t[i - m]
  BY <1>1
<1> HIDE DEF m, n, u
<1>5. Range(u) \subseteq Range(s) \cup Range(t)
  <2>1. \A i \in 1..m + n : i \in 1..m \/ (~(i <= m) /\ i - m \in 1..n)
    BY <1>2
  <2> QED BY <1>2, <1>3, <1>4, <2>1
<1>6. Range(s) \subseteq Range(u)
  <2>1. \A i \in 1..m : i \in 1..m + n /\ u[i] = s[i]
    BY <1>2, <1>4
  <2> QED BY <1>2, <1>3, <2>1
<1>7. Range(t) \subseteq Range(u)
  <2>1. \A i \in 1..n : i + m \in 1..m + n /\ u[i + m] = t[i]
    BY <1>2, <1>4
  <2> QED BY <1>2, <1>3, <2>1
<1> QED BY <1>1, <1>5, <1>6, <1>7 DEF u

LEMMA Appended ==
    ASSUME NEW S, NEW s \in Seq(S), NEW e \in S
    PROVE  /\ Append(s, e) \in Seq(S) /\ Append(s, e) # <<>>
           /\ Len(Append(s, e)) = Len(s) + 1
           /\ Range(Append(s, e)) = Range(s) \cup {e}
           /\ IsInjective(s) /\ e \notin Range(s) => IsInjective(Append(s, e))
<1>1. /\ Append(s, e) \in Seq(S) /\ Append(s, e) # <<>> /\ Len(Append(s, e)) = Len(s) + 1
      /\ \A i \in 1..Len(s) : Append(s, e)[i] = s[i]
      /\ Append(s, e)[Len(s) + 1] = e
  BY AppendProperties
<1> DEFINE n == Len(s)
           u == Append(s, e)
<1>2. n \in Nat /\ Range(s) = {s[i] : i \in 1..n} /\ DOMAIN s = 1..n
  BY SeqEntries
<1>3. Range(u) = {u[i] : i \in 1..n + 1} /\ DOMAIN u = 1..n + 1
  BY <1>1, SeqEntries
<1>4. (\A i \in 1..n : u[i] = s[i]) /\ u[n + 1] = e
  BY <1>1
<1> HIDE DEF n, u
<1>5. \A i \in 1..n + 1 : i = n + 1 \/ i \in 1..n
  BY <1>2
<1>6. n + 1 \in 1..n + 1 /\ \A i \in 1..n : i \in 1..n + 1
  BY <1>2
<1>7. Range(u) = Range(s) \cup {e}
  BY <1>2, <1>3, <1>4, <1>5, <1>6
<1>8. IsInjective(s) /\ e \notin Range(s) => IsInjective(u)
  BY <1>2, <1>3, <1>4, <1>5 DEF IsInjective
<1> QED BY <1>1, <1>7, <1>8 DEF u

(* The top of a stack is taken.                                              *)
LEMMA FrontAndLast ==
    ASSUME NEW S, NEW s \in Seq(S), s # <<>>
    PROVE  /\ Last(s) \in Range(s) /\ Front(s) \in Seq(S)
           /\ Len(Front(s)) = Len(s) - 1
           /\ Range(Front(s)) \subseteq Range(s)
           /\ Range(s) = Range(Front(s)) \cup {Last(s)}
           /\ \A i \in 1..Len(s) - 1 : Front(s)[i] = s[i]
           /\ Last(s) = s[Len(s)]
<1> DEFINE n == Len(s)
           u == Front(s)
<1>1. n \in Nat /\ n > 0 /\ Range(s) = {s[i] : i \in 1..n} /\ \A i \in 1..n : s[i] \in S
  BY SeqEntries, ElementOfSeq
<1>2. /\ u \in Seq(S) /\ Len(u) = n - 1 /\ \A i \in 1..n - 1 : u[i] = s[i]
  <2>1. u = SubSeq(s, 1, n - 1)
    BY DEF Front
  <2> HIDE DEF n, u
  <2>2. \A i \in 1..n - 1 : s[i] \in S
    BY <1>1
  <2>3. /\ SubSeq(s, 1, n - 1) \in Seq(S)
        /\ Len(SubSeq(s, 1, n - 1)) = IF 1 <= n - 1 THEN n - 1 - 1 + 1 ELSE 0
        /\ \A i \in 1..n - 1 - 1 + 1 : SubSeq(s, 1, n - 1)[i] = s[1 + i - 1]
    BY <1>1, <2>2, SubSeqProperties
  <2> QED BY <1>1, <2>1, <2>3
<1>3. Range(u) = {u[i] : i \in 1..n - 1}
  BY <1>2, SeqEntries
<1>4. Last(s) = s[n]
  BY DEF Last
<1> HIDE DEF n, u
<1>5. n \in 1..n /\ (\A i \in 1..n - 1 : i \in 1..n) /\ \A i \in 1..n : i = n \/ i \in 1..n - 1
  BY <1>1
<1>6. Last(s) \in Range(s)
  BY <1>1, <1>4, <1>5
<1>7. Range(s) = Range(u) \cup {Last(s)}
  BY <1>1, <1>2, <1>3, <1>4, <1>5
<1> QED BY <1>2, <1>4, <1>6, <1>7 DEF u, n

(* A set of numbers has a least one.                                         *)
LEMMA LeastNumber ==
    ASSUME NEW S \in SUBSET Nat, S # {} PROVE \E m \in S : \A j \in S : m <= j
<1>1. \E m \in S : \A j \in S : ~(<<j, m>> \in OpToRel(<, Nat))
  BY NatLessThanWellFounded, WFMin
<1>2. PICK m \in S : \A j \in S : ~(<<j, m>> \in OpToRel(<, Nat))
  BY <1>1
<1>3. \A j \in S : ~(j < m)
  BY <1>2 DEF OpToRel
<1> QED BY <1>3

(* What follows the place moves up.                                          *)
LEMMA RemovedAt ==
    ASSUME NEW S, NEW s \in Seq(S), NEW i \in 1..Len(s)
    PROVE  /\ RemoveAt(s, i) \in Seq(S)
           /\ Len(RemoveAt(s, i)) = Len(s) - 1
           /\ \A j \in 1..Len(s) - 1 :
                 RemoveAt(s, i)[j] = IF j < i THEN s[j] ELSE s[j + 1]
<1> DEFINE a == SubSeq(s, 1, i - 1)
           b == SubSeq(s, i + 1, Len(s))
<1>0. Len(s) \in Nat /\ \A k \in 1..Len(s) : s[k] \in S
  BY LenProperties, ElementOfSeq
<1>1. /\ a \in Seq(S) /\ Len(a) = i - 1
      /\ \A j \in 1..i - 1 : a[j] = s[j]
  <2>1. \A k \in 1..i - 1 : s[k] \in S
    BY <1>0
  <2> QED BY <1>0, <2>1, SubSeqProperties
<1>2. /\ b \in Seq(S) /\ Len(b) = Len(s) - i
      /\ \A j \in 1..Len(s) - i : b[j] = s[i + j]
  <2>1. \A k \in i + 1..Len(s) : s[k] \in S
    BY <1>0
  <2> QED BY <1>0, <2>1, SubSeqProperties
<1> HIDE DEF a, b
<1>3. /\ a \o b \in Seq(S) /\ Len(a \o b) = Len(a) + Len(b)
      /\ \A j \in 1..Len(a) + Len(b) :
            (a \o b)[j] = IF j <= Len(a) THEN a[j] ELSE b[j - Len(a)]
  BY <1>1, <1>2, ConcatProperties
<1>4. \A j \in 1..Len(s) - 1 : (a \o b)[j] = IF j < i THEN s[j] ELSE s[j + 1]
  <2> TAKE j \in 1..Len(s) - 1
  <2>1. CASE j < i
    BY <1>0, <1>1, <1>2, <1>3, <2>1
  <2>2. CASE ~(j < i)
    <3>1. j - (i - 1) \in 1..Len(s) - i /\ i + (j - (i - 1)) = j + 1
      BY <1>0, <2>2
    <3>2. (a \o b)[j] = b[j - (i - 1)]
      BY <1>0, <1>1, <1>2, <1>3, <2>2
    <3>3. b[j - (i - 1)] = s[i + (j - (i - 1))]
      BY <1>2, <3>1
    <3> QED BY <2>2, <3>1, <3>2, <3>3
  <2> QED BY <2>1, <2>2
<1>5. Len(a \o b) = Len(s) - 1
  BY <1>0, <1>1, <1>2, <1>3
<1>6. RemoveAt(s, i) = a \o b
  BY DEF RemoveAt, a, b
<1> QED BY <1>3, <1>4, <1>5, <1>6

LEMMA RemovedAtEntries ==
    ASSUME NEW S, NEW s \in Seq(S), NEW i \in 1..Len(s)
    PROVE  /\ RemoveAt(s, i) \in Seq(S)
           /\ Range(RemoveAt(s, i)) \subseteq Range(s)
           /\ IsInjective(s) => /\ IsInjective(RemoveAt(s, i))
                                /\ Range(RemoveAt(s, i)) = Range(s) \ {s[i]}
<1> DEFINE n == Len(s)
           u == RemoveAt(s, i)
           Old(j) == IF j < i THEN j ELSE j + 1
<1>1. /\ u \in Seq(S) /\ Len(u) = n - 1
      /\ \A j \in 1..n - 1 : u[j] = IF j < i THEN s[j] ELSE s[j + 1]
  BY RemovedAt
<1>2. n \in Nat /\ i \in 1..n /\ DOMAIN s = 1..n /\ Range(s) = {s[j] : j \in 1..n}
  BY SeqEntries
<1>3. DOMAIN u = 1..n - 1 /\ Range(u) = {u[j] : j \in 1..n - 1}
  BY <1>1, SeqEntries
<1> HIDE DEF n, u
<1>4. \A j \in 1..n - 1 : Old(j) \in 1..n /\ Old(j) # i /\ u[j] = s[Old(j)]
  BY <1>1, <1>2
<1>5. \A j, k \in 1..n - 1 : Old(j) = Old(k) => j = k
  BY <1>2
<1>6. \A k \in 1..n : k # i => \E j \in 1..n - 1 : k = Old(j)
  <2> SUFFICES ASSUME NEW k \in 1..n, k # i PROVE \E j \in 1..n - 1 : k = Old(j)
    OBVIOUS
  <2>1. CASE k < i
    BY <1>2, <2>1
  <2>2. CASE i < k
    <3>1. k - 1 \in 1..n - 1 /\ Old(k - 1) = k
      BY <1>2, <2>2
    <3> QED BY <3>1
  <2> QED BY <1>2, <2>1, <2>2
<1> HIDE DEF Old
<1>7. Range(u) \subseteq Range(s)
  BY <1>2, <1>3, <1>4
<1>8. ASSUME IsInjective(s) PROVE IsInjective(u) /\ Range(u) = Range(s) \ {s[i]}
  <2>1. \A j, k \in 1..n : s[j] = s[k] => j = k
    BY <1>2, <1>8 DEF IsInjective
  <2>2. IsInjective(u)
    BY <1>3, <1>4, <1>5, <2>1 DEF IsInjective
  <2>3. Range(u) \subseteq Range(s) \ {s[i]}
    BY <1>2, <1>3, <1>4, <2>1
  <2>4. Range(s) \ {s[i]} \subseteq Range(u)
    BY <1>2, <1>3, <1>4, <1>6
  <2> QED BY <2>2, <2>3, <2>4
<1> QED BY <1>1, <1>7, <1>8 DEF u

(* The first place of an entry goes away: the entry, where it is there once. *)
LEMMA RemovedFirst ==
    ASSUME NEW S, NEW s \in Seq(S), NEW e
    PROVE  /\ RemoveFirst(s, e) \in Seq(S)
           /\ Range(RemoveFirst(s, e)) \subseteq Range(s)
           /\ IsInjective(s) => /\ IsInjective(RemoveFirst(s, e))
                                /\ Range(RemoveFirst(s, e)) = Range(s) \ {e}
<1>0. Len(s) \in Nat /\ Range(s) = {s[i] : i \in 1..Len(s)}
  BY SeqEntries
<1>1. CASE \E i \in 1..Len(s) : s[i] = e
  <2> DEFINE I == {i \in 1..Len(s) : s[i] = e}
  <2>1. I \in SUBSET Nat /\ I # {}
    BY <1>0, <1>1
  <2>2. \E m \in I : \A j \in I : m <= j
    BY <2>1, LeastNumber
  <2>3. Min(I) \in I
    BY <2>2 DEF Min
  <2>4. RemoveFirst(s, e) = RemoveAt(s, Min(I))
    BY <1>1 DEF RemoveFirst, SelectInSeq
  <2> HIDE DEF I
  <2>5. PICK i \in 1..Len(s) : s[i] = e /\ RemoveFirst(s, e) = RemoveAt(s, i)
    BY <2>3, <2>4 DEF I
  <2> QED BY <2>5, RemovedAtEntries
<1>2. CASE ~\E i \in 1..Len(s) : s[i] = e
  <2>1. RemoveFirst(s, e) = s
    BY <1>2 DEF RemoveFirst
  <2>2. e \notin Range(s)
    BY <1>0, <1>2
  <2> QED BY <2>1, <2>2
<1> QED BY <1>1, <1>2

(* A head that has left.                                                     *)
LEMMA TailOfDistinct ==
    ASSUME NEW S, NEW s \in Seq(S), s # <<>>, IsInjective(s)
    PROVE  IsInjective(Tail(s)) /\ Range(Tail(s)) = Range(s) \ {Head(s)}
<1> DEFINE n == Len(s)
           t == Tail(s)
<1>1. /\ n \in Nat /\ DOMAIN s = 1..n /\ n > 0
      /\ Range(s) = {Head(s)} \cup Behind(s) /\ Range(t) = Behind(s)
      /\ Behind(s) = {s[i] : i \in 2..n} /\ Head(s) = s[1]
  BY SeqEntries, HeadAndTail DEF Behind
<1>2. DOMAIN t = 1..n - 1 /\ \A i \in 1..n - 1 : t[i] = s[i + 1]
  <2>1. t \in Seq(S) /\ Len(t) = n - 1 /\ \A i \in 1..Len(t) : t[i] = s[i + 1]
    BY HeadTailProperties
  <2> QED BY <2>1, SeqEntries
<1> HIDE DEF n, t
<1>3. \A i, j \in 1..n : s[i] = s[j] => i = j
  BY <1>1 DEF IsInjective
<1>4. Head(s) \notin Behind(s)
  <2>1. 1 \in 1..n /\ \A i \in 2..n : i \in 1..n /\ i # 1
    BY <1>1
  <2> QED BY <1>1, <1>3, <2>1
<1>5. IsInjective(t)
  <2>1. \A i \in 1..n - 1 : i + 1 \in 1..n
    BY <1>1
  <2>2. \A i, j \in 1..n - 1 : i + 1 = j + 1 => i = j
    BY <1>1
  <2> QED BY <1>2, <1>3, <2>1, <2>2 DEF IsInjective
<1> QED BY <1>1, <1>4, <1>5 DEF t

(* A sequence without repetition is as long as its entries are many.         *)
LEMMA DistinctLength ==
    ASSUME NEW S, NEW s \in Seq(S), IsInjective(s)
    PROVE  Cardinality(Range(s)) = Len(s) /\ IsFiniteSet(Range(s))
<1>1. Len(s) \in Nat /\ DOMAIN s = 1..Len(s) /\ Range(s) = {s[i] : i \in 1..Len(s)}
      /\ s \in [1..Len(s) -> S]
  BY SeqEntries, LenProperties
<1>2. s \in [1..Len(s) -> Range(s)]
  BY <1>1
<1>3. s \in Bijection(1..Len(s), Range(s))
  BY <1>1, <1>2 DEF Bijection, Injection, Surjection
<1>4. ExistsBijection(1..Len(s), Range(s))
  BY <1>3 DEF ExistsBijection
<1> QED BY <1>1, <1>4, FS_CountingElements, FS_NatBijection

(* A set in some order.                                                      *)
LEMMA SetToSeqEntries ==
    ASSUME NEW T, IsFiniteSet(T)
    PROVE  SetToSeq(T) \in Seq(T) /\ Range(SetToSeq(T)) = T /\ IsInjective(SetToSeq(T))
<1> DEFINE n == Cardinality(T)
           s == SetToSeq(T)
<1>1. n \in Nat /\ ExistsBijection(1..n, T)
  BY FS_CardinalityType
<1>2. PICK f \in Bijection(1..n, T) : TRUE
  BY <1>1 DEF ExistsBijection
<1>3. f \in [1..n -> T] /\ IsInjective(f)
  BY <1>2 DEF Bijection, Injection
<1>4. s \in [1..n -> T] /\ IsInjective(s)
  BY <1>3 DEF SetToSeq
<1> HIDE DEF s
<1>5. s \in Seq(T) /\ Len(s) = n /\ Range(s) \subseteq T
  <2>1. s \in Seq(T)
    BY <1>1, <1>4, SeqDef
  <2>2. DOMAIN s = 1..n /\ DOMAIN s = 1..Len(s) /\ Len(s) \in Nat
    BY <1>4, <2>1, SeqEntries
  <2> QED BY <1>1, <2>1, <2>2, SeqEntries
<1>6. Cardinality(Range(s)) = n
  BY <1>4, <1>5, DistinctLength
<1>7. Range(s) = T
  BY <1>5, <1>6, FS_Subset
<1> QED BY <1>4, <1>5, <1>7 DEF s

(* Two sequences without an entry in common, none with an entry twice.       *)
LEMMA JoinedDistinct ==
    ASSUME NEW S, NEW s \in Seq(S), NEW t \in Seq(S), IsInjective(s), IsInjective(t),
           Range(s) \cap Range(t) = {}
    PROVE  IsInjective(s \o t)
<1> DEFINE m == Len(s)
           n == Len(t)
           u == s \o t
<1>1. /\ u \in Seq(S) /\ Len(u) = m + n
      /\ \A i \in 1..m + n : u[i] = IF i <= m THEN s[i] ELSE t[i - m]
  BY ConcatProperties
<1>2. m \in Nat /\ n \in Nat /\ DOMAIN u = 1..m + n /\ DOMAIN s = 1..m /\ DOMAIN t = 1..n
  BY <1>1, SeqEntries
<1>3. /\ \A i \in 1..m : s[i] \in Range(s)
      /\ \A i \in 1..n : t[i] \in Range(t)
      /\ \A i \in 1..m : \A j \in 1..m : s[i] = s[j] => i = j
      /\ \A i \in 1..n : \A j \in 1..n : t[i] = t[j] => i = j
  BY <1>2 DEF Range, IsInjective
<1> HIDE DEF m, n, u
<1>4. ASSUME NEW i \in 1..m + n, NEW j \in 1..m + n, u[i] = u[j] PROVE i = j
  <2>1. CASE i <= m /\ j <= m
    BY <1>1, <1>2, <1>3, <1>4, <2>1
  <2>2. CASE ~(i <= m) /\ ~(j <= m)
    <3>1. i - m \in 1..n /\ j - m \in 1..n /\ t[i - m] = t[j - m]
      BY <1>1, <1>2, <1>4, <2>2
    <3>2. i - m = j - m
      BY <1>3, <3>1
    <3> QED BY <1>2, <3>2
  <2>3. CASE i <= m /\ ~(j <= m)
    <3>1. i \in 1..m /\ j - m \in 1..n /\ s[i] = t[j - m]
      BY <1>1, <1>2, <1>4, <2>3
    <3> QED BY <1>3, <3>1
  <2>4. CASE ~(i <= m) /\ j <= m
    <3>1. j \in 1..m /\ i - m \in 1..n /\ s[j] = t[i - m]
      BY <1>1, <1>2, <1>4, <2>4
    <3> QED BY <1>3, <3>1
  <2> QED BY <2>1, <2>2, <2>3, <2>4
<1> QED BY <1>2, <1>4 DEF IsInjective, u

LEMMA Singles ==
    ASSUME NEW a, NEW b
    PROVE  /\ <<a>> \o <<b>> = <<a, b>>
           /\ <<a>> \o <<>> = <<a>> /\ <<>> \o <<b>> = <<b>>
<1>1. <<a>> \in Seq({a, b}) /\ <<b>> \in Seq({a, b})
  OBVIOUS
<1>2. <<a>> \o <<>> = <<a>> /\ <<>> \o <<b>> = <<b>>
  BY <1>1, ConcatEmptySeq
<1>3. Append(<<a>>, b) = <<a>> \o <<b>>
  BY <1>1, AppendIsConcat
<1>4. Append(<<a>>, b) = <<a, b>>
  <2> DEFINE one == <<a>>
             two == <<a, b>>
             all == Append(one, b)
  <2>1. one \in Seq({a, b}) /\ Len(one) = 1 /\ one[1] = a
    OBVIOUS
  <2>2. two \in Seq({a, b}) /\ Len(two) = 2 /\ two[1] = a /\ two[2] = b
    OBVIOUS
  <2> HIDE DEF one, two
  <2>3. /\ all \in Seq({a, b}) /\ Len(all) = 2 /\ all[1] = a /\ all[2] = b
    <3>1. b \in {a, b}
      OBVIOUS
    <3>2. /\ all \in Seq({a, b}) /\ Len(all) = Len(one) + 1
          /\ \A i \in 1..Len(one) : all[i] = one[i]
          /\ all[Len(one) + 1] = b
      BY <2>1, <3>1, AppendProperties
    <3> HIDE DEF all
    <3>3. Len(one) + 1 = 2 /\ 1 \in 1..Len(one)
      BY <2>1
    <3> QED BY <2>1, <3>2, <3>3
  <2> HIDE DEF all
  <2>4. \A i \in 1..2 : i = 1 \/ i = 2
    OBVIOUS
  <2>5. all = two
    BY <2>2, <2>3, <2>4, SeqEqual
  <2> QED BY <2>5 DEF all, one, two
<1> QED BY <1>2, <1>3, <1>4

LEMMA TwoEntries ==
    ASSUME NEW S, NEW c \in S, NEW d \in S
    PROVE  /\ <<c, d>> \in Seq(S) /\ <<c, d>> # <<>> /\ Head(<<c, d>>) = c
           /\ Range(<<c, d>>) = {c, d} /\ Behind(<<c, d>>) = {d}
<1> DEFINE s == <<c, d>>
<1>1. s \in Seq(S) /\ Len(s) = 2 /\ s[1] = c /\ s[2] = d /\ s # <<>> /\ Head(s) = c
  OBVIOUS
<1> HIDE DEF s
<1>2. Range(s) = {s[i] : i \in 1..2} /\ Behind(s) = {s[i] : i \in 2..2}
  BY <1>1, SeqEntries DEF Behind
<1>3. Range(s) = {c, d} /\ Behind(s) = {d}
  BY <1>1, <1>2
<1> QED BY <1>1, <1>3 DEF s

LEMMA WiderSeq ==
    ASSUME NEW S, NEW T, S \subseteq T, NEW s \in Seq(S)
    PROVE  s \in Seq(T)
BY SeqEntries, ElementOfSeq, IsASeq

(* The front of a sequence is its beginning.                                 *)
LEMMA FrontEntries ==
    ASSUME NEW S, NEW s \in Seq(S), s # <<>>
    PROVE  /\ Len(s) \in Nat /\ Len(s) > 0 /\ Last(s) = s[Len(s)]
           /\ DOMAIN Front(s) = 1..Len(s) - 1
           /\ \A i \in 1..Len(s) - 1 : Front(s)[i] = s[i]
           /\ IsInjective(s) => IsInjective(Front(s)) /\ Last(s) \notin Range(Front(s))
<1> DEFINE n == Len(s)
           u == Front(s)
<1>1. n \in Nat /\ n > 0 /\ DOMAIN s = 1..n
  BY SeqEntries
<1>2. u \in Seq(S) /\ Len(u) = n - 1
  BY FrontAndLast
<1>3. DOMAIN u = 1..n - 1 /\ Range(u) = {u[i] : i \in 1..n - 1}
  BY <1>2, SeqEntries
<1>4. \A i \in 1..n - 1 : u[i] = s[i]
  BY <1>1 DEF Front
<1>5. Last(s) = s[n]
  BY DEF Last
<1> HIDE DEF u, n
<1>6. ASSUME IsInjective(s) PROVE IsInjective(u) /\ Last(s) \notin Range(u)
  <2>1. \A i, j \in 1..n : s[i] = s[j] => i = j
    BY <1>1, <1>6 DEF IsInjective
  <2>2. \A i \in 1..n - 1 : i \in 1..n /\ i # n /\ n \in 1..n
    BY <1>1
  <2> QED BY <1>3, <1>4, <1>5, <2>1, <2>2 DEF IsInjective
<1> QED BY <1>1, <1>3, <1>4, <1>5, <1>6 DEF u, n
=============================================================================
