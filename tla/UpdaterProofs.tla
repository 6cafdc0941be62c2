---------------------------- MODULE UpdaterProofs ----------------------------
(***************************************************************************)
(* Type correctness of Updater, and its two safety properties, for every   *)
(* set of versions and sizes and any number of faults.                     *)
(*                                                                         *)
(* The inductive invariant Inv has a part that always holds (TInv: types,  *)
(* and which transfers there can be at a time) and a part (Good) that      *)
(* holds until a check crosses a transfer or throws away the file of a     *)
(* registered update.  Good says whose parts the file is made of, what     *)
(* each transfer may rely on, and that a registry version newer than the   *)
(* installed one comes with its whole file.                                *)
(***************************************************************************)
EXTENDS Updater, TLAPS

(* A transfer, and the three values in the registry.                         *)
Transfer ==
    [id : Ids, v : Versions, code : {0, 200, 206, 416}, pos : Nat,
     at : {"queued", "sent", "writing", "complete", "file", "size", "version"}]

Values == [file : BOOLEAN, size : Nat, version : Versions \union {0}]

(* The types, as in TypeOK; who has found a version, or fetches one, knows   *)
(* which.                                                                    *)
Types ==
    /\ phase \in {"down", "running", "stopping", "clearing"}
    /\ version \in Versions /\ offer \in Versions
    /\ check \in [at : {"idle", "asked", "found"}, v : Versions \union {None}]
    /\ check.at # "idle" => check.v \in Versions
    /\ updateVersion \in Versions \union {None}
    /\ transfers # {} \/ check.at = "found" => updateVersion \in Versions
    /\ file \in Seq(Versions \union {None})
    /\ transfers \subseteq Transfer
    /\ registry \in Values
    /\ faults \in Nat

(* What holds of the transfers: one that is found by a check is the only     *)
(* one and has the file open, or had.                                        *)
Listed(S) ==
    /\ S \subseteq Transfer
    /\ phase \in {"down", "clearing"} => S = {}
    /\ \A t, u \in S : t.id = u.id => t = u
    /\ \A t, u \in S : t.at = "writing" /\ u.at = "writing" => t = u
    /\ check.at # "idle" => \A t, u \in S : t = u
    /\ check.at # "idle" => \A t \in S : t.at \notin {"queued", "sent"}
    /\ \A t \in S : t.at = "writing" \/ (t.at = "sent" /\ t.code = 206)
         => t.pos <= Size[t.v]

(* Nothing runs while the program is down or being launched.                 *)
Alone ==
    /\ Listed(transfers)
    /\ phase \in {"down", "clearing"} => check = Idle
    /\ phase = "clearing" => cleared \in 0..2

TInv == Types /\ Alone

(* Versions and sizes are numbers.                                           *)
LEMMA SizeIsPositive == \A v \in Versions : Size[v] \in Nat /\ Size[v] > 0
BY UpdaterAssumption

LEMMA VersionIsNat == \A v \in Versions \union {0} : v \in Nat
BY UpdaterAssumption

(* Writing one of the three values keeps their type (SetRegistry* of         *)
(* Notify and ClearUpdateInfo).                                              *)
LEMMA ValuesKeepType ==
    ASSUME NEW r \in Values, NEW b \in BOOLEAN, NEW n \in Nat,
           NEW v \in Versions \union {0}
    PROVE  /\ [r EXCEPT !.file = b] \in Values
           /\ [r EXCEPT !.size = n] \in Values
           /\ [r EXCEPT !.version = v] \in Values
BY DEF Values

(* The type part holds when the program was never started.                   *)
LEMMA InitTypes == Init => TInv
BY UpdaterAssumption DEF Init, TInv, Types, Alone, Listed, Idle, Nothing, Values

(* What CAtlFile::Write makes of the file: its length and its parts.         *)
LEMMA WriteType ==
    ASSUME NEW f \in Seq(Versions \union {None}), NEW n \in Nat, NEW v \in Versions
    PROVE  /\ WriteAt(f, n, v) \in Seq(Versions \union {None})
           /\ Len(WriteAt(f, n, v)) = IF Len(f) > n THEN Len(f) ELSE n + 1
           /\ \A i \in 1..Len(WriteAt(f, n, v)) :
                 WriteAt(f, n, v)[i] = IF i = n + 1 THEN v
                                       ELSE IF i <= Len(f) THEN f[i] ELSE None
BY DEF WriteAt

(* A transfer that takes a step keeps the list in order, as long as it       *)
(* does not open a file that is in use.                                      *)
LEMMA StepOfOne ==
    ASSUME TInv, NEW t \in transfers, NEW u \in Transfer, u.id = t.id,
           u.at = "writing" => t.at = "writing" \/ ~InUse,
           u.at \in {"queued", "sent"} => t.at \in {"queued", "sent"},
           u.at = "writing" \/ (u.at = "sent" /\ u.code = 206) => u.pos <= Size[u.v]
    PROVE  Listed((transfers \ {t}) \union {u})
<1> DEFINE S == (transfers \ {t}) \union {u}
<1>1. S \subseteq Transfer /\ phase \notin {"down", "clearing"}
  BY DEF TInv, Types, Alone, Listed
<1>2. \A x, y \in S : x.id = y.id => x = y
  BY DEF TInv, Alone, Listed
<1>3. \A x, y \in S : x.at = "writing" /\ y.at = "writing" => x = y
  BY DEF TInv, Alone, Listed, InUse
<1>4. check.at # "idle" => \A x, y \in S : x = y
  BY DEF TInv, Alone, Listed
<1>5. check.at # "idle" => \A x \in S : x.at \notin {"queued", "sent"}
  BY DEF TInv, Alone, Listed
<1>6. \A x \in S : x.at = "writing" \/ (x.at = "sent" /\ x.code = 206)
         => x.pos <= Size[x.v]
  BY DEF TInv, Alone, Listed
<1> QED BY <1>1, <1>2, <1>3, <1>4, <1>5, <1>6 DEF Listed

(* So does a transfer that ends.                                             *)
LEMMA EndOfOne == ASSUME TInv, NEW t \in transfers PROVE Listed(transfers \ {t})
BY DEF TInv, Types, Alone, Listed

(* A step of a worker leaves the thread and the program as they are.         *)
LEMMA ListedSuffices ==
    ASSUME TInv, transfers # {}, Listed(transfers'), UNCHANGED <<phase, check, cleared>>,
           UNCHANGED <<version, offer, updateVersion>>,
           file' \in Seq(Versions \union {None}),
           registry' \in Values,
           faults' \in Nat
    PROVE  TInv'
BY DEF TInv, Types, Alone, Listed, Idle

(* Every step keeps the type part.                                           *)
LEMMA TypesStep == TInv /\ [Next]_vars => TInv'
<1> SUFFICES ASSUME TInv, [Next]_vars PROVE TInv'
  OBVIOUS
<1> USE UpdaterAssumption DEF TInv
<1>1. CASE Release
  BY <1>1 DEF Release, Types, Alone, Listed, ghosts
<1>2. CASE Ask
  <2>1. CurVersion \in Versions
    BY DEF Types, Values, CurVersion, IsValidUpdate
  <2>2. Types'
    BY <1>2, <2>1 DEF Ask, Types, ghosts
  <2>3. Alone'
    BY <1>2, <2>1 DEF Ask, Types, Alone, Listed, Idle, ghosts
  <2> QED BY <2>2, <2>3
<1>3. CASE Found
  BY <1>3 DEF Found, Types, Alone, Listed, ghosts, Idle
<1>4. CASE NotFound
  BY <1>4 DEF NotFound, Types, Alone, Listed, ghosts, Idle
<1>5. CASE DownloadUpdate
  <2> DEFINE id == CHOOSE n \in Ids : \A t \in transfers : t.id # n
  <2> DEFINE new == [id |-> id, v |-> check.v, at |-> "queued", code |-> 0, pos |-> 0]
  <2>1. id \in Ids /\ \A t \in transfers : t.id # id
    <3>1. \E n \in Ids : \A t \in transfers : t.id # n
      BY <1>5 DEF DownloadUpdate, Types, Alone, Listed, Transfer, Ids
    <3> QED BY <3>1
  <2> HIDE DEF id
  <2>2. transfers' = transfers \union {new}
    BY <1>5 DEF DownloadUpdate, id
  <2>3. new \in Transfer
    BY <1>5, <2>1 DEF DownloadUpdate, Types, Transfer
  <2>4. Types'
    BY <1>5, <2>2, <2>3 DEF DownloadUpdate, Types, Idle, Emptied, ghosts
  <2>5. Alone'
    <3>1. check.at # "idle" /\ check' = Idle /\ phase' = phase
      BY <1>5 DEF DownloadUpdate
    <3>2. phase \notin {"down", "clearing"}
      BY <3>1 DEF Alone, Idle
    <3>3. new.at = "queued" /\ new.id = id
      OBVIOUS
    <3> HIDE DEF new
    <3>4. \A t, u \in transfers' : t.id = u.id => t = u
      BY <2>1, <2>2, <3>3 DEF Alone, Listed
    <3>5. \A t, u \in transfers' : t.at = "writing" /\ u.at = "writing" => t = u
      BY <2>2, <3>3 DEF Alone, Listed
    <3>6. \A t \in transfers' : t.at = "writing" \/ (t.at = "sent" /\ t.code = 206)
             => t.pos <= Size[t.v]
      BY <2>2, <3>3 DEF Alone, Listed
    <3>7. transfers' \subseteq Transfer
      BY <2>4 DEF Types
    <3> HIDE DEF TInv
    <3>8. check'.at = "idle" /\ phase' \notin {"down", "clearing"}
      BY <3>1, <3>2 DEF Idle
    <3> QED BY <3>4, <3>5, <3>6, <3>7, <3>8 DEF Alone, Listed
  <2> QED BY <2>4, <2>5
<1>6. ASSUME NEW t \in transfers, Worker(t) PROVE TInv'
  <2>0. t \in Transfer /\ transfers # {}
    BY DEF Types
  <2>00. Len(file) \in Nat
    BY DEF Types
  <2>1. CASE Send(t)
    <3>1. PICK code \in Codes(t) :
             Becomes(t, [t EXCEPT !.at = "sent", !.code = code, !.pos = Len(file)])
      BY <2>1 DEF Send
    <3> DEFINE u == [t EXCEPT !.at = "sent", !.code = code, !.pos = Len(file)]
    <3>2. code \in {200, 206, 416} /\ (code = 206 => Len(file) <= Size[t.v])
      <4>1. t.v \in Versions
        BY <2>0 DEF Transfer
      <4> QED BY <2>00, <3>1, <4>1, SizeIsPositive DEF Codes
    <3>3. u \in Transfer /\ u.id = t.id /\ u.at = "sent" /\ u.v = t.v
          /\ u.code = code /\ u.pos = Len(file)
      BY <2>0, <2>00, <3>2 DEF Transfer
    <3> HIDE DEF u
    <3>4. Listed((transfers \ {t}) \union {u})
      BY <2>0, <2>1, <3>2, <3>3, StepOfOne DEF Send
    <3>5. transfers' = (transfers \ {t}) \union {u}
      BY <3>1 DEF Becomes, u
    <3>6. Listed(transfers')
      BY <3>4, <3>5
    <3> QED BY <2>1, <3>6, ListedSuffices DEF Send, Types, ghosts
  <2>2. CASE Open(t)
    <3>1. CASE Ends(t)
      BY <2>2, <3>1, EndOfOne, ListedSuffices DEF Open, Ends, Types, ghosts
    <3>2. CASE Becomes(t, [t EXCEPT !.at = "complete"])
      <4> DEFINE u == [t EXCEPT !.at = "complete"]
      <4>1. u \in Transfer /\ u.id = t.id /\ u.at = "complete"
        BY <2>0 DEF Transfer
      <4>2. Listed((transfers \ {t}) \union {u})
        BY <4>1, StepOfOne
      <4> QED BY <2>2, <3>2, <4>2, ListedSuffices DEF Open, Becomes, Types, ghosts
    <3>3. ASSUME ~InUse, t.at = "sent", t.code \in {200, 206},
                 Becomes(t, [t EXCEPT !.at = "writing",
                                      !.pos = IF t.code = 206 THEN t.pos ELSE 0])
          PROVE  TInv'
      <4> DEFINE u == [t EXCEPT !.at = "writing",
                                !.pos = IF t.code = 206 THEN t.pos ELSE 0]
      <4>1. u \in Transfer /\ u.id = t.id /\ u.at = "writing" /\ u.v = t.v
            /\ u.pos = IF t.code = 206 THEN t.pos ELSE 0
        BY <2>0 DEF Transfer
      <4>2. u.pos <= Size[u.v]
        BY <2>0, <3>3, <4>1 DEF Alone, Listed, Transfer
      <4> HIDE DEF u
      <4>3. Listed((transfers \ {t}) \union {u})
        BY <3>3, <4>1, <4>2, StepOfOne
      <4>4. transfers' = (transfers \ {t}) \union {u}
        BY <3>3 DEF Becomes, u
      <4>5. Listed(transfers')
        BY <4>3, <4>4
      <4> QED BY <2>2, <4>5, ListedSuffices DEF Open, Types, ghosts
    <3> HIDE DEF TInv
    <3> QED BY <2>2, <3>1, <3>2, <3>3, Zenon DEF Open
  <2>3. CASE Write(t)
    <3> DEFINE u == [t EXCEPT !.pos = t.pos + 1]
    <3>1. u \in Transfer /\ u.id = t.id /\ u.at = t.at /\ u.v = t.v /\ u.pos = t.pos + 1
      BY <2>0 DEF Transfer
    <3>2. u.pos <= Size[u.v]
      BY <2>0, <2>3, <3>1 DEF Write, Transfer
    <3> HIDE DEF u
    <3>3. Listed((transfers \ {t}) \union {u})
      BY <3>1, <3>2, <2>3, StepOfOne DEF Write
    <3>4. transfers' = (transfers \ {t}) \union {u}
      BY <2>3 DEF Write, Becomes, u
    <3>5. file' \in Seq(Versions \union {None})
      <4>1. t.v \in Versions /\ t.pos \in Nat
        BY <2>0 DEF Transfer
      <4>2. file' = WriteAt(file, t.pos, t.v)
        BY <2>3 DEF Write
      <4>3. file \in Seq(Versions \union {None})
        BY DEF Types
      <4> HIDE DEF TInv
      <4> QED BY <4>1, <4>2, <4>3, WriteType
    <3>6. Listed(transfers')
      BY <3>3, <3>4
    <3> QED BY <2>3, <3>5, <3>6, ListedSuffices DEF Write, Types, ghosts
  <2>4. CASE Close(t)
    <3> DEFINE u == [t EXCEPT !.at = "complete"]
    <3>1. u \in Transfer /\ u.id = t.id /\ u.at = "complete"
      BY <2>0 DEF Transfer
    <3>2. Listed((transfers \ {t}) \union {u})
      BY <3>1, StepOfOne
    <3> QED BY <2>4, <3>2, ListedSuffices DEF Close, Becomes, Types, ghosts
  <2>5. CASE Notify(t)
    <3> DEFINE u == [t EXCEPT !.at = "file"]
    <3>1. u \in Transfer /\ u.id = t.id /\ u.at = "file"
      BY <2>0 DEF Transfer
    <3>2. Listed((transfers \ {t}) \union {u}) /\ Listed(transfers \ {t})
      BY <3>1, StepOfOne, EndOfOne
    <3> QED BY <2>5, <3>2, ListedSuffices DEF Notify, Becomes, Ends, Types, ghosts
  <2>6. CASE Register(t)
    <3> DEFINE u(at) == [t EXCEPT !.at = at]
    <3>1. \A at \in {"size", "version"} :
             u(at) \in Transfer /\ u(at).id = t.id /\ u(at).at = at
      BY <2>0 DEF Transfer
    <3>2. /\ \A at \in {"size", "version"} : Listed((transfers \ {t}) \union {u(at)})
          /\ Listed(transfers \ {t})
      BY <3>1, StepOfOne, EndOfOne
    <3>3. Listed(transfers')
      BY <2>6, <3>2 DEF Register, Becomes, Ends
    <3>4. updateVersion \in Versions
      BY DEF Types
    <3>5. registry' \in Values
      <4>0. t.v \in Versions
        BY <2>0 DEF Transfer
      <4>1. Size[t.v] \in Nat
        BY <4>0, SizeIsPositive
      <4>2. registry \in Values
        BY DEF Types
      <4>3. \/ registry' = [registry EXCEPT !.file = TRUE]
            \/ registry' = [registry EXCEPT !.size = Size[t.v]]
            \/ registry' = [registry EXCEPT !.version = updateVersion]
        BY <2>6 DEF Register
      <4> HIDE DEF TInv
      <4> QED BY <3>4, <4>1, <4>2, <4>3, ValuesKeepType
    <3> QED BY <2>0, <2>6, <3>3, <3>5, ListedSuffices DEF Register, Types, ghosts
  <2> QED BY <1>6, <2>1, <2>2, <2>3, <2>4, <2>5, <2>6 DEF Worker
<1>7. ASSUME NEW t \in transfers, Break(t) PROVE TInv'
  BY <1>7 DEF Break, Ends, Types, Alone, Listed, Idle, ghosts
<1>8. CASE Stop
  BY <1>8 DEF Stop, Types, Alone, Listed, ghosts
<1>9. CASE Exit
  BY <1>9 DEF Exit, Types, Alone, Listed, ghosts
<1>10. CASE Crash
  BY <1>10 DEF Crash, Types, Alone, Listed, Idle, ghosts
<1>11. CASE Install
  <2>1. version' \in Versions
    <3>1. CASE \E v \in Versions : file = Whole(v)
      <4>1. PICK v \in Versions : file = Whole(v)
        BY <3>1
      <4>2. file[1] = v
        BY <4>1 DEF Whole
      <4> QED BY <1>11, <3>1, <4>2 DEF Install
    <3>2. CASE ~\E v \in Versions : file = Whole(v)
      BY <1>11, <3>2 DEF Install, Types
    <3> QED BY <3>1, <3>2
  <2>2. /\ phase = "down" /\ phase' = "clearing" /\ cleared' = 0
        /\ UNCHANGED <<offer, check, updateVersion, file, transfers, registry, faults>>
    BY <1>11 DEF Install, ghosts
  <2> HIDE DEF TInv
  <2> QED BY <2>1, <2>2 DEF TInv, Types, Alone, Listed
<1>12. CASE ClearUpdateInfo
  <2>1. cleared \in 0..2
    BY <1>12 DEF ClearUpdateInfo, Alone, Listed
  <2>2. \/ cleared = 0 /\ registry' = [registry EXCEPT !.file = FALSE]
        \/ cleared = 1 /\ registry' = [registry EXCEPT !.size = 0]
        \/ cleared = 2 /\ registry' = [registry EXCEPT !.version = 0]
    BY <1>12, <2>1 DEF ClearUpdateInfo
  <2>3. registry' \in Values
    <3>1. registry \in Values
      BY DEF Types
    <3>2. FALSE \in BOOLEAN /\ 0 \in Nat /\ 0 \in Versions \union {0}
      OBVIOUS
    <3> HIDE DEF TInv
    <3>3. /\ [registry EXCEPT !.file = FALSE] \in Values
          /\ [registry EXCEPT !.size = 0] \in Values
          /\ [registry EXCEPT !.version = 0] \in Values
      BY <3>1, <3>2, ValuesKeepType
    <3> QED BY <2>2, <3>3
  <2> QED BY <1>12, <2>1, <2>3 DEF ClearUpdateInfo, Types, Alone, Listed, Idle, ghosts
<1>13. CASE Start
  BY <1>13 DEF Start, Types, Alone, Listed, Idle, ghosts
<1>14. CASE UNCHANGED vars
  BY <1>14 DEF vars, Types, Alone, Listed
<1> QED
  BY <1>1, <1>2, <1>3, <1>4, <1>5, <1>6, <1>7, <1>8, <1>9, <1>10, <1>11, <1>12, <1>13,
     <1>14 DEF Next

-----------------------------------------------------------------------------
(* What a transfer may rely on: it is for the version m_UpdateVersion, its   *)
(* position is not behind the end of the file, and what it registers is      *)
(* so.                                                                       *)
Sound(t) ==
    /\ t.v = updateVersion
    /\ t.at \in {"sent", "writing"} => t.pos <= Len(file)
    /\ t.at \in {"file", "size", "version"} => file = Whole(t.v)
    /\ t.at \in {"size", "version"} => registry.file
    /\ t.at = "version" => registry.size = Size[t.v]
    /\ registry.version > version => t.v = registry.version

(* The file is a part of the setup program of v, from its beginning.         *)
PartsOf(f, v) == Len(f) <= Size[v] /\ \A i \in 1..Len(f) : f[i] = v

(* The part of the invariant that holds while both ghosts are FALSE.         *)
Good ==
    /\ \A t \in transfers : Sound(t)
    /\ check.at = "found" => check.v = updateVersion
    /\ transfers # {} => PartsOf(file, updateVersion)
    /\ registry.version > version =>
          /\ registry.file
          /\ registry.size = Size[registry.version]
          /\ file = Whole(registry.version)
    /\ phase = "clearing" => ~(registry.version > version)

(* The inductive invariant.                                                  *)
Inv == TInv /\ (~crossed /\ ~replaced => Good)

(* A file that is part of the setup program of v and as long is all of it.   *)
LEMMA WholeIs ==
    ASSUME NEW v \in Versions
    PROVE  /\ Len(Whole(v)) = Size[v]
           /\ Whole(v)[1] = v
           /\ \A f \in Seq(Versions \union {None}) :
                 PartsOf(f, v) /\ Len(f) = Size[v] => f = Whole(v)
BY SizeIsPositive DEF Whole, PartsOf

(* Writing a part of v to such a file, nowhere behind its end, leaves one,   *)
(* which is no shorter; writing to a whole one changes nothing.              *)
LEMMA WriteKeeps ==
    ASSUME NEW v \in Versions, NEW f \in Seq(Versions \union {None}), PartsOf(f, v),
           NEW n \in Nat, n <= Len(f), n < Size[v]
    PROVE  /\ PartsOf(WriteAt(f, n, v), v)
           /\ Len(WriteAt(f, n, v)) >= Len(f)
           /\ n + 1 <= Len(WriteAt(f, n, v))
           /\ f = Whole(v) => WriteAt(f, n, v) = f
<1> DEFINE g == WriteAt(f, n, v)
<1>1. /\ g \in Seq(Versions \union {None})
      /\ Len(g) = IF Len(f) > n THEN Len(f) ELSE n + 1
      /\ \A i \in 1..Len(g) : g[i] = IF i = n + 1 THEN v
                                     ELSE IF i <= Len(f) THEN f[i] ELSE None
  BY WriteType
<1>2. Size[v] \in Nat /\ Len(f) \in Nat
  BY SizeIsPositive
<1> HIDE DEF g
<1>3. PartsOf(g, v) /\ Len(g) >= Len(f) /\ n + 1 <= Len(g)
  BY <1>1, <1>2 DEF PartsOf
<1>4. f = Whole(v) => g = f
  <2>1. f = Whole(v) => Len(f) = Size[v]
    BY WholeIs
  <2>2. f = Whole(v) => Len(g) = Size[v]
    BY <1>1, <1>2, <2>1
  <2>3. f = Whole(v) => g = Whole(v)
    BY <1>1, <1>3, <2>2, WholeIs
  <2> QED BY <2>3
<1> QED BY <1>3, <1>4 DEF g

(* A step of one transfer that changes nothing else, if the transfer is      *)
(* sound after it.                                                           *)
LEMMA GoodStepOfOne ==
    ASSUME Good, NEW t \in transfers, NEW u, Sound(u),
           transfers' = (transfers \ {t}) \union {u},
           UNCHANGED <<phase, version, check, updateVersion, file, registry>>
    PROVE  Good'
BY DEF Good, Sound, PartsOf, Whole

(* Transfers that end, with nothing else changed.                            *)
LEMMA GoodEndOfSome ==
    ASSUME Good, transfers' \subseteq transfers,
           UNCHANGED <<phase, version, check, updateVersion, file, registry>>
    PROVE  Good'
BY DEF Good, Sound, PartsOf, Whole

(* Every step of a worker keeps Good, that of Notify included.               *)
LEMMA GoodWorker ==
    ASSUME TInv, Good, NEW t \in transfers, Worker(t)
    PROVE  Good'
<1> USE UpdaterAssumption
<1>1. /\ t \in Transfer /\ t.v \in Versions /\ t.pos \in Nat /\ t.v = updateVersion
      /\ file \in Seq(Versions \union {None}) /\ Len(file) \in Nat
      /\ Sound(t) /\ PartsOf(file, t.v) /\ Size[t.v] \in Nat
      /\ registry \in Values /\ version \in Nat
  <2>1. t \in Transfer /\ Sound(t) /\ PartsOf(file, updateVersion)
    BY DEF TInv, Types, Alone, Listed, Good
  <2>2. t.v \in Versions /\ t.pos \in Nat /\ t.v = updateVersion
    BY <2>1 DEF Transfer, Sound
  <2>3. file \in Seq(Versions \union {None}) /\ registry \in Values /\ version \in Nat
    BY DEF TInv, Types
  <2> QED BY <2>1, <2>2, <2>3, SizeIsPositive
<1>2. CASE Send(t)
  <2>1. PICK code \in Codes(t) :
           Becomes(t, [t EXCEPT !.at = "sent", !.code = code, !.pos = Len(file)])
    BY <1>2 DEF Send
  <2> DEFINE u == [t EXCEPT !.at = "sent", !.code = code, !.pos = Len(file)]
  <2>2. u.at = "sent" /\ u.v = t.v /\ u.pos = Len(file)
    BY <1>1 DEF Transfer
  <2>3. transfers' = (transfers \ {t}) \union {u}
    BY <2>1 DEF Becomes
  <2> HIDE DEF u
  <2>4. Sound(u)
    BY <1>1, <2>2 DEF Sound
  <2> QED BY <1>2, <2>3, <2>4, GoodStepOfOne DEF Send
<1>3. CASE Open(t)
  <2>0. UNCHANGED <<phase, version, check, updateVersion, file, registry>>
    BY <1>3 DEF Open
  <2>1. CASE Ends(t)
    BY <2>0, <2>1, GoodEndOfSome DEF Ends
  <2>2. CASE Becomes(t, [t EXCEPT !.at = "complete"])
    <3> DEFINE u == [t EXCEPT !.at = "complete"]
    <3>1. u.at = "complete" /\ u.v = t.v
      BY <1>1 DEF Transfer
    <3>2. transfers' = (transfers \ {t}) \union {u}
      BY <2>2 DEF Becomes
    <3> HIDE DEF u
    <3>3. Sound(u)
      BY <1>1, <3>1 DEF Sound
    <3> QED BY <2>0, <3>2, <3>3, GoodStepOfOne
  <2>3. CASE Becomes(t, [t EXCEPT !.at = "writing",
                                  !.pos = IF t.code = 206 THEN t.pos ELSE 0])
    <3> DEFINE u == [t EXCEPT !.at = "writing",
                              !.pos = IF t.code = 206 THEN t.pos ELSE 0]
    <3>1. u.at = "writing" /\ u.v = t.v /\ u.pos = IF t.code = 206 THEN t.pos ELSE 0
      BY <1>1 DEF Transfer
    <3>2. transfers' = (transfers \ {t}) \union {u}
      BY <2>3 DEF Becomes
    <3> HIDE DEF u
    <3>3. t.at = "sent"
      BY <1>3 DEF Open
    <3>4. Sound(u)
      BY <1>1, <3>1, <3>3 DEF Sound
    <3> QED BY <2>0, <3>2, <3>4, GoodStepOfOne
  <2> QED BY <1>3, <2>1, <2>2, <2>3, Zenon DEF Open
<1>4. CASE Write(t)
  <2> DEFINE u == [t EXCEPT !.pos = t.pos + 1]
  <2>1. u.at = "writing" /\ u.v = t.v /\ u.pos = t.pos + 1 /\ t.at = "writing"
    BY <1>1, <1>4 DEF Transfer, Write
  <2>2. transfers' = (transfers \ {t}) \union {u}
    BY <1>4 DEF Write, Becomes
  <2> HIDE DEF u
  <2>3. /\ file' = WriteAt(file, t.pos, t.v) /\ t.pos < Size[t.v]
        /\ UNCHANGED <<phase, version, check, updateVersion, registry>>
    BY <1>4 DEF Write
  <2>4. t.pos <= Len(file)
    BY <1>1, <2>1 DEF Sound
  <2>5. /\ PartsOf(file', t.v) /\ Len(file') >= Len(file) /\ t.pos + 1 <= Len(file')
        /\ file = Whole(t.v) => file' = file
    BY <1>1, <2>3, <2>4, WriteKeeps
  <2>6. Len(file') \in Nat
    BY <1>1, <2>3, WriteType
  <2>7. ASSUME NEW x \in transfers' PROVE Sound(x)'
    <3>1. CASE x = u
      BY <1>1, <2>1, <2>3, <2>5, <3>1 DEF Sound
    <3>2. CASE x \in transfers
      <4>1. Sound(x) /\ x.pos \in Nat
        BY <3>2 DEF TInv, Alone, Listed, Good, Transfer
      <4>2. file = Whole(x.v) => file' = file
        BY <1>1, <2>5, <4>1 DEF Sound
      <4> QED BY <1>1, <2>3, <2>5, <2>6, <4>1, <4>2 DEF Sound, Whole
    <3> QED BY <2>2, <3>1, <3>2
  <2>8. registry.version > version => file' = file
    BY <1>1, <2>5 DEF Good, Sound
  <2>9. PartsOf(file, updateVersion)'
    BY <1>1, <2>3, <2>5 DEF PartsOf
  <2> QED BY <2>3, <2>7, <2>8, <2>9 DEF Good, Whole
<1>5. CASE Close(t)
  <2> DEFINE u == [t EXCEPT !.at = "complete"]
  <2>1. u.at = "complete" /\ u.v = t.v
    BY <1>1 DEF Transfer
  <2>2. transfers' = (transfers \ {t}) \union {u}
    BY <1>5 DEF Close, Becomes
  <2> HIDE DEF u
  <2>3. Sound(u)
    BY <1>1, <2>1 DEF Sound
  <2> QED BY <1>5, <2>2, <2>3, GoodStepOfOne DEF Close
<1>6. CASE Notify(t)
  <2>1. CASE Accepted(t)
    <3> DEFINE u == [t EXCEPT !.at = "file"]
    <3>1. u.at = "file" /\ u.v = t.v
      BY <1>1 DEF Transfer
    <3>2. transfers' = (transfers \ {t}) \union {u}
      BY <1>6, <2>1 DEF Notify, Becomes
    <3> HIDE DEF u
    <3>3. file = Whole(t.v)
      BY <1>1, <2>1, WholeIs DEF Accepted
    <3>4. Sound(u)
      BY <1>1, <3>1, <3>3 DEF Sound
    <3> QED BY <1>6, <3>2, <3>4, GoodStepOfOne DEF Notify
  <2>2. CASE ~Accepted(t)
    BY <1>6, <2>2, GoodEndOfSome DEF Notify, Ends
  <2> QED BY <2>1, <2>2
<1>7. CASE Register(t)
  <2>0. UNCHANGED <<phase, version, check, updateVersion, file>>
    BY <1>7 DEF Register
  <2>1. phase # "clearing"
    BY DEF TInv, Alone, Listed
  <2>2. CASE t.at = "file"
    <3> DEFINE u == [t EXCEPT !.at = "size"]
    <3>1. u.at = "size" /\ u.v = t.v
      BY <1>1 DEF Transfer
    <3>2. transfers' = (transfers \ {t}) \union {u}
      BY <1>7, <2>2 DEF Register, Becomes
    <3>3. /\ registry'.file /\ registry'.size = registry.size
          /\ registry'.version = registry.version
      BY <1>1, <1>7, <2>2 DEF Register, Values
    <3> HIDE DEF u
    <3>4. \A x \in transfers' : Sound(x)'
      BY <1>1, <2>0, <2>2, <3>1, <3>2, <3>3 DEF Good, Sound, Whole
    <3> QED BY <2>0, <2>1, <3>2, <3>3, <3>4 DEF Good, PartsOf, Whole
  <2>3. CASE t.at = "size"
    <3> DEFINE u == [t EXCEPT !.at = "version"]
    <3>1. u.at = "version" /\ u.v = t.v
      BY <1>1 DEF Transfer
    <3>2. transfers' = (transfers \ {t}) \union {u}
      BY <1>7, <2>3 DEF Register, Becomes
    <3>3. /\ registry'.file = registry.file /\ registry'.size = Size[t.v]
          /\ registry'.version = registry.version
      BY <1>1, <1>7, <2>3 DEF Register, Values
    <3> HIDE DEF u
    <3>4. \A x \in transfers' : Sound(x)'
      BY <1>1, <2>0, <2>3, <3>1, <3>2, <3>3 DEF Good, Sound, Whole
    <3>5. registry.version > version => t.v = registry.version
      BY <1>1 DEF Sound
    <3> QED BY <2>0, <2>1, <3>2, <3>3, <3>4, <3>5 DEF Good, PartsOf, Whole
  <2>4. CASE t.at = "version"
    <3>1. transfers' = transfers \ {t}
      BY <1>7, <2>4 DEF Register, Ends
    <3>2. /\ registry'.file = registry.file /\ registry'.size = registry.size
          /\ registry'.version = updateVersion
      BY <1>1, <1>7, <2>4 DEF Register, Values
    <3>3. file = Whole(t.v) /\ registry.file /\ registry.size = Size[t.v]
      BY <1>1, <2>4 DEF Sound
    <3>4. \A x \in transfers' : Sound(x)'
      BY <2>0, <3>1, <3>2 DEF Good, Sound, Whole
    <3> QED BY <1>1, <2>0, <2>1, <3>1, <3>2, <3>3, <3>4 DEF Good, PartsOf, Whole
  <2> QED BY <1>7, <2>2, <2>3, <2>4 DEF Register
<1> QED BY <1>2, <1>3, <1>4, <1>5, <1>6, <1>7 DEF Worker

(* Every step keeps Good, unless it sets a ghost.                            *)
LEMMA GoodStep ==
    ASSUME TInv, Good, [Next]_vars, ~crossed', ~replaced'
    PROVE  Good'
<1> USE UpdaterAssumption
<1>0. /\ version \in Nat /\ registry \in Values
      /\ phase \in {"down", "clearing"} => transfers = {} /\ check.at = "idle"
  BY DEF TInv, Types, Alone, Listed, Idle
<1>1. CASE Release
  BY <1>1, GoodEndOfSome DEF Release
<1>2. CASE Ask
  BY <1>2 DEF Ask, Good, Sound, PartsOf, Whole, ghosts
<1>3. CASE Found
  <2>1. /\ \A t \in transfers : t.v = offer
        /\ updateVersion' = offer /\ check'.v = offer
        /\ UNCHANGED <<phase, version, file, transfers, registry>>
    BY <1>3 DEF Found
  <2>2. transfers # {} => updateVersion' = updateVersion
    BY <2>1 DEF Good, Sound
  <2>3. \A t \in transfers' : Sound(t)'
    BY <2>1, <2>2 DEF Good, Sound, Whole
  <2> QED BY <2>1, <2>2, <2>3 DEF Good, PartsOf, Whole
<1>4. CASE NotFound
  BY <1>4 DEF NotFound, Good, Sound, PartsOf, Whole, Idle, ghosts
<1>5. CASE DownloadUpdate
  <2>1. check.at = "found" /\ check.v = updateVersion /\ check'.at = "idle"
    BY <1>5 DEF DownloadUpdate, Good, Idle
  <2>2. /\ UNCHANGED <<phase, version, updateVersion, registry>> /\ file' = Emptied
        /\ ~InUse => ~IsValidUpdate /\ ~Registering
    BY <1>5 DEF DownloadUpdate
  <2>3. phase # "clearing"
    BY <1>0, <2>1
  <2>4. PICK new : /\ new.at = "queued" /\ new.v = check.v
                   /\ transfers' = transfers \union {new}
    BY <1>5 DEF DownloadUpdate
  <2>5. CASE InUse
    <3>1. PICK t \in transfers : t.at = "writing"
      BY <2>5 DEF InUse
    <3>2. Sound(t) /\ PartsOf(file, updateVersion)
      BY <3>1 DEF Good
    <3>3. file' = file
      BY <2>2, <2>5 DEF Emptied
    <3>4. \A x \in transfers' : Sound(x)'
      BY <2>1, <2>2, <2>4, <3>2, <3>3 DEF Good, Sound, Whole
    <3>5. PartsOf(file, updateVersion)'
      BY <2>2, <3>2, <3>3 DEF PartsOf
    <3> QED BY <2>1, <2>2, <2>3, <3>3, <3>4, <3>5 DEF Good, Whole
  <2>6. CASE ~InUse
    <3>1. file' = <<>>
      BY <2>2, <2>6 DEF Emptied
    <3>2. ~(registry.version > version)
      <4>1. ASSUME registry.version > version PROVE FALSE
        <5>1. registry.version \in Versions
          BY <1>0, <4>1 DEF Values
        <5>2. /\ registry.file /\ registry.size = Size[registry.version]
              /\ Len(file) = Size[registry.version]
          BY <4>1, <5>1, WholeIs DEF Good
        <5>3. IsValidUpdate
          BY <4>1, <5>1, <5>2, SizeIsPositive DEF IsValidUpdate
        <5> QED BY <2>2, <2>6, <5>3
      <4> QED BY <4>1
    <3>3. \A t \in transfers : t.at \notin {"sent", "writing", "file", "size", "version"}
      <4>1. \A t \in transfers : t.at \notin {"queued", "sent"}
        BY <2>1 DEF TInv, Alone, Listed
      <4>2. \A t \in transfers : t.at \notin {"writing", "file", "size", "version"}
        BY <2>2, <2>6 DEF InUse, Registering
      <4> QED BY <4>1, <4>2
    <3>4. \A x \in transfers' : Sound(x)'
      BY <2>1, <2>2, <2>4, <3>2, <3>3 DEF Good, Sound
    <3>5. PartsOf(file, updateVersion)'
      <4>1. updateVersion \in Versions
        BY <2>1 DEF TInv, Types
      <4> QED BY <2>2, <3>1, <4>1, SizeIsPositive DEF PartsOf
    <3> QED BY <2>1, <2>2, <2>3, <3>2, <3>4, <3>5 DEF Good
  <2> QED BY <2>5, <2>6
<1>6. ASSUME NEW t \in transfers, Worker(t) PROVE Good'
  BY <1>6, GoodWorker
<1>7. ASSUME NEW t \in transfers, Break(t) PROVE Good'
  BY <1>7, GoodEndOfSome DEF Break, Ends
<1>8. CASE Stop
  BY <1>8 DEF Stop, Good, Sound, PartsOf, Whole
<1>9. CASE Exit
  BY <1>9 DEF Exit, Good, Sound, PartsOf, Whole
<1>10. CASE Crash
  BY <1>10 DEF Crash, Good, Sound, PartsOf, Whole, Idle, ghosts
<1>11. CASE Install
  <2>1. /\ IsValidUpdate /\ transfers = {} /\ check.at = "idle"
        /\ UNCHANGED <<check, updateVersion, file, transfers, registry>>
        /\ version' = IF \E v \in Versions : file = Whole(v) THEN file[1] ELSE version
    BY <1>0, <1>11 DEF Install
  <2>2. registry.version \in Versions /\ file = Whole(registry.version)
    BY <1>0, <2>1 DEF IsValidUpdate, Values, Good
  <2>3. version' = registry.version
    BY <2>1, <2>2, WholeIs
  <2>4. ~(registry'.version > version')
    <3>1. registry.version \in Nat
      BY <2>2, VersionIsNat
    <3>2. registry'.version = version'
      BY <2>1, <2>3
    <3> QED BY <2>1, <3>1, <3>2
  <2> QED BY <2>1, <2>4 DEF Good
<1>12. CASE ClearUpdateInfo
  <2>1. /\ transfers = {} /\ check.at = "idle" /\ ~(registry.version > version)
        /\ UNCHANGED <<version, check, transfers>>
    BY <1>0, <1>12 DEF ClearUpdateInfo, Good
  <2>2. registry'.version \in {registry.version, 0}
    <3>1. cleared \in 0..2
      BY <1>12 DEF ClearUpdateInfo, TInv, Alone
    <3>2. \/ registry' = [registry EXCEPT !.file = FALSE]
          \/ registry' = [registry EXCEPT !.size = 0]
          \/ registry' = [registry EXCEPT !.version = 0]
      BY <1>12, <3>1 DEF ClearUpdateInfo
    <3> QED BY <1>0, <3>2 DEF Values
  <2>3. registry.version \in Nat
    <3>1. registry.version \in Versions \union {0}
      BY <1>0 DEF Values
    <3> QED BY <3>1, VersionIsNat
  <2>4. ~(registry'.version > version')
    BY <1>0, <2>1, <2>2, <2>3
  <2> QED BY <2>1, <2>4 DEF Good
<1>13. CASE Start
  BY <1>0, <1>13 DEF Start, Good, Whole
<1>14. CASE UNCHANGED vars
  BY <1>14, GoodEndOfSome DEF vars
<1> QED
  BY <1>1, <1>2, <1>3, <1>4, <1>5, <1>6, <1>7, <1>8, <1>9, <1>10, <1>11, <1>12, <1>13,
     <1>14 DEF Next

(* The ghosts are never reset.                                               *)
Stay == (crossed => crossed') /\ (replaced => replaced')

LEMMA FlagsStay == [Next]_vars => Stay
<1> SUFFICES ASSUME [Next]_vars PROVE Stay
  OBVIOUS
<1>1. CASE Found \/ DownloadUpdate
  <2>1. CASE Found
    <3>1. /\ crossed' = (crossed \/ \E t \in transfers : t.v # offer)
          /\ replaced' = replaced
      BY <2>1 DEF Found
    <3> QED BY <3>1, Zenon DEF Stay
  <2>2. CASE DownloadUpdate
    <3>1. /\ replaced' = (replaced \/ (~InUse /\ (IsValidUpdate \/ Registering)))
          /\ crossed' = crossed
      BY <2>2 DEF DownloadUpdate
    <3> QED BY <3>1, Zenon DEF Stay
  <2> QED BY <1>1, <2>1, <2>2
<1>2. ASSUME UNCHANGED ghosts PROVE Stay
  BY <1>2 DEF ghosts, Stay
<1>3. ASSUME NEW t \in transfers, Worker(t) \/ Break(t) PROVE Stay
  <2>1. UNCHANGED ghosts
    BY <1>3 DEF Worker, Send, Open, Write, Close, Notify, Register, Break
  <2> QED BY <1>2, <2>1
<1>4. CASE Release \/ Ask \/ NotFound \/ Stop \/ Exit
  <2>1. UNCHANGED ghosts
    BY <1>4 DEF Release, Ask, NotFound, Stop, Exit
  <2> QED BY <1>2, <2>1
<1>5. CASE Crash \/ Install \/ ClearUpdateInfo \/ Start
  <2>1. UNCHANGED ghosts
    BY <1>5 DEF Crash, Install, ClearUpdateInfo, Start
  <2> QED BY <1>2, <2>1
<1>6. CASE UNCHANGED vars
  <2>1. UNCHANGED ghosts
    BY <1>6 DEF vars, ghosts
  <2> QED BY <1>2, <2>1
<1> QED BY <1>1, <1>3, <1>4, <1>5, <1>6 DEF Next

(* Inv is inductive.                                                         *)
LEMMA Invariance == Spec => []Inv
<1>1. Init => Inv
  BY InitTypes, UpdaterAssumption
     DEF Init, Inv, Good, Idle, Nothing, TInv, Types
<1>2. Inv /\ [Next]_vars => Inv'
  BY TypesStep, GoodStep, FlagsStay DEF Inv, Stay
<1> QED BY <1>1, <1>2, PTL DEF Spec

(* Types, and a transfer never writes behind the end of its version.         *)
THEOREM TypeCorrect == Spec => []TypeOK
<1>1. Inv => TypeOK
  BY DEF Inv, TInv, Types, Alone, Listed, Transfer, Values, TypeOK
<1> QED BY <1>1, Invariance, PTL

(* What IsValidUpdate accepts is the whole setup program of the registered   *)
(* version, whatever transfers overlapped, broke or were resumed, and        *)
(* wherever a crash fell.                                                    *)
THEOREM OnlyWholeUpdates == Spec => []RegisteredIsWhole
<1>1. Inv => RegisteredIsWhole
  BY DEF Inv, Good, RegisteredIsWhole, IsValidUpdate
<1> QED BY <1>1, Invariance, PTL

(* A start that runs the setup program (_tWinMain) installs a newer          *)
(* version.                                                                  *)
THEOREM LaunchesUpdate == Spec => LaunchUpdates
<1>1. ASSUME Inv, [Next]_vars, phase = "down", phase' = "clearing", ~crossed, ~replaced
      PROVE  version' > version
  <2> USE UpdaterAssumption
  <2>1. transfers = {}
    BY <1>1 DEF Inv, TInv, Alone, Listed
  <2>2. Install
    BY <1>1, <2>1 DEF Next, vars, Release, Ask, Found, NotFound, DownloadUpdate, Stop, Exit,
       Crash, ClearUpdateInfo, Start
  <2>3. registry.version > version /\ file = Whole(registry.version)
    BY <1>1, <2>2 DEF Install, IsValidUpdate, Inv, Good
  <2>4. registry.version \in Versions
    BY <1>1, <2>3 DEF Inv, TInv, Types, Values
  <2>5. version' = registry.version
    BY <2>2, <2>3, <2>4, WholeIs DEF Install
  <2> QED BY <2>3, <2>5
<1>2. Inv /\ [Next]_vars
      => [phase = "down" /\ phase' = "clearing" /\ ~crossed /\ ~replaced
          => version' > version]_vars
  BY <1>1
<1> QED BY <1>2, Invariance, PTL DEF Spec, LaunchUpdates
==============================================================================
