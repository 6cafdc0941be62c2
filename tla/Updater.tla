------------------------------- MODULE Updater -------------------------------
(***************************************************************************)
(* FUpdater (LiberTV/FUpdater.cpp): a thread asks the server once an hour  *)
(* for a newer version and has the HTTP downloader fetch its setup program *)
(* to one file, whose name is always the same.  Notify, on a worker of the *)
(* downloader, registers a complete file; the next start of the program    *)
(* runs what is registered instead of the player.                          *)
(*                                                                         *)
(* A transfer outlives the check that asked for it, and can outlive the    *)
(* next one: they share the file and m_UpdateVersion.  The file is the     *)
(* sequence of its parts; a part is the version it came from.              *)
(***************************************************************************)
EXTENDS Integers, Sequences, FiniteSets, FiniteSetsExt

CONSTANTS Versions,     \* the versions there are, numbers
          Size,         \* the number of parts of the setup program of each
          MaxFaults,   \* bound of the model: see Ask, Break and Crash
          None

ASSUME UpdaterAssumption ==
    /\ Versions \subseteq Nat \ {0}
    /\ IsFiniteSet(Versions)
    /\ Size \in [Versions -> Nat \ {0}]
    /\ MaxFaults \in Nat
    /\ None \notin Versions

VARIABLES
    phase,         \* "down", "running", "stopping", or "clearing" by a launch
    version,       \* the registry value Version: what is installed
    offer,         \* what the server offers, LTV_VERSION
    check,         \* where CheckNewVersionSync is
    updateVersion, \* m_UpdateVersion
    file,          \* ltv_setup.exe, <<>> if there is none or it is empty
    transfers,     \* the transfers the HTTP downloader has for the updater
    registry,      \* UpdateFile, UpdateFileSize, UpdateVersion
    cleared,       \* the deletions of ClearUpdateInfo that are done
    faults,        \* crashes, broken and slow transfers so far
    crossed,       \* ghost: a check crossed a transfer, see Found and DownloadUpdate
    replaced       \* ghost: a check threw away the file of a valid update

vars == <<phase, version, offer, check, updateVersion, file, transfers, registry,
          cleared, faults, crossed, replaced>>

ghosts == <<crossed, replaced>>

(* There are never more: a check finds at most one transfer, see Ask.        *)
Ids == 1..2

Idle    == [at |-> "idle", v |-> None]
Nothing == [file |-> FALSE, size |-> 0, version |-> 0]

Init ==
    /\ phase = "down"
    /\ version \in {v \in Versions : \A w \in Versions : v <= w}
    /\ offer = version
    /\ check = Idle
    /\ updateVersion = None
    /\ file = <<>>
    /\ transfers = {}
    /\ registry = Nothing
    /\ cleared = 0
    /\ faults = 0
    /\ crossed = FALSE
    /\ replaced = FALSE

-----------------------------------------------------------------------------
(* Mutant of IsValidUpdate: any version will do.                             *)
IsValidUpdateAnyVersion == registry.size > 0 /\ registry.file /\ Len(file) = registry.size

(* IsValidUpdate: a file of the registered size and a newer version.         *)
IsValidUpdate ==
    /\ registry.version > version
    /\ registry.size > 0
    /\ registry.file
    /\ Len(file) = registry.size

(* StrCurVersion of CheckNewVersionSync.                                     *)
CurVersion == IF IsValidUpdate THEN registry.version ELSE version

(* A file opened by CAtlFile::Create with share mode 0 can neither be opened *)
(* again nor deleted.                                                        *)
InUse == \E t \in transfers : t.at = "writing"

Registering == \E t \in transfers : t.at \in {"file", "size", "version"}

(* Writing a part of v at offset n; writing behind the end leaves a hole.    *)
WriteAt(f, n, v) ==
    [i \in 1..(IF Len(f) > n THEN Len(f) ELSE n + 1) |->
        IF i = n + 1 THEN v ELSE IF i <= Len(f) THEN f[i] ELSE None]

Becomes(t, u) == transfers' = (transfers \ {t}) \union {u}
Ends(t) == transfers' = transfers \ {t}

-----------------------------------------------------------------------------
(* The server has a newer version.                                           *)
Release ==
    /\ \E v \in Versions : v > offer /\ offer' = v
    /\ UNCHANGED <<phase, version, check, updateVersion, file, transfers, registry,
                   cleared, faults, ghosts>>

(* The thread wakes up, by the timer of the tray window or after an hour,    *)
(* and asks the server, with the version it has now.  A transfer of the      *)
(* check before is answered by then, and has failed or got to the file; that *)
(* it still goes on counts as a fault.                                       *)
Ask ==
    /\ phase = "running"
    /\ check = Idle
    /\ \A t \in transfers : t.at = "writing"
    /\ transfers # {} => faults < MaxFaults
    /\ faults' = IF transfers # {} THEN faults + 1 ELSE faults
    /\ check' = [at |-> "asked", v |-> CurVersion]
    /\ UNCHANGED <<phase, version, offer, updateVersion, file, transfers, registry,
                   cleared, ghosts>>

(* The answer names a version newer than the one that asked.                 *)
Found ==
    /\ check.at = "asked"
    /\ check.v < offer
    /\ updateVersion' = offer
    /\ check' = [at |-> "found", v |-> offer]
    /\ crossed' = (crossed \/ \E t \in transfers : t.v # offer)
    /\ UNCHANGED <<phase, version, offer, file, transfers, registry, cleared, faults,
                   replaced>>

(* There is none, or no answer.                                              *)
NotFound ==
    /\ check.at = "asked"
    /\ check' = Idle
    /\ UNCHANGED <<phase, version, offer, updateVersion, file, transfers, registry,
                   cleared, faults, ghosts>>

(* Mutant of Emptied: the file stays.                                        *)
EmptiedNever == file

(* DeleteFile of a file that may be in use; nobody looks at the result.      *)
Emptied == IF InUse THEN file ELSE <<>>

(* DownloadUpdate: DeleteFile and DownloadURL.                               *)
DownloadUpdate ==
    /\ check.at = "found"
    /\ file' = Emptied
    /\ LET id == CHOOSE n \in Ids : \A t \in transfers : t.id # n
       IN  transfers' = transfers \union
               {[id |-> id, v |-> check.v, at |-> "queued", code |-> 0, pos |-> 0]}
    /\ check' = Idle
    /\ replaced' = (replaced \/ (~InUse /\ (IsValidUpdate \/ Registering)))
    /\ UNCHANGED <<phase, version, offer, updateVersion, registry, cleared, faults,
                   crossed>>

-----------------------------------------------------------------------------
(* Mutant of Codes: the server sends what it has, be it nothing.             *)
CodesNever416(t) == IF file = <<>> THEN {200} ELSE {200, 206}

(* The answer to a request for the rest of the file, if there is one.        *)
Codes(t) ==
    {200} \union (IF file = <<>> THEN {} ELSE IF Len(file) >= Size[t.v] THEN {416} ELSE {206})

(* ProcessDownload on a worker: what is there already is not fetched again   *)
(* if the server can send the rest.                                          *)
Send(t) ==
    /\ t.at = "queued"
    /\ \E code \in Codes(t) :
           Becomes(t, [t EXCEPT !.at = "sent", !.code = code, !.pos = Len(file)])
    /\ UNCHANGED <<phase, version, offer, check, updateVersion, file, registry, cleared,
                   faults, ghosts>>

(* 416, and a 200 for a file of the same length, are taken for a complete    *)
(* file; otherwise the file is opened, without truncating it.                *)
Open(t) ==
    /\ t.at = "sent"
    /\ \/ /\ t.code = 416
          /\ Becomes(t, [t EXCEPT !.at = "complete"])
       \/ /\ t.code # 416
          /\ InUse
          /\ Ends(t)
       \/ /\ t.code = 200
          /\ ~InUse
          /\ t.pos = Size[t.v]
          /\ Becomes(t, [t EXCEPT !.at = "complete"])
       \/ /\ ~InUse
          /\ \/ t.code = 206
             \/ t.code = 200 /\ t.pos # Size[t.v]
          /\ Becomes(t, [t EXCEPT !.at = "writing", !.pos = IF t.code = 206 THEN t.pos ELSE 0])
    /\ UNCHANGED <<phase, version, offer, check, updateVersion, file, registry, cleared,
                   faults, ghosts>>

(* The next part arrives, the last one closes the file.                      *)
Write(t) ==
    /\ t.at = "writing"
    /\ t.pos < Size[t.v]
    /\ file' = WriteAt(file, t.pos, t.v)
    /\ Becomes(t, [t EXCEPT !.pos = t.pos + 1])
    /\ UNCHANGED <<phase, version, offer, check, updateVersion, registry, cleared,
                   faults, ghosts>>

Close(t) ==
    /\ t.at = "writing"
    /\ t.pos = Size[t.v]
    /\ Becomes(t, [t EXCEPT !.at = "complete"])
    /\ UNCHANGED <<phase, version, offer, check, updateVersion, file, registry, cleared,
                   faults, ghosts>>

(* A transfer fails or is aborted; what it has written stays.                *)
Break(t) ==
    /\ t.at \in {"queued", "sent", "writing"}
    /\ phase = "running" => faults < MaxFaults
    /\ faults' = IF phase = "running" THEN faults + 1 ELSE faults
    /\ Ends(t)
    /\ UNCHANGED <<phase, version, offer, check, updateVersion, file, registry, cleared,
                   ghosts>>

(* Mutant of Accepted: any success is taken for a file in one piece.         *)
AcceptedInPieces(t) == t.at = "complete" /\ phase = "running"

(* What Notify takes for a complete file that came in one piece.             *)
Accepted(t) ==
    t.at = "complete" /\ phase = "running" /\ t.code = 200 /\ Len(file) = Size[t.v]

(* Notify on the worker: it is registered, unless the program stops.         *)
Notify(t) ==
    /\ t.at = "complete"
    /\ IF Accepted(t)
       THEN Becomes(t, [t EXCEPT !.at = "file"])
       ELSE Ends(t)
    /\ UNCHANGED <<phase, version, offer, check, updateVersion, file, registry, cleared,
                   faults, ghosts>>

(* The three values are written one after the other.                         *)
Register(t) ==
    /\ \/ /\ t.at = "file"
          /\ registry' = [registry EXCEPT !.file = TRUE]
          /\ Becomes(t, [t EXCEPT !.at = "size"])
       \/ /\ t.at = "size"
          /\ registry' = [registry EXCEPT !.size = Size[t.v]]
          /\ Becomes(t, [t EXCEPT !.at = "version"])
       \/ /\ t.at = "version"
          /\ registry' = [registry EXCEPT !.version = updateVersion]
          /\ Ends(t)
    /\ UNCHANGED <<phase, version, offer, check, updateVersion, file, cleared, faults,
                   ghosts>>

-----------------------------------------------------------------------------
(* OnDestroy of the tray window: Stop of the updater, then of the HTTP       *)
(* downloader, which aborts the transfers and waits for its workers.         *)
Stop ==
    /\ phase = "running"
    /\ phase' = "stopping"
    /\ UNCHANGED <<version, offer, check, updateVersion, file, transfers, registry,
                   cleared, faults, ghosts>>

Exit ==
    /\ phase = "stopping"
    /\ check = Idle
    /\ transfers = {}
    /\ phase' = "down"
    /\ UNCHANGED <<version, offer, check, updateVersion, file, transfers, registry,
                   cleared, faults, ghosts>>

Crash ==
    /\ faults < MaxFaults
    /\ phase # "down"
    /\ phase' = "down"
    /\ faults' = faults + 1
    /\ check' = Idle
    /\ transfers' = {}
    /\ UNCHANGED <<version, offer, updateVersion, file, registry, cleared, ghosts>>

(* _tWinMain: a valid update is run and forgotten.  The setup program of a   *)
(* whole file installs its version, anything else does not run.              *)
Whole(v) == [i \in 1..Size[v] |-> v]

Install ==
    /\ phase = "down"
    /\ IsValidUpdate
    /\ phase' = "clearing"
    /\ cleared' = 0
    /\ version' = IF \E v \in Versions : file = Whole(v) THEN file[1] ELSE version
    /\ UNCHANGED <<offer, check, updateVersion, file, transfers, registry, faults, ghosts>>

ClearUpdateInfo ==
    /\ phase = "clearing"
    /\ registry' = CASE cleared = 0 -> [registry EXCEPT !.file = FALSE]
                     [] cleared = 1 -> [registry EXCEPT !.size = 0]
                     [] cleared = 2 -> [registry EXCEPT !.version = 0]
    /\ cleared' = cleared + 1
    /\ phase' = IF cleared = 2 THEN "down" ELSE phase
    /\ UNCHANGED <<version, offer, check, updateVersion, file, transfers, faults, ghosts>>

(* Otherwise the program starts, with a new FUpdater.                        *)
Start ==
    /\ phase = "down"
    /\ ~IsValidUpdate
    /\ phase' = "running"
    /\ updateVersion' = None
    /\ cleared' = 0
    /\ UNCHANGED <<version, offer, check, file, transfers, registry, faults, ghosts>>

-----------------------------------------------------------------------------
Worker(t) == Send(t) \/ Open(t) \/ Write(t) \/ Close(t) \/ Notify(t) \/ Register(t)

Next ==
    \/ Release \/ Ask \/ Found \/ NotFound \/ DownloadUpdate
    \/ \E t \in transfers : Worker(t) \/ Break(t)
    \/ Stop \/ Exit \/ Crash \/ Install \/ ClearUpdateInfo \/ Start

Spec == Init /\ [][Next]_vars

(* The thread and the workers go on, and a server that has a newer version   *)
(* answers again and again.  Nobody has to start, stop or release anything,  *)
(* and transfers end by themselves: only MaxFaults of them break or outlive  *)
(* the check that follows.                                                   *)
Fairness ==
    /\ WF_vars(Ask) /\ SF_vars(Found) /\ WF_vars(NotFound) /\ WF_vars(DownloadUpdate)
    /\ \A id \in Ids : WF_vars(\E t \in transfers : t.id = id /\ Worker(t))

FairSpec == Spec /\ Fairness

-----------------------------------------------------------------------------
(* Types; a transfer never writes behind the end of its version (two of them *)
(* share the file, and what the second one finds may be longer).             *)
TypeOK ==
    /\ phase \in {"down", "running", "stopping", "clearing"}
    /\ {version, offer} \subseteq Versions
    /\ check \in [at : {"idle", "asked", "found"}, v : Versions \union {None}]
    /\ updateVersion \in Versions \union {None}
    /\ file \in Seq(Versions \union {None})
    /\ transfers \subseteq
           [id : Ids, v : Versions, code : {0, 200, 206, 416}, pos : Nat,
            at : {"queued", "sent", "writing", "complete", "file", "size", "version"}]
    /\ \A t \in transfers : t.at = "writing" => t.pos <= Size[t.v]
    /\ registry \in [file : BOOLEAN, size : Nat, version : Versions \union {0}]

(* What IsValidUpdate accepts, also while Notify is writing the three values *)
(* of another transfer, is the complete setup program of the registered      *)
(* version: whatever transfers of that version overlapped, broke or were     *)
(* resumed, and wherever a crash fell between the values.  Two things break  *)
(* this: the check that finds another version while one is fetched           *)
(* (m_UpdateVersion names the other one then), and the check that throws     *)
(* away the file of a registered update, whose values stay (the new file may *)
(* have just their size).                                                    *)
RegisteredIsWhole ==
    IsValidUpdate /\ ~crossed /\ ~replaced => file = Whole(registry.version)

(* With the same exceptions a start that runs the setup program leads to a   *)
(* newer version: no half file is run, and none a second time because the    *)
(* program died before ClearUpdateInfo was through.                          *)
LaunchUpdates ==
    [][phase = "down" /\ phase' = "clearing" /\ ~crossed /\ ~replaced
       => version' > version]_vars

(* The newest version, once offered, is eventually what the updater has, as  *)
(* long as the program runs: also after broken, resumed and overlapping      *)
(* transfers, files that are in the way, and values left by a crash.         *)
UpdateArrives ==
    (phase = "running" /\ offer = Max(Versions)) ~>
        (phase # "running" \/ CurVersion = Max(Versions))

==============================================================================
