\* Every order of Pause, Resume, Stop and late callers the code allows, and a
\* UI that pauses, resumes and stops only what the workers have caught up with.
CONSTANTS
    d1 = d1
    d2 = d2
    None = None
    Downloads <- Two
    Worlds <- CoreWorlds
    Capacity = 8
SPECIFICATION FairSpec
INVARIANTS TypeOK ListsOwnRecords EnoughWorkers WorkersHoldTheirOwn
PROPERTIES ImplementsRequests EveryDownloadEnds StopEnds
CHECK_DEADLOCK FALSE
