CONSTANTS
    Versions = {1, 2, 3, 4}
    Size <- MCSize
    MaxFaults = 3
    None = None
SPECIFICATION FairSpec
INVARIANTS TypeOK RegisteredIsWhole
PROPERTIES LaunchUpdates UpdateArrives
