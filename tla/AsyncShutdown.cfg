\* A receiver that starts the next download from its Notify.
CONSTANTS
    d1 = d1
    d2 = d2
    None = None
    Downloads <- Two
    Worlds <- ChainedWorlds
    Capacity = 8
SPECIFICATION FairSpec
PROPERTIES StopReturns
CHECK_DEADLOCK FALSE
