\* Pause and Resume as the UI may really call them.
CONSTANTS
    d1 = d1
    d2 = d2
    None = None
    Downloads <- Two
    Worlds <- HastyWorlds
    Capacity = 8
SPECIFICATION Spec
PROPERTIES PauseIsSilent
CHECK_DEADLOCK FALSE
