SPECIFICATION Spec
CONSTANTS
    MaxData = 2
    Commands = {1, 5, 6, 19, 20, 21}
    Windows = {1, 2}
    MaxFrames = 3
    MaxLost = 1
CHECK_DEADLOCK FALSE
INVARIANTS
    
    LastFrameWins
    SettingsApplied
PROPERTIES
    
    SettingsSettle
