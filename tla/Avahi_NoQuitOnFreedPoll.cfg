CONSTANTS
    NKiss <- MC_NKiss
    Chans <- MC_Chans
    Others <- MC_Others
    MaxDisrupt <- MC_MaxDisrupt
    SpawnFails = FALSE
SPECIFICATION Spec
PROPERTIES
    NoQuitOnFreedPoll
CHECK_DEADLOCK FALSE
