CONSTANTS
    NKiss <- MC_NKiss
    Chans <- MC_Chans
    Others <- MC_Others
    MaxDisrupt <- MC_MaxDisrupt
    SpawnFails = FALSE
SPECIFICATION FairSpec
INVARIANTS
    TypeOK
    GroupNamesCurrent
    CommittedGroupComplete
    ReleaseOrder
PROPERTIES
    StopHonoured
    AnnounceSettles
    ImplementsLifecycle
CHECK_DEADLOCK FALSE
