CONSTANTS
    NKiss <- MC_NKiss
    Chans <- MC_Chans
SPECIFICATION Spec
INVARIANTS
    TypeOK
    WriteInBounds
    ContextAgrees
\* dns_sd_create_context returns after MAX_KISS_TCP_PORTS turns.
CHECK_DEADLOCK FALSE
