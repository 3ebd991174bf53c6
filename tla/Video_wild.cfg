SPECIFICATION Spec
CONSTANTS
    Widgets = {w1, w2}
    SlotKind <- TwoVideos
    Watched = {"prepared"}
    Liberties = {"reopen", "linger", "abandon", "stale"}
    CloseFails = TRUE
    EventsAfterClose = FALSE
    MaxOpens = 3
    MaxEvents = 1
    MaxRegs = 1
SYMMETRY Symmetry
CHECK_DEADLOCK FALSE
INVARIANTS
    NoDanglingHandle
