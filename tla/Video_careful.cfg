SPECIFICATION Spec
CONSTANTS
    Widgets = {w1, w2}
    SlotKind <- VideosAndCamera
    Watched = {"completed", "stopped"}
    Liberties = {}
    CloseFails = FALSE
    EventsAfterClose = TRUE
    MaxOpens = 3
    MaxEvents = 3
    MaxRegs = 2
SYMMETRY Symmetry
CHECK_DEADLOCK FALSE
INVARIANTS
    PlayersHeld SocketsHeld SessionIntact SlotsReturned VsyncInSession NoCallbackOfEarlier CallbacksKept
