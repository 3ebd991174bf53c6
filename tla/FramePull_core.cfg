SPECIFICATION FairSpec
CONSTANTS
    FirstFrame = 2
    MaxSent = 6
    MaxTimeouts = 3
    Room = 2
INVARIANTS
    RepliesLagGivenUp CacheFresh AnnouncedWithFirstFrame
PROPERTIES
    FramesInOrder UiThreadReturns FrameShown
