SPECIFICATION FairSpec
CONSTANTS
    NoLease = NoLease
    MaxDecoders = 2
    Slots = 3
    MaxFrames = 3
    MaxOperations = 1
    MaxRefusals = 1
    Playing = TRUE
INVARIANTS
    LeaseInv
    LeasedFrameIsHeld
PROPERTIES
    PictureNeverGoesBack
    NewestIsShown
    RetiredDecoderIsFreed
