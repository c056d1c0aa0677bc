SPECIFICATION Spec
CONSTANTS
    NoLease = NoLease
    MaxDecoders = 1
    Slots = 1
    MaxFrames = 1
    MaxOperations = 1
    MaxRefusals = 0
    Playing = TRUE
INVARIANT
    DeferredFrameHasOwner
