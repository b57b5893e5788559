SPECIFICATION Spec
CONSTANTS
    a = a
    b = b
    c = c
    noUid = noUid
    NoUid = noUid
    Users <- Trio
    Cards <- TrioCards
    MaxDeliveries = 1
    CallsMayFail = TRUE
    MayReclaim = TRUE
CHECK_DEADLOCK FALSE
INVARIANTS TypeOK SoundMatches NoMissedMatch IInv
PROPERTIES WindowCloses ServiceSpec
