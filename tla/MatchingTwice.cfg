SPECIFICATION Spec
CONSTANTS
    a = a
    b = b
    c = c
    noUid = noUid
    NoUid = noUid
    Users <- Pair
    Cards <- PairCards
    MaxDeliveries = 1
    CallsMayFail = FALSE
    MayReclaim = FALSE
CHECK_DEADLOCK FALSE
INVARIANT AtMostOneMatch
