SPECIFICATION FairSpec
CONSTANTS
    a = a
    b = b
    c = c
    noUid = noUid
    NoUid = noUid
    Users <- Pair
    Cards <- PairCards
    MaxDeliveries = 2
    CallsMayFail = FALSE
    MayReclaim = FALSE
CHECK_DEADLOCK FALSE
INVARIANT NoMissedMatch
PROPERTIES WindowCloses MutualSwipesMatch
