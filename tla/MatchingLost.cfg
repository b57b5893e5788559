SPECIFICATION FairSpec
CONSTANTS
    a = a
    b = b
    c = c
    noUid = noUid
    NoUid = noUid
    Users <- Pair
    Cards <- PairCards
    MaxDeliveries = 1
    CallsMayFail = FALSE
    MayReclaim = TRUE
CHECK_DEADLOCK FALSE
PROPERTY MutualSwipesMatch
