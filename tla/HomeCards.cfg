SPECIFICATION FairSpec
CONSTANTS
    me = me
    rex = rex
    luna = luna
    nobody = nobody
    Users <- MCUsers
    Me = me
    NoUid = nobody
    MaxFetches = 3
    CallsMayFail = TRUE
CHECK_DEADLOCK FALSE
INVARIANTS TypeOK LoveLikesTheCard NeverOneself DisabledMeansFetching TwoFetchesAtMost
PROPERTY ButtonsComeBack
