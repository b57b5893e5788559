SPECIFICATION FairSpec
CONSTANTS
    rex = rex
    luna = luna
    nobody = nobody
    NoOne = nobody
    Partners <- MCPartners
    MaxViews = 2
    MaxMessages = 2
    MaxDocs = 2
    CallsMayFail = TRUE
    BackWaits = TRUE
CHECK_DEADLOCK FALSE
INVARIANTS TypeOK OnlyPartnerMessages ShownOnce OneListener
PROPERTY MessagesShown
