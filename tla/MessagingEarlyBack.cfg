SPECIFICATION Spec
CONSTANTS
    rex = rex
    luna = luna
    nobody = nobody
    NoOne = nobody
    Partners <- MCPartners
    MaxViews = 2
    MaxMessages = 1
    MaxDocs = 1
    CallsMayFail = FALSE
    BackWaits = FALSE
CHECK_DEADLOCK FALSE
INVARIANT OnlyPartnerMessages
