SPECIFICATION Spec
CONSTANTS
    rex = rex
    luna = luna
    Partners <- MCPartners
    Owner <- BothRex
    MaxLoads = 1
    MaxFailures = 0
    MaxNews = 1
CHECK_DEADLOCK FALSE
INVARIANT NoFalseAlarm
