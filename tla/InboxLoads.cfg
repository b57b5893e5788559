SPECIFICATION FairSpec
CONSTANTS
    rex = rex
    luna = luna
    Partners <- MCPartners
    Owner <- OneEach
    MaxLoads = 2
    MaxFailures = 1
    MaxNews = 1
CHECK_DEADLOCK FALSE
INVARIANTS TypeOK QuietMeansShown NoFalseAlarm OnlyErrorsCrash NoDoubleRows
PROPERTY LoadingEnds
