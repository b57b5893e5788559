SPECIFICATION Spec
CONSTANTS
    rex = rex
    luna = luna
    Partners <- MCPartners
    Owner <- OneEach
    MaxLoads = 1
    MaxFailures = 1
    MaxNews = 1
CHECK_DEADLOCK FALSE
INVARIANT AnswerStands
