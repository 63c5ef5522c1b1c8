SPECIFICATION Spec
CONSTANTS
    a = a
    b = b
    r1 = r1
    Sessions <- OneChat
    FirstSession = a
    MaxSends = 2
    MaxTexts = 2
    Resumers <- OneResumer
    MaxIncidents = 1
    NudgeCap = 1
PROPERTIES StopHitsOwnRun
CHECK_DEADLOCK FALSE
