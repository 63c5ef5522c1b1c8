SPECIFICATION FairSpec
CONSTANTS
    a = a
    b = b
    r1 = r1
    Sessions <- OneChat
    FirstSession = a
    MaxSends = 2
    MaxTexts = 1
    Resumers <- NoResumer
    MaxIncidents = 1
    NudgeCap = 0
PROPERTIES PageComesToRest QueueDrains
CHECK_DEADLOCK FALSE
