SPECIFICATION Spec
CONSTANTS
    a = a
    b = b
    r1 = r1
    Sessions <- TwoChats
    FirstSession = a
    MaxSends = 2
    MaxTexts = 1
    Resumers <- OneResumer
    MaxIncidents = 1
    NudgeCap = 1
INVARIANTS TypeOK RegistryIsLive BusyHasOwner
PROPERTIES StopHitsNothingNewer PostsInOrder QueueKeepsDrainer
CHECK_DEADLOCK FALSE
