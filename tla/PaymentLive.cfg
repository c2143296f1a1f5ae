SPECIFICATION FairSpec
CONSTANTS
    Orders = {o1}
    Sessions = {s1}
    Events = {eDone, eOther, eUnfit}
    Handlers = {h1}
    Recoverers = {r1}
    SessionOrder <- LiveSessionOrder
    EventSession <- LiveEventSession
    EventCandidate <- LiveCandidate
    EventType <- LiveType
    EventFit <- LiveFit
    StripeEdges <- HonestEdges
    Stages <- RunningOrRefunded
    MaxFaults = 1
    NoOrder = NoOrder
    NoSession = NoSession
    NoEvent = NoEvent
    UnknownOrder = UnknownOrder
    o1 = o1
    o2 = o2
    s1 = s1
    s2 = s2
    s3 = s3
    eDone = eDone
    eExpired = eExpired
    eOther = eOther
    eStray = eStray
    eUnfit = eUnfit
CHECK_DEADLOCK FALSE
PROPERTIES LeftoverEventsSettle LostWebhooksHeal
