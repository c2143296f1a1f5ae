SPECIFICATION Spec
CONSTANTS
    Orders = {o1, o2}
    Sessions = {s1, s2, s3}
    Events = {eDone, eExpired, eStray}
    Handlers = {h1}
    Recoverers = {r1}
    SessionOrder <- MixSessionOrder
    EventSession <- MixEventSession
    EventCandidate <- MixCandidate
    EventType <- MixType
    EventFit <- MixFit
    StripeEdges <- HonestEdges
    Stages <- RunningOrRefunded
    MaxFaults = 1
    NoOrder = NoOrder
    NoSession = NoSession
    NoEvent = NoEvent
    UnknownOrder = UnknownOrder
    o1 = o1
    o2 = o2
    s1 = s1
    s2 = s2
    s3 = s3
    eDone = eDone
    eExpired = eExpired
    eOther = eOther
    eStray = eStray
    eUnfit = eUnfit
CHECK_DEADLOCK FALSE
INVARIANTS TypeOK ProcessedEventsHold PaidAuthority ProviderAgreement PollsTellTheTruth
PROPERTIES RefinesAuthority BindingIsFinal
