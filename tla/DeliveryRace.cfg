SPECIFICATION FairSpec
CONSTANTS
    Workers = {w1}
    Carriers = {c1, c2}
    MaxAttempts = 3
    ReportMayFail = TRUE
    ForeignRefunds = {}
    RefundReplies <- UsualRefundReplies
CHECK_DEADLOCK FALSE
INVARIANTS DeliveryTypeOK FulfilledMeansAccepted
PROPERTIES ComesToRest
