SPECIFICATION FulfillmentFairSpec
CONSTANTS
    Workers = {w1, w2}
    ReportMayFail = FALSE
    ForeignRefunds = {}
    RefundReplies <- UsualRefundReplies
CHECK_DEADLOCK FALSE
PROPERTIES Converges
