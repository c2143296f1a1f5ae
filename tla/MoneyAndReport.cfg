SPECIFICATION Spec
CONSTANTS
    Workers = {w1, w2}
    Carriers = {c1}
    MaxAttempts = 2
    ReportMayFail = TRUE
    ForeignRefunds = {}
    RefundReplies <- QuickRefundReplies
CHECK_DEADLOCK FALSE
PROPERTIES MoneyOrReport
