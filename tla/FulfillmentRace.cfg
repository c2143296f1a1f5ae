SPECIFICATION Spec
CONSTANTS
    Workers = {w1, w2}
    Carriers = {c1, c2}
    MaxAttempts = 2
    ReportMayFail = TRUE
    ForeignRefunds = {"full"}
    RefundReplies <- UsualRefundReplies
CHECK_DEADLOCK FALSE
SYMMETRY Symmetry
CONSTRAINT ThreeAtATime
INVARIANTS FulfillmentIsEvidence RefundJustified MoneyReturnedIsReal RefundAfterMailMeansRetraction
PROPERTIES NoAttemptAfterAcceptance
