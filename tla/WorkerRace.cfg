SPECIFICATION FairSpec
CONSTANTS
    Workers = {w1, w2}
    Dispatchers = {d1}
    Readers = {r1}
    ReportIds = {p1, p2, p3, p4}
    NoWorker = NoWorker
    NoReport = NoReport
    MaxTasks = 2
    MaxFaults = 3
CHECK_DEADLOCK FALSE
INVARIANTS TypeOK SuccessIsProtected ServedIsTheReport ReadyHasItsObject WorkIsNeverForgotten
PROPERTIES ImplementsService AnalysisEnds ProtectedSuccessCompletes
