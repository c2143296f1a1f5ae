SPECIFICATION Spec
CONSTANTS
    Orders = {o1}
    Webhooks = {o1}
    Dispatchers = {d1}
    Runs = {r1, r2}
    BatchSize = 1
    Refusals = TRUE
SYMMETRY Symmetry
INVARIANTS PublishedWasTold SuspensionIsReported
PROPERTIES StaleRunsAreFenced
