SPECIFICATION FairSpec
CONSTANTS
    Orders = {o1, o2}
    Webhooks = {}
    Dispatchers = {}
    Runs = {r1}
    BatchSize = 1
    Refusals = TRUE
PROPERTIES PaymentsAreServed
