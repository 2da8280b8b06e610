\* Two orders and a page of one, one run of each task at a time.
CONSTANTS
    Orders = {1, 2}
    PlentyIds = {1, 2, 3, 4}
    Importers = {i1}
    Confirmers = {c1}
    Shippers = {s1}
    Hooks = {}
    Retriers = {}
    None = None
    PageSize = 1
    MaxAttempts = 2
    MaxFaults = 1
    RepeatOk = TRUE
SPECIFICATION FairSpec
INVARIANT SurplusOnlyByFaults
PROPERTIES StatusNeverRegresses MappedOrdersGetShipped
\* All orders shipped is an end: nothing is left to do in the bounded world.
CHECK_DEADLOCK FALSE
