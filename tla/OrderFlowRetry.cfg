\* One order whose import failed once, retried while it is being imported.
CONSTANTS
    Orders = {1}
    PlentyIds = {1, 2, 3, 4}
    Importers = {i1}
    Confirmers = {c1}
    Shippers = {}
    Hooks = {}
    Retriers = {r1}
    None = None
    PageSize = 1
    MaxAttempts = 1
    MaxFaults = 1
    RepeatOk = TRUE
SPECIFICATION MappedSpec
PROPERTY RetriedGetsProcessed
\* All orders shipped is an end: nothing is left to do in the bounded world.
CHECK_DEADLOCK FALSE
