\* Two orders without a mapping, import runs overlapping, nothing fails.
CONSTANTS
    Orders = {1, 2}
    PlentyIds = {1}
    Importers = {i1, i2}
    Confirmers = {}
    Shippers = {}
    Hooks = {}
    Retriers = {}
    None = None
    PageSize = 2
    MaxAttempts = 2
    MaxFaults = 0
    RepeatOk = TRUE
SPECIFICATION QueuedSpec
PROPERTIES WaitingOrdersGetRecorded RunsEnd
\* All orders shipped is an end: nothing is left to do in the bounded world.
CHECK_DEADLOCK FALSE
