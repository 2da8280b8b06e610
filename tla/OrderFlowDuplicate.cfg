\* Two import runs overlap; nothing fails.
CONSTANTS
    Orders = {1}
    PlentyIds = {1, 2}
    Importers = {i1, i2}
    Confirmers = {c1}
    Shippers = {s1}
    Hooks = {}
    Retriers = {}
    None = None
    PageSize = 1
    MaxAttempts = 3
    MaxFaults = 0
    RepeatOk = TRUE
SPECIFICATION Spec
INVARIANT AtMostOnePlentyOrder
\* All orders shipped is an end: nothing is left to do in the bounded world.
CHECK_DEADLOCK FALSE
