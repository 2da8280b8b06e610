\* One run of each task and the webhook; nothing fails.
CONSTANTS
    Orders = {1}
    PlentyIds = {1, 2}
    Importers = {i1}
    Confirmers = {c1}
    Shippers = {s1}
    Hooks = {h1}
    Retriers = {}
    None = None
    PageSize = 1
    MaxAttempts = 3
    MaxFaults = 0
    RepeatOk = TRUE
SPECIFICATION Spec
PROPERTY StatusNeverRegresses
\* All orders shipped is an end: nothing is left to do in the bounded world.
CHECK_DEADLOCK FALSE
