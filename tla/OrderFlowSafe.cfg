\* Every kind of session against one order, two import runs overlapping.
CONSTANTS
    Orders = {1}
    PlentyIds = {1, 2}
    Importers = {i1, i2}
    Confirmers = {c1}
    Shippers = {s1}
    Hooks = {h1}
    Retriers = {r1}
    None = None
    PageSize = 1
    MaxAttempts = 2
    MaxFaults = 1
    RepeatOk = FALSE
SPECIFICATION Spec
INVARIANTS TypeOK RecordNamesOwnOrder RecordNeverAhead AcceptedOnlyIfCreated
           ShippedOnlyIfDispatched IInv
PROPERTY KeepsPromise
SYMMETRY Symmetry
\* All orders shipped is an end: nothing is left to do in the bounded world.
CHECK_DEADLOCK FALSE
