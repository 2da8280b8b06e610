\* A run by hand, one of the workflow and one of a script, three in all.
CONSTANTS
    c0 = c0
    c1 = c1
    t0 = t0
    t1 = t1
    Keys = {k}
    Conns = {c0, c1}
    TenantOf <- OfConnection
    Default = c0
    None = None
    Bypass = TRUE
    Versions = {1, 2}
    HeadOf <- Heads
    Hand = {hand}
    Ci = {ci}
    Py = {py}
    NoBackup = NoBackup
    MaxStarts = 3
SPECIFICATION FairSpec
INVARIANTS TypeOK RowsSurvive ServesItsSchema
PROPERTIES UpgradesAreBackedUp SuccessServes ApiComesBack
CHECK_DEADLOCK FALSE
