\* Two overlapping runs over the two connections of a tenant.
CONSTANTS
    t1 = t1
    a = a
    b = b
    Tenants = {t1}
    Connections = {a, b}
    TenantOf <- OfOneTenant
    Runs = {r1, r2}
    None = None
    PageSize = 1
    MaxAttempts = 2
    Quotas = {0, 2}
    LastMonth = 1
    MaxCreated = 4
    MaxAborts = 1
    MaxEdits = 1
SPECIFICATION Spec
INVARIANTS TypeOK CountedAreImported OvershootBounded LostOnlyByRollback
           UncountedOnlyByFailure
SYMMETRY Symmetry
\* The bounds on orders and months end a behaviour.
CHECK_DEADLOCK FALSE
