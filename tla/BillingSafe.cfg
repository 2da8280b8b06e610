\* Two tenants, two subscriptions, two sessions at a time.
CONSTANTS
    Tenants = {t1, t2}
    Customers = {c1, c2}
    Sessions = {s1, s2}
    None = None
    MaxChanges = 3
    MaxEdits = 1
    MaxFaults = 1
SPECIFICATION Spec
INVARIANTS TypeOK CanceledOnlyIfEnded SettledAgrees IInv
SYMMETRY Symmetry
\* All events answered and none to come is an end.
CHECK_DEADLOCK FALSE
