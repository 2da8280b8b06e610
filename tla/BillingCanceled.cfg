\* One tenant, one subscription, nothing fails, no operator.
CONSTANTS
    Tenants = {t1}
    Customers = {c1}
    Sessions = {s1, s2}
    None = None
    MaxChanges = 4
    MaxEdits = 0
    MaxFaults = 0
SPECIFICATION FairSpec
PROPERTY CanceledInTheEnd
\* All events answered and none to come is an end.
CHECK_DEADLOCK FALSE
