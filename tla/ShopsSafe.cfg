\* Two tenants; one shop is connected twice, one tenant has two systems.
CONSTANTS
    t1 = t1
    t2 = t2
    a = a
    b = b
    p1 = p1
    p2 = p2
    p3 = p3
    shop = shop
    im = im
    co = co
    sh = sh
    Tenants = {t1, t2}
    Connections = {a, b}
    TenantOf <- MiraklTenants
    ShopOf <- MiraklShops
    Systems = {p1, p2, p3}
    OwnerOf <- PlentyTenants
    Provisioned = {a, p1, p3}
    Foreign <- ForeignOrders
    Other = Other
    Numbers = {1}
    Runs = {im, co, sh}
    TaskOf <- TaskOfRun
    None = None
    RepeatOk = TRUE
    MaxId = 2
    MaxEdits = 2
SPECIFICATION FairSpec
INVARIANTS TypeOK TenantsApart OwnParcel DuplicateOnlyByReadd
PROPERTIES PollerShips
\* The bounds on commands and orders end what may happen.
CHECK_DEADLOCK FALSE
