\* Two runs that overlap, with two imports at a time.
CONSTANTS
    Skus = {k1, k2}
    Runs = {r1, r2}
    Imports = {i1, i2}
    None = None
    MaxAttempts = 2
    MaxPolls = 2
    MaxSales = 1
    MaxFaults = 1
SPECIFICATION FairSpec
INVARIANTS TypeOK LogAgrees
PROPERTIES NoStepBack StockConverges
