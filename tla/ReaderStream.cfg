SPECIFICATION FairSpec
CONSTANTS
    Cids = {"c1", "c2"}
    CN <- MCCN
    Address <- MCAddress
    Before = {"none", "up"}
    Orders <- MCOrders
    MaxBlocks = 3
    Faults = {"cut", "garbled", "refused", "silent"}
INVARIANTS TypeOK NotificationsIntact ResultsExact
PROPERTY AllDelivered
CHECK_DEADLOCK FALSE
