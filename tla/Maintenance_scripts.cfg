\* Two runs of scripts against a checkout, an edit and a failure.
SPECIFICATION FairSpec
CONSTANTS
    s1 = s1
    new = new
    Products = {s1, l1}
    Categories = {1, 2, 3}
    Names = {old, new}
    LegacyNames = {old}
    LegacyProducts = {l1}
    SeedProducts = {s1}
    SeedName <- OneSeed
    Users = {u1}
    Checkouts = {k1}
    Script = Script
    MaxRuns = 2
    MaxEdits = 1
    MaxFaults = 1
    None = None
    Gone = Gone
CHECK_DEADLOCK FALSE
INVARIANTS TypeOK NoOrphans SeedConverges SomebodyRuns
PROPERTIES CleanIsAtomic EverybodyEnds
