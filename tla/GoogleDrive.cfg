\* One shard, two drivers, two concurrent calls, every request may fail.
SPECIFICATION Spec
CONSTANTS
    d1 = d1
    d2 = d2
    Root = Root
    Unset = Unset
    Names = {n1}
    Instances = {i1, i2}
    Calls = {c1, c2}
    Folders = {d1, d2}
    Homes <- MCHomes
    Outages = TRUE
    MaxId = 4
SYMMETRY DriverSymmetry
CONSTRAINT Claimed
INVARIANTS
    TypeOK
    OneObject
    DeletedIsGone
    FreshOrNothing
