\* A configured account beside the local disk, one registered at run time.
SPECIFICATION Spec
CONSTANTS
    LocalDisk = local_disk
    Providers = {local_disk, cloud, added}
    Configured = {local_disk, cloud}
    Files = {f1}
    Keys = {k1}
    Sessions = {s1, s2}
    MaxOff = 1
SYMMETRY RequestSymmetry
INVARIANTS
    TypeOK
    ReadableEverywhere
    ReportIsCurrent
