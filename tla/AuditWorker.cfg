\* Two files in a full window, one in a cycle, one verification by hand.
SPECIFICATION Spec
CONSTANTS
    Worker = Worker
    Files = {f1, f2}
    Sessions = {s1}
    Window = 2
    Batch = 1
INVARIANTS
    TypeOK
PROPERTIES
    AuditKeepsTurning
    SkippedRepairComesRound
