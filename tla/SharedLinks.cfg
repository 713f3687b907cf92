\* Two clients of one link, every limit and lifetime.
SPECIFICATION Spec
CONSTANTS
    Links = {l1}
    Clients = {c1, c2}
    NoLimit = NoLimit
    Never = Never
    Limits <- MCLimits
    Lifetimes <- MCLifetimes
    MaxTime = 2
    MaxGrants = 4
SYMMETRY ClientSymmetry
INVARIANTS
    TypeOK
    CounterWithinLimit
    NeverOvercharged
    LimitWithoutOverlap
PROPERTIES
    RevocationIsFinal
    RefinesBudget
