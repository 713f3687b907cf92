\* A file of three shards, two requests, the audit, outages, torn uploads, a lost object.
SPECIFICATION Spec
CONSTANTS
    f1 = f1
    f2 = f2
    same = same
    other = other
    None = None
    Files = {f1}
    Contents = {same, other}
    NulTail = {}
    Providers = {p1, p2}
    DeleteFirst = {p1}
    Truncating = {p2}
    Sessions = {s1, s2}
    Requests = {"upload", "verify"}
    D = 2
    P = 1
    SampleSize = 2
    Outages = TRUE
    BitRot = {}
    MaxFaults = 1
    ContentOf <- MCTwoContents
SYMMETRY SessionSymmetry
CONSTRAINT StraightRepairs
INVARIANTS
    TypeOK
    RowsComplete
    Durable
