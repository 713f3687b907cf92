\* A verification or an audit that overlaps a deletion writes its stale manifest back.
SPECIFICATION Spec
CONSTANTS
    f1 = f1
    f2 = f2
    same = same
    other = other
    None = None
    Files = {f1}
    Contents = {same, other}
    NulTail = {}
    Providers = {p1, p2}
    DeleteFirst = {p1, p2}
    Truncating = {}
    Sessions = {s1}
    Requests = {"upload", "delete", "verify"}
    D = 1
    P = 1
    SampleSize = 2
    Outages = FALSE
    BitRot = {}
    MaxFaults = 0
    ContentOf <- MCTwoContents
PROPERTIES
    DeletedStaysDeleted
