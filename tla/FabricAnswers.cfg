\* All requests, the audit, one provider: nobody waits for ever.
SPECIFICATION FairSpec
CONSTANTS
    f1 = f1
    f2 = f2
    same = same
    other = other
    None = None
    Files = {f1, f2}
    Contents = {same, other}
    NulTail = {}
    Providers = {p1}
    DeleteFirst = {p1}
    Truncating = {}
    Sessions = {s1}
    Requests = {"upload", "delete", "verify"}
    D = 1
    P = 1
    SampleSize = 1
    Outages = TRUE
    BitRot = {}
    MaxFaults = 0
    ContentOf <- MCSameContent
PROPERTIES
    RequestsAnswered
    CyclesEnd
