\* Two concurrent calls, one request left behind, four calls in all.  A page of a
\* listing holds one of the two objects that a directory of S3 may match.
CONSTANTS
    Callers = {c1, c2}
    Names <- MCNames
    Folder = "d"
    Prefixed = {"d2"}
    Values = {v1, v2}
    PageSize = 1
    MaxCalls = 4
    MaxLate = 1
SYMMETRY CallsSymmetry
SPECIFICATION Spec
INVARIANTS
    TypeOK
    
    RenameLosesNothing
    DeletedIsGone
