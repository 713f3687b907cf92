\* A file that was verified beside one that was not.
SPECIFICATION Spec
CONSTANTS
    Worker = Worker
    Files = {f1, f2}
    Sessions = {}
    Window = 2
    Batch = 1
PROPERTIES
    EveryFileAudited
