\* Fragments of three bytes, Reed-Solomon blocks of up to four fragments.
SPECIFICATION TransferSpec
CONSTANTS
    ChunkSize = 3
    MaxBlock = 4
    ParityShards = 2
    Sizes <- MCSizes
    ProbeSize = 2
    Slots = 2
    MaxGaps = 1
INVARIANTS
    TransferTypeOK
    ReadBack
    RepairsAreRight
PROPERTIES
    OutageStopsBurst
    BurstIsAnswered
