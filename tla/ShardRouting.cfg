\* local_disk, a Drive account and a bucket; two concurrent calls.
SPECIFICATION Spec
CONSTANTS
    disk = disk
    drive = drive
    s3 = s3
    Pool <- MCPool
    Local = disk
    Metered = {drive}
    Flaky = {disk, s3}
    Revocable = {drive}
    Calls = {c1, c2}
    ShortCooldown = 1
    LongCooldown = 1
    Wrap = 6
SYMMETRY CallSymmetry
INVARIANTS
    TypeOK
    EachProviderOnce
    RotationIsEven
