SPECIFICATION LiveSpec
CONSTANTS
    i1 = i1
    i2 = i2
    Inodes = {i1, i2}
    None = None
    Budget = 2
    TailWindow = 2
    MaxBytes = 5
    MaxContents = 2
INVARIANTS LandsAPrefix ConflictIsReal
PROPERTY EventuallyRead
