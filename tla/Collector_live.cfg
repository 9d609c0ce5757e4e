SPECIFICATION LiveSpec
CONSTANTS
    p1 = p1
    p2 = p2
    transcript = transcript
    meta = meta
    otherMeta = otherMeta
    path1 = path1
    path2 = path2
    None = None
    Procs = {p1}
    Sources = {transcript, meta}
    AppendSources = {transcript}
    Paths = {path1, path2}
    CursorOf <- OwnCursor
    Window = 1
    MaxDrain = 0
    InPlace = FALSE
    MaxLines = 3
    MaxGen = 1
    MaxStops = 0
    MaxFaults = 1
    MaxDrops = 0
INVARIANTS IndexInLandedOrder WatermarkTrails HolesFound
PROPERTY EventuallyCollected
