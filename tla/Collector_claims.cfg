SPECIFICATION Spec
CONSTANTS
    p1 = p1
    p2 = p2
    transcript = transcript
    meta = meta
    otherMeta = otherMeta
    path1 = path1
    path2 = path2
    None = None
    Procs = {p1}
    Sources = {transcript, meta, otherMeta}
    AppendSources = {transcript, meta, otherMeta}
    Paths = {path1}
    CursorOf <- SharedCursor
    Window = 1
    MaxDrain = 1
    InPlace = TRUE
    MaxLines = 2
    MaxGen = 2
    MaxStops = 1
    MaxFaults = 0
    MaxDrops = 0
INVARIANT OneSourcePerPath
PROPERTY ConflictSticky
SYMMETRY Sharers
CONSTRAINT FewContents
