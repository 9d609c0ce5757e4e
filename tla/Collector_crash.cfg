SPECIFICATION Spec
CONSTANTS
    p1 = p1
    p2 = p2
    transcript = transcript
    meta = meta
    otherMeta = otherMeta
    path1 = path1
    path2 = path2
    None = None
    Procs = {p1, p2}
    Sources = {transcript}
    AppendSources = {transcript}
    Paths = {path1}
    CursorOf <- OnlyTranscript
    Window = 1
    MaxDrain = 0
    InPlace = FALSE
    MaxLines = 2
    MaxGen = 2
    MaxStops = 2
    MaxFaults = 0
    MaxDrops = 1
SYMMETRY Collectors
INVARIANTS TypeOK CursorBacked Seamless RepeatsBounded IndexCovers IndexDerived
PROPERTIES SequenceGrows CompleteMeansCollected CompleteMeansIndexed LandsInOrder
