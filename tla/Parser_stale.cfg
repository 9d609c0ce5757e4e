SPECIFICATION Spec
CONSTANTS
    b1 = b1
    b2 = b2
    talk = talk
    candidate = candidate
    call = call
    first = first
    revised = revised
    shortIdle = shortIdle
    longIdle = longIdle
    None = None
    NoRound = NoRound
    Absent = Absent
    Ids = {talk, candidate}
    Gaps = {call}
    Contents = {first, revised}
    Assembled <- Told
    Builders = {b1}
    Policies = {shortIdle}
    Seqs = {1, 2, 3}
    Reindexes = FALSE
    MaxStops = 0
    MaxFaults = 0
    MaxDrops = 0
INVARIANT FoldIsFullParse
