SPECIFICATION Spec
CONSTANTS
    b1 = b1
    b2 = b2
    talk = talk
    candidate = candidate
    call = call
    first = first
    revised = revised
    shortIdle = shortIdle
    longIdle = longIdle
    None = None
    NoRound = NoRound
    Absent = Absent
    Ids = {talk, candidate}
    Gaps = {call}
    Contents = {first, revised}
    Assembled <- Told
    Builders = {b1, b2}
    Policies = {shortIdle, longIdle}
    Seqs = {1, 2}
    Reindexes = TRUE
    MaxStops = 1
    MaxFaults = 1
    MaxDrops = 1
SYMMETRY Alike
CONSTRAINT FewTroubles
INVARIANTS TypeOK InputBinds StateNamesRound
PROPERTIES ChainIsLog PublishesTheAssembly
