SPECIFICATION Spec
CONSTANTS
    Main = Main
    None = None
    main = main
    child = child
    aside = aside
    extra = extra
    kid = kid
    grandkid = grandkid
    r1 = r1
    r2 = r2
    r3 = r3
    c1 = c1
    c2 = c2
    c3 = c3
    t1 = t1
    t2 = t2
    wf = wf
    gone = gone
    IdleGap = 5
    AncestorHops = 3
    TreeDepth = 5
    UpHops = 5
    Sources = {main, child, aside, extra}
    Scenarios <- Sessions
INVARIANTS Connected OwnStream ChildrenAccounted OrderIndependent DelegationInOneTalk OriginShown RuntimeRecordsShown
PROPERTIES ReadsItsEvidenceOnly IdentityKept RequestsSettled
