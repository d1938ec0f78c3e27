SPECIFICATION Spec
CONSTANTS
    factory = factory
    bridge = bridge
    router = router
    p1 = p1
    p2 = p2
    NoCfg = NoCfg
    Default = factory
    Services <- MCServices
    Cfgs = {factory, bridge, router}
    Procs = {p1, p2}
    MaxOps = 5
INVARIANTS NothingToSaveEver
CHECK_DEADLOCK FALSE
