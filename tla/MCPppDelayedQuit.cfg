SPECIFICATION FairSpec
CONSTANTS
    lcp = lcp
    ipcp = ipcp
    pap = pap
    chap = chap
    addr = addr
    NoOpt = NoOpt
    Garbage = Garbage
    Client = {}
    Server = NoOpt
    IdMod = 1
    MaxNakLoops = 0
    Units <- MCUnits
    Values <- MCValues
    MaxConfReq <- MCMaxConfReq
    MaxTermReq <- MCMaxTermReq
    Flags <- MCFlags
    Wanted <- MCWanted
    Accepts <- MCAccepts
    Refuses <- MCRefuses
    Hint <- MCHint
    Adopts <- MCAdopts
    Drops = {}
    Ccp = {}
    EchoFails = 1
    AuthXmits = 1
    Rechallenge = FALSE
    IdleLimit = FALSE
    ListenTime = TRUE
    Tty = TRUE
    Persist = TRUE
    Holdoff = TRUE
    ChildWait = TRUE
    MaxFail = 2
    SlowAfter = 1
    Signals = {"term"}
    PeerEvents <- MCPeerEvents
    Mortal = FALSE
    MaxStale = 1
PROPERTIES QuitEnds
CHECK_DEADLOCK FALSE
