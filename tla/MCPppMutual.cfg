SPECIFICATION Spec
CONSTANTS
    lcp = lcp
    ipcp = ipcp
    pap = pap
    chap = chap
    addr = addr
    NoOpt = NoOpt
    Garbage = Garbage
    Client = {chap}
    Server = chap
    IdMod = 1
    MaxNakLoops = 0
    Units <- MCUnits
    Values <- MCValues
    MaxConfReq <- MCMaxConfReq
    MaxTermReq <- MCMaxTermReq
    Flags <- MCFlags
    Wanted <- MCWanted
    Accepts <- MCAccepts
    Refuses <- MCRefuses
    Hint <- MCHint
    Adopts <- MCAdopts
    Drops = {}
    Ccp = {}
    EchoFails = 1
    AuthXmits = 1
    Rechallenge = TRUE
    IdleLimit = TRUE
    ListenTime = FALSE
    Tty = FALSE
    Persist = TRUE
    Holdoff = FALSE
    ChildWait = TRUE
    MaxFail = 1
    SlowAfter = 1
    Signals = {"hup"}
    PeerEvents <- MCPeerEvents
    Mortal = FALSE
    MaxStale = 1
INVARIANTS AuthFirst AuthWaits CleanSlate
PROPERTIES ContractSpec
CHECK_DEADLOCK FALSE
