SPECIFICATION Spec
CONSTANTS
    a = a
    b = b
    small = small
    good = good
    big = big
    NoOpt = NoOpt
    Garbage = Garbage
    IdMod = 5
    MaxNakLoops = 1
    Units <- MCUnits
    Values <- MCValues
    MaxConfReq <- MCMaxConfReq
    MaxTermReq <- MCMaxTermReq
    Flags <- MCFlags
    Wanted <- MCWanted
    Accepts <- MCAccepts
    Refuses <- MCRefuses
    Hint <- MCHint
    Adopts <- MCAdopts
    Drops = {}
    Ccp = {}
    Moves = 4
    Faults = 1
INVARIANTS TypeOK Agreement AckOfCurrent
PROPERTIES IdsFresh Converges
CHECK_DEADLOCK FALSE
