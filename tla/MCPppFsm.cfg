SPECIFICATION Spec
CONSTANTS
    plain = plain
    stubborn = stubborn
    ccp = ccp
    small = small
    good = good
    big = big
    NoOpt = NoOpt
    Garbage = Garbage
    IdMod = 3
    MaxNakLoops = 2
    Units <- MCUnits
    Values <- MCValues
    MaxConfReq <- MCMaxConfReq
    MaxTermReq <- MCMaxTermReq
    Flags <- MCFlags
    Wanted <- MCWanted
    Accepts <- MCAccepts
    Refuses <- MCRefuses
    Hint <- MCHint
    Adopts <- MCAdopts
    Drops = {plain}
    Ccp = {ccp}
INVARIANTS TimerInv IntentInv UpperInv AckInv RetransmitInv
PROPERTIES TerminationReported ContractSpec TerminationEnds NegotiationGivesUp
CHECK_DEADLOCK FALSE
