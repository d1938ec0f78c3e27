SPECIFICATION Spec
CONSTANTS
    isp = isp
    guest = guest
    NoAC = NoAC
    ACs = {isp, guest}
    Named = {isp}
    Serving = {guest}
    Sloppy = {isp}
    Cookies = {isp}
    Options <- Choices
    MaxAttempts = 2
    MaxSid = 1
    MaxFrames = 3
INVARIANTS SessionOfPeer ChosenByOffers
PROPERTIES ConnectEnds
CHECK_DEADLOCK FALSE
