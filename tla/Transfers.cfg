SPECIFICATION FairSpec
CONSTANTS
    Rcv = rcv
    Senders = {s1, s2}
    Multi = {s1}
    Detachable = {s2, rcv}
    NoLink = none
    Stray = stray
    M = 8
    IncomingWindow = 2
    PeerWindow = 1
    MaxWork = 2
    MaxFaults = 1
CHECK_DEADLOCK FALSE
INVARIANT WindowRespected
INVARIANT SettlementReachesItsSend
INVARIANT NoSpuriousEnd
PROPERTY SendReturns
PROPERTY WindowReopens
PROPERTY DispositionsAreAnswered
