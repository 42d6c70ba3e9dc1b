SPECIFICATION Spec
CONSTANTS
    Rcv = rcv
    Senders = {s1, s2}
    Multi = {s1}
    Detachable = {s1}
    NoLink = none
    Stray = stray
    M = 8
    IncomingWindow = 2
    PeerWindow = 1
    MaxWork = 2
    MaxFaults = 1
CHECK_DEADLOCK FALSE
INVARIANT LaterTransfersAreNumbered
