SPECIFICATION LiveSpec
CONSTANTS
    Callers = {c1}
    NoCaller = NoCaller
    M = 4
    MaxCredit = 2
    MaxFrames = 1
    MaxSends = 1
    MaxFlows = 1
    PeerReduces = FALSE
    PeerMisbehaves = FALSE
PROPERTIES LinkEndReleasesCallers
CHECK_DEADLOCK FALSE
