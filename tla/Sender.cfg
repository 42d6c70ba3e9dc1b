SPECIFICATION LiveSpec
CONSTANTS
    Callers = {c1, c2}
    NoCaller = NoCaller
    M = 4
    MaxCredit = 1
    MaxFrames = 2
    MaxSends = 2
    MaxFlows = 1
    PeerReduces = FALSE
    PeerMisbehaves = TRUE
INVARIANTS TypeOK CreditIsWhatIsLeft DeliveryCountIsWritten 
PROPERTIES NoTransferAfterDetach CloseReleasesCallers ConfirmReturns
CHECK_DEADLOCK FALSE
