SPECIFICATION FairSpec
CONSTANTS
    Sessions = {s1, s2}
    NoSession = none
    Configs <- MCConfigs
    Working <- MCWorking
    Offers <- MCOffers
    PeerChannelMax = {0, 1}
    ChannelMax = 1
    Word = 2
    MaxData = 1
    MaxFaults = 2
CHECK_DEADLOCK FALSE
INVARIANTS StartIsSound ChannelsMatchSessions  
PROPERTIES ImplementsConnLife DialReturns CloseReleasesAll
