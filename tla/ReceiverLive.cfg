SPECIFICATION FairSpec
CONSTANTS
    a1 = a1
    Apps = {a1}
    NoApp = NoApp
    M = 8
    Credit = 1
    MaxSent = 2
    MaxCalls = 1
    Autos = {TRUE, FALSE}
    Seconds = {TRUE, FALSE}
    EchoModes = {TRUE}
    MaxExtras = 0
    ExtraModes = {FALSE}
PROPERTIES CreditComesBack 
CHECK_DEADLOCK FALSE
