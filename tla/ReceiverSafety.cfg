SPECIFICATION Spec
CONSTANTS
    a1 = a1
    a2 = a2
    Apps = {a1, a2}
    NoApp = NoApp
    M = 8
    Credit = 3
    MaxSent = 2
    MaxCalls = 2
    Autos = {TRUE, FALSE}
    Seconds = {TRUE, FALSE}
    EchoModes = {TRUE}
    MaxExtras = 1
    ExtraModes = {FALSE}
SYMMETRY Symmetry
INVARIANTS CreditConserved CreditCoversTransfers UnsettledIsOwed
PROPERTIES DrainIsComplete
CHECK_DEADLOCK FALSE
