SPECIFICATION Spec
CONSTANTS
    l1 = l1
    l2 = l2
    l3 = l3
    Links = {l1, l2, l3}
    Clashes = {{}, {l1, l2}, {l1, l3}, {l2, l3}}
    HandleMax = 1
    NoLink = NoLink
    Peers = {"quiet", "active"}
    Contexts = {"endless", "ending"}
SYMMETRY Symmetry
INVARIANTS HandlesAgree QuietPeerAgrees FramesReachTheirLink
CHECK_DEADLOCK FALSE
