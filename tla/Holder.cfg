SPECIFICATION HSpec
CONSTANTS
    a = a
    b = b
    Item = {a, b}
    Nil = Nil
    SegSize = 2
    MaxLen = 6
    p1 = p1
    p2 = p2
    w1 = w1
    w2 = w2
    o1 = o1
    l1 = l1
    Producers = {p1, p2}
    Waiters = {w1, w2}
    Pollers = {o1}
    Observers = {l1}
INVARIANTS ExclusiveAccess WaitersFindItems
PROPERTIES GrowsOnlyWhenFull ImplementsFifo WaitersAreServed
