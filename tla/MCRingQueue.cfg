SPECIFICATION RingFairSpec
CONSTANTS
    Producers = {p1, p2, p3}
    Consumers = {c1, c2}
    Cap = 2
    Items = {i1, i2, i3, i4}
    None = None
INVARIANTS
    RingTypeOK
    NoSlotRace
PROPERTIES
    RingImplementsFifo
    RingEveryItemArrives
CHECK_DEADLOCK FALSE
