SPECIFICATION FairSpec
CONSTANTS
    Producers = {p1, p2}
    Consumers = {c1, c2}
    Cap = 2
    Recheck = TRUE
    Items = {i1, i2, i3, i4}
INVARIANTS
    TypeOK
    ItemsHaveTakers
    RoomHasUsers
PROPERTIES
    ImplementsFifo
    EveryItemArrives
