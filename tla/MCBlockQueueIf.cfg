SPECIFICATION Spec
CONSTANTS
    Producers = {p1, p2}
    Consumers = {c1, c2}
    Cap = 1
    Recheck = FALSE
    Items = {i1, i2, i3}
INVARIANTS
    CapacityKept
