SPECIFICATION Spec
CONSTANTS
    Peers = {p1, p2}
    Workers = {w1, w2}
    MaxTexts = 0
    None = None
PROPERTIES
    CertainlyOnline
CHECK_DEADLOCK FALSE
