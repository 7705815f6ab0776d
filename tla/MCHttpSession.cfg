CONSTANTS
    Browsers = {b1}
    Ids = {"i1", "i2"}
    MaxRequests = 3
    MaxRestarts = 1
SPECIFICATION Spec
CHECK_DEADLOCK FALSE
INVARIANT LoginMaintainsSession
