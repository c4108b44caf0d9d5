\* One sending task on each side and no faults: every send and close in any
\* order, with a write buffer that blocks at the second unread frame.
CONSTANTS
    WindowSize = 2
    MaxSeq = 3
    MaxMessages = 1
    MaxSeconds = 1
    Msgs = {m}
    NoMsg = none
    InitiatorTasks = {a}
    ResponderTasks = {b}
    NoTask = notask
    Capacity = 1
    MayCancel = FALSE
    MayLoseConnection = FALSE
SPECIFICATION FairSpec
INVARIANTS
    DeliveredFrameAccepted
    EndIsAuthenticated
PROPERTIES
    Delivery
    CloseReachesPeer
    CloseFailsOnce
