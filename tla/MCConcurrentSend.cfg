\* Two tasks of one program send at the same time; no faults at all.
CONSTANTS
    WindowSize = 2
    MaxSeq = 5
    MaxMessages = 1
    MaxSeconds = 1
    Msgs = {m}
    NoMsg = none
    InitiatorTasks = {a1, a2}
    ResponderTasks = {}
    NoTask = notask
    Capacity = 1
    MayCancel = FALSE
    MayLoseConnection = FALSE
SPECIFICATION FairSpec
INVARIANT DeliveredFrameAccepted
