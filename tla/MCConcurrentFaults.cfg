\* Two tasks of one program that send, close, and get cancelled, over a
\* connection that may break; the peer only reads.
CONSTANTS
    WindowSize = 2
    MaxSeq = 5
    MaxMessages = 1
    MaxSeconds = 1
    Msgs = {m}
    NoMsg = none
    InitiatorTasks = {a1, a2}
    ResponderTasks = {}
    NoTask = notask
    Capacity = 1
    MayCancel = TRUE
    MayLoseConnection = TRUE
SPECIFICATION FairSpec
INVARIANT
    NextFrameAccepted
PROPERTIES
    LossIsNeverSilent
    CallsEnd
