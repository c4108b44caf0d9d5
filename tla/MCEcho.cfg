\* Three messages of two kinds, a write buffer that blocks on every frame, a
\* rekey before every second message and by age, a connection that may break.
CONSTANTS
    WindowSize = 2
    MaxSeq = 8
    MaxMessages = 2
    MaxSeconds = 1
    m1 = m1
    m2 = m2
    Msgs = {m1, m2}
    NoMsg = none
    Client = client
    Server = server
    InitiatorTasks = {client}
    ResponderTasks = {server}
    NoTask = notask
    Capacity = 0
    MayCancel = FALSE
    MayLoseConnection = TRUE
    Script <- MCScript
SPECIFICATION EchoSpec
INVARIANT
    CloseMeansAnswered
PROPERTY
    SessionEnds
CHECK_DEADLOCK FALSE
