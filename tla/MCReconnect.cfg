\* Two sessions of up to three frames each way (the cipher refuses the fourth
\* number): rekeys by count and by age, a close from either side or both at
\* once, both ways of running out of nonces.
CONSTANTS
    WindowSize = 2
    MaxSeq = 3
    MaxMessages = 2
    MaxSeconds = 1
    Msgs = {m1, m2}
    NoMsg = none
    MaxSessions = 2
SYMMETRY Symmetry
SPECIFICATION ReconnectSpec
INVARIANTS
    InOrderPrefix
    NonceNeverReused
    KeyUsageBounded
    CloseMeansComplete
    OwnWindowDelivers
    SpentWindowShutsOut
PROPERTY
    RefinesStream
