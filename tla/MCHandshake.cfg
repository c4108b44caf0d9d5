\* Every choice of certificates and timeouts on the two sides, with altered
\* messages, broken connections and sides that stop, in every combination.
CONSTANTS
    MayAlter = TRUE
    MayStall = TRUE
    MayBreak = TRUE
SPECIFICATION FairSpec
INVARIANTS
    Agreement
    PeerIsGenuine
    CertificateEncrypted
    InPhase
    RefusalMeansAltered
PROPERTIES
    HandshakeEnds
    FailureReachesPeer
CHECK_DEADLOCK FALSE
