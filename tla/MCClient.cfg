\* Two processes over the same files, one after the other or interleaved at
\* every read and write, and two keys that may answer as the server.
CONSTANTS
    Programs = {p1, p2}
    Keys = {k1, k2}
    Identities = {i1, i2}
    None = none
SPECIFICATION Spec
INVARIANTS
    OneServer
    OneIdentity
    TrustComesFromASave
