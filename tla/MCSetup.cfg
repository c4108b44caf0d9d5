\* Every combination of arguments; two keys, two subjects and one label;
\* certificates that have not expired, have just not expired or have expired.
CONSTANTS
    Keys = {k1, k2}
    Subjects = {s1, s2}
    Labels = {l1}
    Unset = unset
    AnySubject = any
    LastTime = 1
    MaxIssued = 1
    Fingerprints = {f1, f2}
    NoSubject = nosubject
SYMMETRY Symmetry
SPECIFICATION SetupSpec
INVARIANTS
    RevokedNeverAccepted
    EveryAuthenticatorHolds
    RequireMeansAuthenticated
    OneKeyPerLabel
    SecureDoesFourThings
