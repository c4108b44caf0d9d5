\* Subjects of one and of two lines, the second line being one of the keys;
\* one authority that is trusted and one that is not; one certificate
\* to alter, with an expiry before, at and after the clock.
CONSTANTS
    a = a
    k1 = k1
    Lines = {a, k1}
    Subjects <- MCSubjects
    Keys = {k1, k2}
    ShortKey = short
    Issuers = {ca, other}
    Trusted = ca
    Header = header
    Unset = unset
    Bad = bad
    Infinite = infinite
    NotJson = notjson
    NotObject = notobject
    LastTime = 2
    MaxIssued = 1
SPECIFICATION Spec
INVARIANT
    RefusedWithIdentityError
