\* Every field has a value that is good, one past its limit and one that is
\* no value at all; a full frame holds two bytes and a one-byte tag.
CONSTANTS
    MaxSeq = 1
    MaxLength = 4
    MaxPayload = 3
    TagLen = 1
    HeaderLen = 2
    Versions = {0, 1, 2}
    FrameVersion = 1
    TypeBytes = {0, 1, 2, 3, 4, 5}
    MessageTypes = {1, 2, 3, 4}
SPECIFICATION Spec
INVARIANTS
    TypeOK
    RoundTrip
    AcceptsOnlyCanonical
