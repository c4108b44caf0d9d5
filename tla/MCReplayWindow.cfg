\* Window of 3 over sequence numbers 0..7: jumps longer than the window,
\* gaps inside it and numbers that have fallen out of it all occur.
CONSTANTS
    WindowSize = 3
    MaxSeq = 7
SPECIFICATION Spec
INVARIANTS
    TypeOK
    WindowSummarisesHistory
PROPERTY RefinesGuard
