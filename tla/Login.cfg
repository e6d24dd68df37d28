\* Two pages at a time and two restarts.
SPECIFICATION Spec
CONSTANTS
    Keys = {1, 2, 3}
    Pages = {p1, p2}
    Channels = {c1}
    MaxRestarts = 2
    NULL = NULL
INVARIANTS
    HandlersOnce
    HalfLoginOnlyIfCallFailed
PROPERTIES
    ResumesSaved
