\* Two triggered runs at a time, one stop or crash.
SPECIFICATION Spec
CONSTANTS
    CronRuns = {}
    TriggerRuns = {r1, r2}
    Animes = {1, 2}
    c1 = c1
    c2 = c2
    Targets <- Two
    PostsPerRun = 1
    Refused = {}
    MaxCrashes = 1
SYMMETRY Symmetry
INVARIANT TypeOK
INVARIANT RecordedWasShown
INVARIANT RunsDiversify
INVARIANT PostsPerRunKept
PROPERTY SharesFilledWithinLimit
