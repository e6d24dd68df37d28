\* One channel and 26 posts per run: the run asks for 52 animes.
SPECIFICATION Spec
CONSTANTS
    CronRuns = {r1}
    TriggerRuns = {}
    Animes = {1, 2, 3, 4, 5, 6}
    c1 = c1
    c2 = c2
    Targets <- One
    PostsPerRun = 26
    Refused = {}
    MaxCrashes = 0
PROPERTY SharesFilled
