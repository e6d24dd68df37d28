\* Runs of cron that do not overlap, two posts each, one stop or crash; the
\* oldest anime is always refused.
SPECIFICATION FairSpec
CONSTANTS
    CronRuns = {r1}
    TriggerRuns = {}
    Animes = {1, 2, 3}
    c1 = c1
    c2 = c2
    Targets <- One
    PostsPerRun = 2
    Refused <- OldestRefused
    MaxCrashes = 1
INVARIANT RepeatedOnlyIfLost
PROPERTY RecordedNotRepeated
PROPERTY EventuallyPosted
