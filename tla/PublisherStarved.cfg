\* Runs of cron of one post each; the oldest anime is always refused.
SPECIFICATION FairSpec
CONSTANTS
    CronRuns = {r1}
    TriggerRuns = {}
    Animes = {1, 2}
    c1 = c1
    c2 = c2
    Targets <- One
    PostsPerRun = 1
    Refused <- OldestRefused
    MaxCrashes = 0
PROPERTY NewAnimesPosted
