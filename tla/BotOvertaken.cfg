\* Two goroutines of one process, and no call fails.
SPECIFICATION ReliableSpec
CONSTANTS
    Bots = {b1}
    Handlers = {h1, h2}
    Users = {u1}
    Animes = {a1}
    Langs = {tg, en}
    Default = tg
    MaxCrashes = 0
    NULL = NULL
INVARIANT
    CachedIsStored
