\* One update at a time in two processes, and no call fails.
SPECIFICATION ReliableSpec
CONSTANTS
    Bots = {b1, b2}
    Handlers = {h1}
    Users = {u1}
    Animes = {a1}
    Langs = {tg, en}
    Default = tg
    MaxCrashes = 0
    NULL = NULL
INVARIANT
    CachedIsStored
