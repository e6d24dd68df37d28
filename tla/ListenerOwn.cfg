\* The source channel is the storage channel: one coroutine at a time, two
\* messages, posted or relayed, and a channel that is removed and registered
\* again.
SPECIFICATION Spec
CONSTANTS
    Handlers = {h1}
    Messages = {1, 2}
    Titles = {t1}
    Numbers = {n1, n2}
    t1 = t1
    n1 = n1
    n2 = n2
    Texts <- Misled
    AnimeIds = {a1}
    Copies = {1, 2}
    Rows = {r1, r2}
    SourceIsStorage = TRUE
    NULL = NULL
SYMMETRY Symmetry
INVARIANT CopyIsTheEpisode
INVARIANT ErasureSticks
CHECK_DEADLOCK FALSE
