\* Two coroutines at a time, one message, an anime that is deleted and
\* announced again.
SPECIFICATION Spec
CONSTANTS
    Handlers = {h1, h2}
    Messages = {1}
    Titles = {t1}
    Numbers = {n1, n2}
    t1 = t1
    n1 = n1
    n2 = n2
    Texts <- Mixed
    AnimeIds = {a1, a2}
    Copies = {x1, x2}
    Rows = {r1}
    SourceIsStorage = FALSE
    NULL = NULL
SYMMETRY Symmetry
INVARIANT CopiesNotShared
INVARIANT ServedCopiesExist
INVARIANT CopyIsTheEpisode
CHECK_DEADLOCK FALSE
