\* A message is edited into one that is skipped before it is forwarded.
SPECIFICATION Spec
CONSTANTS
    Handlers = {h1}
    Messages = {1}
    Titles = {t1}
    Numbers = {n1}
    t1 = t1
    n1 = n1
    n2 = n2
    Texts <- Skipped
    AnimeIds = {a1}
    Copies = {x1}
    Rows = {r1}
    SourceIsStorage = FALSE
    NULL = NULL
INVARIANT SkippedNeverForwarded
CHECK_DEADLOCK FALSE
