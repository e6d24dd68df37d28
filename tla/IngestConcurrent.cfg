\* Two requests at a time, the rows deleted and the channel unregistered meanwhile.
SPECIFICATION Spec
CONSTANTS
    Workers = {w1, w2}
    AnimeIds = {a1}
    EpisodeIds = {e1, e2}
    Titles = {t1}
    Details = {}
    Posters = {}
    Studios = {s1}
    Genres = {g1}
    Seasons = {0, 1}
    Numbers = {n1}
    Channels = {c1}
    Messages = {m1, m2}
    Storage = {x1}
    AutoPublish = {TRUE}
    NULL = NULL
SYMMETRY Symmetry
INVARIANT TypeOK
INVARIANT RequestsReferToRows
INVARIANT EpisodeKeysUnique
PROPERTY EpisodeIdentityStable
PROPERTY DeletesStick
CHECK_DEADLOCK FALSE
