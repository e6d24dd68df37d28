\* Two announcements of one title at a time: both look the title up before
\* either creates its row.
SPECIFICATION Spec
CONSTANTS
    Workers = {w1, w2}
    AnimeIds = {a1, a2}
    EpisodeIds = {e1}
    Titles = {t1}
    Details = {}
    Posters = {}
    Studios = {}
    Genres = {}
    Seasons = {0}
    Numbers = {n1}
    Channels = {c1}
    Messages = {m1}
    Storage = {s1}
    AutoPublish = {TRUE}
    NULL = NULL
INVARIANT TitlesUnique
CHECK_DEADLOCK FALSE
