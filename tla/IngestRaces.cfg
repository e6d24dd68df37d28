\* Two announcements of one title at a time, metadata of every kind.
SPECIFICATION RSpec
CONSTANTS
    Workers = {w1, w2}
    AnimeIds = {a1, a2}
    EpisodeIds = {}
    Titles = {t1, t2}
    Details = {d1}
    Posters = {}
    Studios = {}
    Genres = {}
    Seasons = {0}
    Numbers = {}
    Channels = {c1}
    Messages = {m1}
    Storage = {}
    AutoPublish = {TRUE, FALSE}
    NULL = NULL
    Contested = Contested
SYMMETRY Symmetry
INVARIANT TitlesUniqueUnlessRaced
PROPERTY BlankedOnlyIfOvertaken
PROPERTY RefinesCatalog
CHECK_DEADLOCK FALSE
