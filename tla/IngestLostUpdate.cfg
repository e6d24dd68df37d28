\* The run of IngestRaces, with the comment on merging taken at its word.
SPECIFICATION RSpec
CONSTANTS
    Workers = {w1, w2}
    AnimeIds = {a1, a2}
    EpisodeIds = {}
    Titles = {t1}
    Details = {d1}
    Posters = {}
    Studios = {}
    Genres = {}
    Seasons = {0}
    Numbers = {}
    Channels = {c1}
    Messages = {m1}
    Storage = {}
    AutoPublish = {TRUE}
    NULL = NULL
    Contested = Contested
SYMMETRY Symmetry
PROPERTY NothingBlanked
CHECK_DEADLOCK FALSE
