\* Two announcements of one anime at a time, with genres that differ.
SPECIFICATION RSpec
CONSTANTS
    Workers = {w1, w2}
    AnimeIds = {a1, a2}
    EpisodeIds = {}
    Titles = {t1}
    Details = {}
    Posters = {}
    Studios = {}
    Genres = {g1, g2}
    Seasons = {0}
    Numbers = {}
    Channels = {c1}
    Messages = {m1}
    Storage = {}
    AutoPublish = {TRUE}
    NULL = NULL
    Contested = Contested
SYMMETRY Symmetry
PROPERTY GenresMixOnlyIfOvertaken
CHECK_DEADLOCK FALSE
