\* One message in the chat; animes in pages of one, episodes in pages of two.
SPECIFICATION Spec
CONSTANTS
    q1 = q1
    q2 = q2
    g1 = g1
    Animes = {1, 2}
    Episodes = {1, 2, 3}
    Queries = {q1, q2}
    Genres = {g1}
    Owner <- MCOwner
    Matches <- MCMatches
    Tagged <- MCTagged
    Starts <- MCStarts
    Drafts = {}
    ListSize = 1
    EpisodeSize = 2
    HistorySize = 2
    Slots = {c1}
    MaxEvents = 2
    MaxRestarts = 1
INVARIANTS
    WalkComplete
    PagesOfOneSearch
    LabelTells
    WatchShowsAll
    HistoryIsLatest
