\* One page and one restart; the page's own words are checked.
SPECIFICATION Spec
CONSTANTS
    Keys = {1, 2}
    Pages = {p1}
    Channels = {c1}
    MaxRestarts = 1
    NULL = NULL
INVARIANT
    AlreadyIsTrue
