\* Two goroutines over one user, in two processes that may restart once.
SPECIFICATION Spec
CONSTANTS
    Bots = {b1, b2}
    Handlers = {h1, h2}
    Users = {u1}
    Animes = {a1}
    Langs = {tg, en}
    Default = tg
    MaxCrashes = 1
    NULL = NULL
SYMMETRY Symmetry
INVARIANTS
    LanguageStaleOnlyIfMissed
    LossOnlyIfTouchFailed
    LabelIsToast
PROPERTIES
    OnlyChoicesChangeLanguage
    ToggleFlips
