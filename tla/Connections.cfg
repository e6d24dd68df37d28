\* Three requests for two connections.
SPECIFICATION Spec
CONSTANTS
    Requests = {r1, r2, r3}
    a1 = a1
    Animes <- MCAnimes
    Episodes = {e1, e2}
    Owner <- MCOwner
    MaxConns = 2
INVARIANTS
    StallTakesImports
    CountIsRight
PROPERTIES
    EveryRequestEnds
