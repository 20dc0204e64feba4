CONSTANTS
    nil = nil
    boxfield = boxfield
    chessbox = chessbox
    chessfield = chessfield
    chessboard = chessboard
    piece1 = piece1
    piece2 = piece2
    piece3 = piece3
    gobox = gobox
    gofield = gofield
    goban = goban
    bowl1 = bowl1
    bowl2 = bowl2
    stone1 = stone1
    stone2 = stone2
    stone3 = stone3
    Player = {p1, p2}
    Entity = {gofield, bowl1, stone1, stone2}
    Class <- MCClass
    Home <- MCHome
    Layout <- MCLayout
    Contents <- MCContents
    Start <- MCStart
    PileCount = 1
    MaxId = 6
    MaxRequests = 1
    MaxLag = 0
SYMMETRY Symmetry
SPECIFICATION Spec
INVARIANTS
    RequestsHitTarget
