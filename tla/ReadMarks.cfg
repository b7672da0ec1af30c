SPECIFICATION Spec
CONSTANTS
    a = a
    b = b
    x = x
    w1 = w1
    w2 = w2
    Boards = {a, b}
    NoBoard = NoBoard
    Times = {2, 3, 5}
    MaxNum = 2
    QuickNum = 1
    MaxSize = 5
    Byte = 2
    Garbled = {x}
    Junk <- MCJunk
    Wrecks <- MCWrecks
    Homes <- MCHomes
    Crews <- MCCrews
    Requests = {w1, w2}
    MaxAsks = 4
    MaxKills = 1
    MaxMoves = 1
INVARIANTS
    FileWhole
    ReadHasCause
SYMMETRY Symmetry
CHECK_DEADLOCK FALSE
PROPERTIES
    LostHasCause
