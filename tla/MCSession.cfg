CONSTANTS
    p1 = p1
    p2 = p2
    p3 = p3
    knight = knight
    god = god
    account1 = account1
    None = None
    Protocol <- MCProtocol
    Character <- MCCharacter
    Account <- MCAccount
    AlwaysLogin <- MCAlwaysLogin
    Gamemasters <- MCGamemasters
    States <- MCStates
    MaxLogouts = 1
    MaxTasks = 3
SPECIFICATION Spec
INVARIANTS
    ClientAndPlayerAgree
    ReleasedNotAutosent
    AnswerOnItsWay
    ShutdownCutsEverybody

SYMMETRY MCSymmetry
CHECK_DEADLOCK FALSE
