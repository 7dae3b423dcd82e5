CONSTANTS
    r1 = r1
    r2 = r2
    r3 = r3
    p1 = p1
    g1 = g1
    Client <- MCMixed
    Premium <- MCPremium
    Privileged <- MCPrivileged
    MaxPlayers = 2
SPECIFICATION WaitListSpec
PROPERTIES
    TurnsKept
    WaitingEnds
