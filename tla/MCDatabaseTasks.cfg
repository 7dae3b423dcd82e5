CONSTANTS
    game1 = game1
    net1 = net1
    Callers <- MCCallers
    Game = game1
    MaxTasks = 2
    NoTask = NoTask
SPECIFICATION QueueSpec
INVARIANTS
    ExecutedOnce
PROPERTIES
    EveryQueryRuns
CHECK_DEADLOCK FALSE
