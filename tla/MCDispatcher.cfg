CONSTANTS
    p1 = p1
    p2 = p2
    Producers <- MCProducers
    MaxTasks = 2
    StopTask = StopTask
SPECIFICATION Spec
INVARIANTS
    NoLostWakeup
    DrainedOnExit
PROPERTIES
    ImplementsQueue
    EveryTaskHandled
