CONSTANTS
    walk = walk
    spawn = spawn
    think = think
    Events <- MCEvents
    IdCount = 2
    NoEvent = NoEvent
SPECIFICATION SchedulerSpec
INVARIANTS
    OneOwner
    NoForeignStop
PROPERTIES
    EveryEventEnds
CHECK_DEADLOCK FALSE
