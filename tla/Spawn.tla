--------------------------------- MODULE Spawn ---------------------------------
(***************************************************************************)
(* A spawn: src/src/spawn.cpp.  It has blocks, each with one monster at a  *)
(* time, and a check that is scheduled as long as a monster is missing.    *)
(* That one is missing it learns from the monster that leaves the game.    *)
(***************************************************************************)
EXTENDS Creatures

CONSTANTS
    Block,      \* spawnMap
    Home        \* Home[b] is the position of the block b

ASSUME SpawnAssumption == Home \in [Block -> Place]

\* The monster objects nobody has any more: a new monster may be one of them.
Fresh(s) ==
    Monster \ (InGame(s) \cup UNION {s.slots[k] : k \in Slot} \cup {s.spawned[b] : b \in Block}
               \cup UNION {s.targets[m] : m \in Monster})

\* Spawns::startup, before any player is in: the monsters are placed without a word.
SpawnInit ==
    /\ spawned \in [Block -> Monster]
    /\ \A a, b \in Block : a # b => spawned[a] # spawned[b]
    /\ checkSpawnEvent = FALSE

HomeOf(s, m) == {Home[b] : b \in {x \in Block : s.spawned[x] = m}}

Cleanup(s) ==
    [s EXCEPT !.spawned = [b \in Block |-> IF @[b] \in InGame(s) THEN @[b] ELSE None]]

Missing(s) == {b \in Block : s.spawned[b] = None}

\* spawnMonster, where no player sees the place
SpawnMonster(s, b, m) == [Placed(s, m, Home[b]) EXCEPT !.spawned[b] = m]
Respawns(s) ==
    {SpawnMonster(s, b, m) :
        b \in {x \in Missing(s) : At(s, Home[x]) \cap Player = {}}, m \in Fresh(s)}

\* Mutant: who has gone is taken off the map only after the test.
CheckSpawnUnclean ==
    /\ cycle = NoCycle
    /\ checkSpawnEvent
    /\ \E s \in {State} \cup Respawns(State) :
        Become(Cleanup([s EXCEPT !.checkSpawnEvent = Missing(s) # {}]))
    /\ UNCHANGED <<current, cycle, visited>>
\* At most RATE_SPAWN monsters, one by default, and only in blocks that are due: none may be.
CheckSpawn ==
    /\ cycle = NoCycle
    /\ checkSpawnEvent
    /\ LET clean == Cleanup(State) IN
       \E s \in {clean} \cup Respawns(clean) :
          Become([s EXCEPT !.checkSpawnEvent = Missing(s) # {}])
    /\ UNCHANGED <<current, cycle, visited>>
=============================================================================
