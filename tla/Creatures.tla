------------------------------- MODULE Creatures -------------------------------
(***************************************************************************)
(* Creatures that see, follow, attack and summon each other:               *)
(* src/src/creature.cpp, the targets and the sleep of src/src/monster.cpp, *)
(* and what src/src/game.cpp and map.cpp do when one of them is placed,    *)
(* moved or removed.  Every creature that sees it is told, and each keeps  *)
(* what it knows of the others up to date from these calls alone.          *)
(*                                                                         *)
(* Two creatures see each other if they are at the same place.  Health is  *)
(* whether a creature is in the game; invisibility, protection zones,      *)
(* paths and distances within a place are left out, and monsters have no   *)
(* conditions that keep them awake.                                        *)
(***************************************************************************)
EXTENDS ThinkCycle, FiniteSetsExt

CONSTANTS
    Player, Monster,
    Place,      \* where creatures are; they see what is at their place
    None

ASSUME CreaturesAssumption ==
    /\ Creature = Player \cup Monster
    /\ Player \cap Monster = {}
    /\ IsFiniteSet(Creature)
    /\ None \notin Creature \cup Place

VARIABLES
    place,      \* where each is, None out of the game
    master,     \* Creature::master
    attacked,   \* Creature::attackedCreature
    follow,     \* Creature::followCreature
    targets,    \* Monster::targetList
    idle,       \* the monsters whose isIdle is set
    spawned,    \* Spawn::spawnedMap, the monster of each block or None
    checkSpawnEvent \* whether Spawn::checkSpawn is scheduled

creatureVars == <<place, master, attacked, follow, targets, idle>>
spawnVars == <<spawned, checkSpawnEvent>>

-----------------------------------------------------------------------------
(* What a state s of the world says.                                       *)

State ==
    [place |-> place, master |-> master, attacked |-> attacked, follow |-> follow,
     targets |-> targets, idle |-> idle, spawned |-> spawned, checkSpawnEvent |-> checkSpawnEvent,
     creatureCheck |-> creatureCheck, listed |-> listed, slots |-> slots, current |-> current,
     draw |-> draw]

\* All but what the think cycle itself keeps.  What normal_random has for a creature
\* is used once at most, for who is listed stays so until the end of a cycle.
Become(s) ==
    /\ place' = s.place /\ master' = s.master
    /\ attacked' = s.attacked /\ follow' = s.follow
    /\ targets' = s.targets /\ idle' = s.idle
    /\ spawned' = s.spawned /\ checkSpawnEvent' = s.checkSpawnEvent
    /\ creatureCheck' = s.creatureCheck /\ listed' = s.listed /\ slots' = s.slots
    /\ draw' \in [Creature -> NewSlot]

InGame(s) == {c \in Creature : s.place[c] # None}
At(s, l) == {c \in Creature : s.place[c] = l}
CanSee(s, c, d) == s.place[c] # None /\ s.place[c] = s.place[d]

IsSummon(s, m) == s.master[m] # None
Summons(s, c) == {m \in Monster : s.master[m] = c}
PlayersSummon(s, c) == s.master[c] \in Player

\* Whom a monster fights: a player's summon everybody but its master, any other
\* one players and their summons.
IsOpponent(s, m, c) ==
    IF PlayersSummon(s, m) THEN c # s.master[m] ELSE c \in Player \/ PlayersSummon(s, c)

-----------------------------------------------------------------------------
(* What the creatures do to themselves.                                    *)

Sleep(s, M) ==
    RemoveCreatureCheck([s EXCEPT !.idle = @ \cup M,
                                  !.targets = [m \in Monster |-> IF m \in M THEN {} ELSE @[m]]], M)
\* setIdle(false)
Wake(s, M) == AddCreatureCheck([s EXCEPT !.idle = @ \ M], M)

UpdateIdleStatus(s, M) ==
    LET asleep == {m \in M : ~IsSummon(s, m) /\ s.targets[m] = {}}
    IN  Wake(Sleep(s, asleep), M \ asleep)

\* setAttackedCreature; who does not see the target attacks nobody, and the
\* summons are told only if the master sees it.
SetAttacked(s, c, t) ==
    LET attacks(d) == IF t # None /\ CanSee(s, d, t) THEN t ELSE None IN
    [s EXCEPT !.attacked = [d \in Creature |->
        IF d = c \/ (d \in Summons(s, c) /\ (t = None \/ CanSee(s, c, t)))
        THEN attacks(d) ELSE @[d]]]

SetFollow(s, c, t) ==
    [s EXCEPT !.follow[c] = IF t # None /\ CanSee(s, c, t) THEN t ELSE None]

\* onCreatureDisappear: each creature c loses sight of lost[c].  With its prey a
\* creature takes away that of its summons, and a player stops following too.
Disappear(s, lost) ==
    LET prey == {c \in Creature : s.attacked[c] \in lost[c]} IN
    [s EXCEPT !.attacked = [c \in Creature |->
                  IF c \in prey \/ s.master[c] \in prey THEN None ELSE @[c]],
              !.follow = [c \in Creature |->
                  IF @[c] \in lost[c] \/ c \in prey \cap Player THEN None ELSE @[c]]]

\* onCreatureFound by the monsters of M, onCreatureLeave
Found(s, M, c) ==
    UpdateIdleStatus([s EXCEPT !.targets = [m \in Monster |->
        IF m \in M /\ IsOpponent(s, m, c) THEN @[m] \cup {c} ELSE @[m]]], M)
Leave(s, M, c) ==
    LET foes == {m \in M : IsOpponent(s, m, c)} IN
    UpdateIdleStatus([s EXCEPT !.targets = [m \in Monster |->
        IF m \in foes THEN @[m] \ {c} ELSE @[m]]], foes)

UpdateTargetList(s, m) ==
    LET seen == At(s, s.place[m]) \ {m}
        t    == [s EXCEPT !.targets[m] =
                    (@ \cap seen) \cup {c \in seen : IsOpponent(s, m, c)}]
    IN  IF seen = {} THEN t ELSE UpdateIdleStatus(t, {m})

-----------------------------------------------------------------------------
(* A creature is placed, moved or removed.                                 *)

\* Game::placeCreature
Placed(s, c, l) ==
    LET others == At(s, l) \cap Monster
        found  == Found([s EXCEPT !.place[c] = l], others, c)
        self   == IF c \in Monster
                  THEN UpdateIdleStatus(UpdateTargetList(found, c), {c})
                  ELSE Wake(found, others)
    IN  AddCreatureCheck(self, {c})

\* Mutant: whoever moves itself does not lose sight of the others.
MovedBlindly(s, c, l) ==
    LET t      == [s EXCEPT !.place[c] = l]
        stay   == At(s, s.place[c]) \ {c}
        meet   == At(s, l) \ {c}
        told   == (stay \cup meet \cup {c}) \cap Monster
        woken  == IF c \in Player \/ PlayersSummon(s, c) THEN Wake(t, told) ELSE t
        lost   == Disappear(woken, [d \in Creature |-> IF d \in stay THEN {c} ELSE {}])
        others == Found(Leave(lost, stay \cap Monster, c), meet \cap Monster, c)
        self   == IF c \in Monster THEN UpdateTargetList(others, c) ELSE others
    IN  UpdateIdleStatus(self, told \cap self.idle)
\* Map::moveCreature, to another place
Moved(s, c, l) ==
    LET t      == [s EXCEPT !.place[c] = l]
        stay   == At(s, s.place[c]) \ {c}
        meet   == At(s, l) \ {c}
        told   == (stay \cup meet \cup {c}) \cap Monster
        woken  == IF c \in Player \/ PlayersSummon(s, c) THEN Wake(t, told) ELSE t
        lost   == Disappear(woken, [d \in Creature |->
                      IF d = c THEN Creature \ (meet \cup {c})
                      ELSE IF d \in stay THEN {c} ELSE {}])
        others == Found(Leave(lost, stay \cap Monster, c), meet \cap Monster, c)
        self   == IF c \in Monster THEN UpdateTargetList(others, c) ELSE others
    IN  UpdateIdleStatus(self, told \cap self.idle)

\* Game::removeCreature but for the summons.  A monster of a spawn has it check.
RemovedAlone(s, c) ==
    LET others == At(s, s.place[c]) \ {c}
        lost   == Disappear(s, [d \in Creature |-> IF d \in others THEN {c} ELSE {}])
        t      == RemoveCreatureCheck(Leave(lost, others \cap Monster, c), {c})
    IN  [t EXCEPT !.place[c] = None, !.master[c] = None,
                  !.attacked[c] = None, !.follow[c] = None,
                  !.targets = [m \in Monster |-> IF m = c THEN {} ELSE @[m]],
                  !.idle = @ \cup ({c} \cap Monster),
                  !.checkSpawnEvent = @ \/ \E b \in DOMAIN s.spawned : s.spawned[b] = c]

Removed(s, c) == FoldSet(LAMBDA m, t : RemovedAlone(t, m), RemovedAlone(s, c), Summons(s, c))

\* Creature::onDeath of a monster: it has no master any more when the others see it go.
DiedAlone(s, m) ==
    RemovedAlone([SetAttacked(s, m, None) EXCEPT !.targets[m] = {}, !.master[m] = None], m)
\* Its summons die before it; those of a player are removed after it.
Died(s, c) ==
    IF c \in Player THEN Removed(s, c)
    ELSE DiedAlone(FoldSet(LAMBDA m, t : DiedAlone(t, m), SetAttacked(s, c, None), Summons(s, c)), c)
=============================================================================
