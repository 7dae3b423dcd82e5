--------------------------------- MODULE World ---------------------------------
(***************************************************************************)
(* The world: players log in and out, walk, fight and summon; monsters     *)
(* spawn, wake, hunt, summon, wander off and die.  The handlers of         *)
(* src/src/game.cpp and Monster::onThink, over Creatures, ThinkCycle and   *)
(* Spawn.                                                                  *)
(***************************************************************************)
EXTENDS Spawn

CONSTANTS
    RemoveOnDespawn,    \* config: a monster that strays is removed, not sent home
    MaxSummons          \* of a creature

ASSUME WorldAssumption == RemoveOnDespawn \in BOOLEAN /\ MaxSummons \in Nat

vars == <<creatureVars, spawnVars, thinkVars>>

Init ==
    /\ ThinkInit
    /\ SpawnInit
    /\ place = [c \in Creature |->
                  IF \E b \in Block : spawned[b] = c
                  THEN Home[CHOOSE b \in Block : spawned[b] = c] ELSE None]
    /\ master = [c \in Creature |-> None]
    /\ attacked = [c \in Creature |-> None]
    /\ follow = [c \in Creature |-> None]
    /\ targets = [m \in Monster |-> {}]
    /\ idle = Monster

\* What happens between two turns of the think cycle.
Happens(s) == Become(s) /\ UNCHANGED <<current, cycle, visited>>
\* What happens between two tasks of the dispatcher.
Task(s) == cycle = NoCycle /\ Happens(s)

-----------------------------------------------------------------------------
(* Players.                                                                *)

Login(p, l) == p \notin InGame(State) /\ Task(Placed(State, p, l))

Logout(p) == p \in InGame(State) /\ Task(Removed(State, p))

\* Player::setAttackedCreature with the chase mode as it is
PlayerAttacks(s, p, t, chaseMode) ==
    LET a == SetAttacked(s, p, t) IN
    IF t # None /\ ~CanSee(s, p, t) THEN a
    ELSE SetFollow(a, p, IF chaseMode THEN t ELSE None)

PlayerSetAttackedCreature(p, t, chaseMode) ==
    /\ p \in InGame(State)
    /\ t \in InGame(State) \cup {None}
    /\ Task(PlayerAttacks(State, p, t, chaseMode))

PlayerFollowCreature(p, t) ==
    /\ p \in InGame(State)
    /\ t \in InGame(State) \cup {None}
    /\ Task(SetFollow(PlayerAttacks(State, p, None, FALSE), p, t))

\* A monster is made beside the creature c and then gets it for a master: those
\* who see it appear do not know yet whose it is.
Summoned(s, c, m) == [Placed(s, m, s.place[c]) EXCEPT !.master[m] = c]

MaySummon(s, c) == ~IsSummon(s, c) /\ Cardinality(Summons(s, c)) < MaxSummons

\* A script's Game.createMonster and Creature:addSummon
PlayerSummon(p, m) ==
    /\ p \in InGame(State)
    /\ MaySummon(State, p)
    /\ m \in Fresh(State)
    /\ Task(Summoned(State, p, m))

-----------------------------------------------------------------------------
(* Everybody.                                                              *)

\* Summons the creature leaves too far behind are removed.
Move(c, l) ==
    /\ c \in InGame(State)
    /\ l # place[c]
    /\ \E far \in SUBSET {m \in Summons(State, c) : place[m] # l} :
        Happens(FoldSet(LAMBDA m, s : RemovedAlone(s, m), Moved(State, c, l), far))

Die(c) ==
    /\ c \in InGame(State)
    /\ Happens(Died(State, c))

-----------------------------------------------------------------------------
(* Monster::onThink: what the monster m may do.                            *)

SelectTarget(s, m, t) == SetFollow(SetAttacked(s, m, t), m, t)

\* searchTarget takes any of them, or none it can reach.
Hunts(s, m) ==
    {s} \cup {SelectTarget(s, m, t) : t \in {c \in s.targets[m] \ {s.follow[m]} : CanSee(s, m, c)}}

\* A summon fights with its master and else goes where it goes.
Serves(s, m) ==
    LET lord == s.master[m]
        prey == s.attacked[lord]
    IN  CASE s.attacked[m] = None /\ prey # None ->
               {s} \cup {SelectTarget(s, m, t) : t \in {prey} \cap {c \in s.targets[m] : CanSee(s, m, c)}}
          [] s.attacked[m] = None /\ prey = None -> {SetFollow(s, m, lord)}
          [] s.attacked[m] = m -> {SetFollow(s, m, None)}
          [] OTHER -> {SetFollow(s, m, s.attacked[m])}

\* onThinkDefense
SummonsHelp(s, m) ==
    {s} \cup (IF MaySummon(s, m) THEN {Summoned(s, m, x) : x \in Fresh(s)} ELSE {})

Strays(s, m) == HomeOf(s, m) \ {s.place[m]} # {}

\* A monster out of the range of its spawn
Despawned(s, m) ==
    IF RemoveOnDespawn THEN Removed(s, m)
    ELSE Sleep(Moved(s, m, CHOOSE l \in HomeOf(s, m) : TRUE), {m})

Thinks(s, m) ==
    LET u == UpdateIdleStatus(s, {m}) IN
    (IF Strays(s, m) THEN {Despawned(s, m)} ELSE {})
        \cup (IF m \in u.idle THEN {u}
              ELSE IF IsSummon(u, m) THEN Serves(u, m)
              ELSE UNION {SummonsHelp(v, m) : v \in Hunts(u, m)})

OnThink(c) ==
    /\ Visit(c)
    /\ \E s \in IF c \in Monster /\ c \in creatureCheck /\ place[c] # None
                THEN Thinks(State, c) ELSE {State} :
        Become(s)

Next ==
    \/ \E p \in Player : Logout(p) \/ \E l \in Place : Login(p, l)
    \/ \E p \in Player, t \in Creature \cup {None} :
          PlayerFollowCreature(p, t)
             \/ \E chaseMode \in BOOLEAN : PlayerSetAttackedCreature(p, t, chaseMode)
    \/ \E p \in Player, m \in Monster : PlayerSummon(p, m)
    \/ \E c \in Creature : Die(c) \/ OnThink(c) \/ \E l \in Place : Move(c, l)
    \/ CheckSpawn
    \/ StartCycle /\ UNCHANGED <<creatureVars, spawnVars>>
    \/ EndCycle /\ UNCHANGED <<creatureVars, spawnVars>>

Spec == Init /\ [][Next]_vars

-----------------------------------------------------------------------------
(* Properties.                                                             *)

\* A monster that sees a player has it for a target and is awake: it has its
\* turns in the think cycle.  Whichever of the two came, and whatever left.
SeenPlayersHunted ==
    \A m \in Monster, p \in Player :
        CanSee(State, m, p) /\ ~PlayersSummon(State, m)
            => p \in targets[m] /\ m \notin idle /\ Scheduled(m)

\* Nobody in the game attacks or follows a creature that is gone or out of sight:
\* onAttacking and goToFollowCreature take its position.  And a summon in the game
\* has its master there: its handlers ask the master where it is.
PreyInSight ==
    \A c \in InGame(State) :
        /\ attacked[c] # None => CanSee(State, c, attacked[c])
        /\ follow[c] # None => CanSee(State, c, follow[c])
        /\ c \in Monster /\ IsSummon(State, c) => place[master[c]] # None

\* As long as a monster of the spawn is missing a check is scheduled.
MissingIsChecked ==
    (\E b \in Block : spawned[b] = None \/ place[spawned[b]] = None) => checkSpawnEvent
=============================================================================
