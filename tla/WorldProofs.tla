----------------------------- MODULE WorldProofs -----------------------------
(***************************************************************************)
(* Proofs about World, for any players, finitely many monsters, places and *)
(* blocks.                                                                 *)
(***************************************************************************)
EXTENDS World, FiniteSetTheorems, WellFoundedInduction, TLAPS

-----------------------------------------------------------------------------
(* The invariant, of a state s of the world.                               *)

Prey == Creature \cup {None}

States ==
    [place : [Creature -> Place \cup {None}],
     master : [Creature -> Prey],
     attacked : [Creature -> Prey],
     follow : [Creature -> Prey],
     targets : [Monster -> SUBSET Creature],
     idle : SUBSET Monster,
     spawned : [Block -> Monster \cup {None}],
     checkSpawnEvent : BOOLEAN,
     creatureCheck : SUBSET Creature,
     listed : SUBSET Creature,
     slots : [Slot -> SUBSET Creature],
     current : Slot,
     draw : [Creature -> NewSlot]]

TypeOK ==
    /\ State \in States
    /\ cycle \in Slot \cup {NoCycle}
    /\ visited \subseteq Creature

\* A creature is flagged if it is in a slot, and in one only; all that are to
\* think are.
Listing(s) ==
    /\ \A c \in Creature : c \in s.listed <=> \E k \in Slot : c \in s.slots[k]
    /\ \A j, k \in Slot : j # k => s.slots[j] \cap s.slots[k] = {}
    /\ s.creatureCheck \subseteq s.listed

Thinking(s) ==
    /\ Listing(s)
    /\ Monster \ s.idle \subseteq s.creatureCheck

\* A monster that sleeps has no targets.
IdleEmpty(s) == \A m \in s.idle : s.targets[m] = {}

Minds(s) == Thinking(s) /\ IdleEmpty(s)

\* The monsters that are not in X have the players they see for targets.
Hunting(s, X) ==
    \A m \in Monster \ X, p \in Player :
        CanSee(s, m, p) /\ ~PlayersSummon(s, m) => p \in s.targets[m]

Preying(s) ==
    \A c \in Creature :
        /\ s.attacked[c] # None => CanSee(s, c, s.attacked[c])
        /\ s.follow[c] # None => CanSee(s, c, s.follow[c])

\* Only monsters in the game serve, only creatures that do not serve have
\* summons, and but for the summons in E their masters are in the game.
Mastered(s, E) ==
    \A c \in Creature : s.master[c] # None =>
        /\ c \in Monster
        /\ s.place[c] # None
        /\ s.master[s.master[c]] = None
        /\ c \notin E => s.place[s.master[c]] # None

Missed(s) ==
    (\E b \in Block : s.spawned[b] = None \/ s.place[s.spawned[b]] = None) => s.checkSpawnEvent

Sound(s, X, E) ==
    /\ Minds(s)
    /\ Hunting(s, X)
    /\ Preying(s)
    /\ Mastered(s, E)

\* Monsters that are sent home and put to sleep, whoever is there, need not hunt.
Exempt == IF RemoveOnDespawn THEN {} ELSE Monster

Inv ==
    /\ TypeOK
    /\ Sound(State, Exempt, {})
    /\ Missed(State)

\* From s to t nobody fell asleep or woke up.
SameMinds(s, t) ==
    /\ t.idle = s.idle /\ t.creatureCheck = s.creatureCheck
    /\ t.listed = s.listed /\ t.slots = s.slots

\* The spawn is as it was.
Spawns(s, t) ==
    /\ t.spawned = s.spawned /\ t.checkSpawnEvent = s.checkSpawnEvent
    /\ t.current = s.current

\* Nothing changed but targets, who sleeps and who is to think.
SameAims(s, t) ==
    /\ t.place = s.place /\ t.master = s.master
    /\ t.attacked = s.attacked /\ t.follow = s.follow
    /\ Spawns(s, t)

\* Nothing changed but who sleeps and who is to think.
SameBody(s, t) == SameAims(s, t) /\ t.targets = s.targets

-----------------------------------------------------------------------------
(* Who sleeps and who is to think.                                         *)

LEMMA SlotTypes ==
    /\ 0 \in Slot /\ 1 \in Slot
    /\ NoCycle \notin Slot
    /\ \A k \in Slot : (k + 1) % MaxCreatureThinkSlots \in Slot
    /\ NewSlot \subseteq Slot
BY ThinkCycleAssumption DEF Slot, NoCycle, NewSlot

LEMMA AddTypes ==
    ASSUME NEW s \in States, NEW C \in SUBSET Creature,
           NEW t, t = AddCreatureCheck(s, C)
    PROVE  /\ t \in States /\ SameBody(s, t) /\ t.idle = s.idle
           /\ t.creatureCheck = s.creatureCheck \cup C /\ t.listed = s.listed \cup C
BY DEF States, Prey, AddCreatureCheck, SameBody, SameAims, Spawns

LEMMA RemoveTypes ==
    ASSUME NEW s \in States, NEW C \in SUBSET Creature,
           NEW t, t = RemoveCreatureCheck(s, C)
    PROVE  /\ t \in States /\ SameBody(s, t) /\ t.idle = s.idle
           /\ t.creatureCheck = s.creatureCheck \ (C \cap s.listed)
           /\ t.listed = s.listed /\ t.slots = s.slots
BY DEF States, Prey, RemoveCreatureCheck, SameBody, SameAims, Spawns

LEMMA AddLists ==
    ASSUME NEW s \in States, NEW C \in SUBSET Creature, Listing(s)
    PROVE  Listing(AddCreatureCheck(s, C))
<1>. DEFINE t == AddCreatureCheck(s, C)
            to(c) == IF c \in s.creatureCheck THEN (s.current + 1) % MaxCreatureThinkSlots
                     ELSE s.draw[c]
<1>1. \A c \in C : to(c) \in Slot
  BY SlotTypes DEF States, Prey
<1>2. \A k \in Slot, c \in Creature :
         c \in t.slots[k] <=> c \in s.slots[k] \/ (c \in C \ s.listed /\ k = to(c))
  BY DEF States, Prey, AddCreatureCheck
<1>3. t.slots \in [Slot -> SUBSET Creature] /\ t.listed = s.listed \cup C
      /\ t.creatureCheck = s.creatureCheck \cup C
  BY AddTypes DEF States, Prey
<1>. HIDE DEF t, to
<1>4. \A c \in Creature : c \in t.listed <=> \E k \in Slot : c \in t.slots[k]
  BY <1>1, <1>2, <1>3 DEF Listing
<1>5. \A j, k \in Slot : j # k => t.slots[j] \cap t.slots[k] = {}
  BY <1>2, <1>3 DEF Listing
<1>. QED
  BY <1>3, <1>4, <1>5 DEF Listing, t

LEMMA SleepTypes ==
    ASSUME NEW s \in States, NEW M \in SUBSET Monster,
           NEW t, t = Sleep(s, M)
    PROVE  /\ t \in States
           /\ t.place = s.place /\ t.master = s.master
           /\ t.attacked = s.attacked /\ t.follow = s.follow
           /\ t.spawned = s.spawned /\ t.checkSpawnEvent = s.checkSpawnEvent
           /\ t.current = s.current /\ t.listed = s.listed /\ t.slots = s.slots
           /\ t.idle = s.idle \cup M
           /\ t.creatureCheck = s.creatureCheck \ (M \cap s.listed)
           /\ \A m \in Monster : t.targets[m] = IF m \in M THEN {} ELSE s.targets[m]
BY CreaturesAssumption DEF States, Prey, Sleep, RemoveCreatureCheck

LEMMA WakeTypes ==
    ASSUME NEW s \in States, NEW M \in SUBSET Monster,
           NEW t, t = Wake(s, M)
    PROVE  /\ t \in States /\ SameBody(s, t) /\ t.idle = s.idle \ M
           /\ t.creatureCheck = s.creatureCheck \cup M /\ t.listed = s.listed \cup M
<1>. DEFINE u == [s EXCEPT !.idle = @ \ M]
<1>1. u \in States /\ SameBody(s, u) /\ u.idle = s.idle \ M
      /\ u.creatureCheck = s.creatureCheck /\ u.listed = s.listed
  BY DEF States, Prey, SameBody, SameAims, Spawns
<1>2. M \in SUBSET Creature
  BY CreaturesAssumption
<1>. HIDE DEF u
<1>3. LET v == AddCreatureCheck(u, M) IN
      /\ v \in States /\ SameBody(u, v) /\ v.idle = u.idle
      /\ v.creatureCheck = u.creatureCheck \cup M /\ v.listed = u.listed \cup M
  BY <1>1, <1>2, AddTypes
<1>. QED
  BY <1>1, <1>3 DEF Wake, u, SameBody, SameAims, Spawns

LEMMA WakeLists ==
    ASSUME NEW s \in States, NEW M \in SUBSET Monster, Listing(s)
    PROVE  Listing(Wake(s, M))
<1>. DEFINE u == [s EXCEPT !.idle = @ \ M]
<1>1. u \in States /\ u.listed = s.listed /\ u.slots = s.slots /\ u.creatureCheck = s.creatureCheck
  BY DEF States, Prey
<1>2. M \in SUBSET Creature
  BY CreaturesAssumption
<1>. HIDE DEF u
<1>3. Listing(u)
  BY <1>1 DEF Listing
<1>. QED
  BY <1>1, <1>2, <1>3, AddLists DEF Wake, u

LEMMA UpdateTypes ==
    ASSUME NEW s \in States, NEW M \in SUBSET Monster
    PROVE  UpdateIdleStatus(s, M) \in States /\ SameBody(s, UpdateIdleStatus(s, M))
<1>. DEFINE asleep == {m \in M : ~IsSummon(s, m) /\ s.targets[m] = {}}
            t == Sleep(s, asleep)
<1>1. asleep \in SUBSET Monster /\ M \ asleep \in SUBSET Monster
  OBVIOUS
<1>2. t \in States /\ SameBody(s, t)
  <2>1. \A m \in asleep : s.targets[m] = {}
    OBVIOUS
  <2>. HIDE DEF asleep
  <2>2. t \in States /\ \A m \in Monster : t.targets[m] = s.targets[m]
    <3>1. /\ t \in States
          /\ \A m \in Monster : t.targets[m] = IF m \in asleep THEN {} ELSE s.targets[m]
      BY <1>1, SleepTypes
    <3>. HIDE DEF t
    <3>. QED
      BY <2>1, <3>1
  <2>3. t.targets = s.targets
    <3>. HIDE DEF t
    <3>. QED
      BY <2>2 DEF States, Prey
  <2>. QED
    BY <1>1, <2>3, SleepTypes DEF SameBody, SameAims, Spawns
<1>. HIDE DEF t, asleep
<1>3. Wake(t, M \ asleep) \in States /\ SameBody(t, Wake(t, M \ asleep))
  BY <1>1, <1>2, WakeTypes
<1>. QED
  BY <1>2, <1>3 DEF UpdateIdleStatus, SameBody, SameAims, Spawns, t, asleep

\* Who is asked to update its idle status is awake or without targets afterwards.
LEMMA UpdateThinks ==
    ASSUME NEW s \in States, NEW M \in SUBSET Monster, Listing(s),
           Monster \ (s.idle \cup M) \subseteq s.creatureCheck,
           \A m \in s.idle \ M : s.targets[m] = {}
    PROVE  Thinking(UpdateIdleStatus(s, M)) /\ IdleEmpty(UpdateIdleStatus(s, M))
<1>. DEFINE asleep == {m \in M : ~IsSummon(s, m) /\ s.targets[m] = {}}
            t == Sleep(s, asleep)
            u == Wake(t, M \ asleep)
<1>1. asleep \in SUBSET Monster /\ M \ asleep \in SUBSET Monster
      /\ asleep \subseteq M /\ \A m \in asleep : s.targets[m] = {}
  OBVIOUS
<1>2. u = UpdateIdleStatus(s, M)
  BY DEF UpdateIdleStatus
<1>. HIDE DEF asleep
<1>3. /\ t \in States /\ Listing(t) /\ t.idle = s.idle \cup asleep
      /\ Monster \ (s.idle \cup M) \subseteq t.creatureCheck
  <2>1. /\ t \in States /\ t.idle = s.idle \cup asleep
        /\ t.listed = s.listed /\ t.slots = s.slots
        /\ t.creatureCheck = s.creatureCheck \ (asleep \cap s.listed)
    BY <1>1, SleepTypes
  <2>. HIDE DEF t
  <2>2. Monster \ (s.idle \cup M) \subseteq t.creatureCheck
    BY <1>1, <2>1
  <2>3. Listing(t)
    BY <2>1 DEF Listing
  <2>. QED
    BY <2>1, <2>2, <2>3
<1>. HIDE DEF t
<1>4. /\ Listing(u) /\ u.idle = t.idle \ (M \ asleep)
      /\ u.creatureCheck = t.creatureCheck \cup (M \ asleep)
  BY <1>1, <1>3, WakeTypes, WakeLists
<1>. HIDE DEF u
<1>5. u.targets = s.targets
  BY <1>2, UpdateTypes DEF SameBody, SameAims, Spawns
<1>6. u.idle = (s.idle \ M) \cup asleep
  BY <1>1, <1>3, <1>4
<1>7. Monster \ u.idle \subseteq u.creatureCheck
  BY <1>1, <1>3, <1>4, <1>6
<1>. QED
  BY <1>1, <1>2, <1>4, <1>5, <1>6, <1>7 DEF IdleEmpty, Thinking

-----------------------------------------------------------------------------
(* What the creatures do to themselves.                                    *)

LEMMA MindsUpdated ==
    ASSUME NEW s \in States, NEW u \in States, NEW M \in SUBSET Monster,
           Minds(s), SameMinds(s, u), \A n \in Monster \ M : u.targets[n] \subseteq s.targets[n]
    PROVE  Minds(UpdateIdleStatus(u, M))
<1>1. Listing(u) /\ Monster \ (u.idle \cup M) \subseteq u.creatureCheck
  BY DEF Minds, SameMinds, Thinking, Listing
<1>2. \A n \in u.idle \ M : u.targets[n] = {}
  BY DEF Minds, SameMinds, IdleEmpty, States
<1>. QED
  BY <1>1, <1>2, UpdateThinks DEF Minds

LEMMA MindsSame ==
    ASSUME NEW s \in States, NEW u \in States, Minds(s), SameMinds(s, u),
           \A n \in Monster : u.targets[n] \subseteq s.targets[n]
    PROVE  Minds(u)
<1>1. Thinking(u)
  BY DEF Minds, SameMinds, Thinking, Listing
<1>2. \A n \in u.idle : u.targets[n] = {}
  BY DEF Minds, SameMinds, IdleEmpty, States
<1>. QED
  BY <1>1, <1>2 DEF Minds, IdleEmpty

LEMMA AddMinds ==
    ASSUME NEW s \in States, NEW C \in SUBSET Creature, Minds(s)
    PROVE  Minds(AddCreatureCheck(s, C))
<1>. DEFINE t == AddCreatureCheck(s, C)
<1>1. Listing(t)
  BY AddLists DEF Minds, Thinking
<1>2. /\ t.idle = s.idle /\ t.creatureCheck = s.creatureCheck \cup C /\ t.targets = s.targets
  BY AddTypes DEF SameBody
<1>. HIDE DEF t
<1>3. Thinking(t) /\ IdleEmpty(t)
  BY <1>1, <1>2 DEF Minds, Thinking, IdleEmpty
<1>. QED
  BY <1>3 DEF Minds, t

LEMMA WakeMinds ==
    ASSUME NEW s \in States, NEW M \in SUBSET Monster, Minds(s)
    PROVE  Minds(Wake(s, M))
<1>. DEFINE t == Wake(s, M)
<1>1. Listing(t)
  BY WakeLists DEF Minds, Thinking
<1>2. /\ t.idle = s.idle \ M /\ t.creatureCheck = s.creatureCheck \cup M /\ t.targets = s.targets
  BY WakeTypes DEF SameBody
<1>. HIDE DEF t
<1>3. Thinking(t) /\ IdleEmpty(t)
  BY <1>1, <1>2 DEF Minds, Thinking, IdleEmpty
<1>. QED
  BY <1>3 DEF Minds, t

LEMMA SleepMinds ==
    ASSUME NEW s \in States, NEW M \in SUBSET Monster, Minds(s)
    PROVE  Minds(Sleep(s, M))
<1>. DEFINE t == Sleep(s, M)
<1>1. /\ t.idle = s.idle \cup M /\ t.creatureCheck = s.creatureCheck \ (M \cap s.listed)
      /\ t.listed = s.listed /\ t.slots = s.slots
      /\ \A m \in Monster : t.targets[m] = IF m \in M THEN {} ELSE s.targets[m]
  BY SleepTypes
<1>. HIDE DEF t
<1>2. Listing(t)
  BY <1>1 DEF Minds, Thinking, Listing
<1>3. Monster \ t.idle \subseteq t.creatureCheck
  BY <1>1 DEF Minds, Thinking
<1>4. IdleEmpty(t)
  BY <1>1 DEF Minds, IdleEmpty, States
<1>. QED
  BY <1>2, <1>3, <1>4 DEF Minds, Thinking, t

LEMMA AttackTypes ==
    ASSUME NEW s \in States, NEW c \in Creature, NEW x \in Prey,
           NEW t, t = SetAttacked(s, c, x)
    PROVE  /\ t \in States /\ SameMinds(s, t)
           /\ t.place = s.place /\ t.master = s.master /\ t.follow = s.follow
           /\ t.targets = s.targets /\ Spawns(s, t)
           /\ \A d \in Creature : t.attacked[d] # None =>
                 t.attacked[d] = s.attacked[d] \/ CanSee(s, d, t.attacked[d])
<1>. DEFINE attacks(d) == IF x # None /\ CanSee(s, d, x) THEN x ELSE None
            a == [d \in Creature |->
                    IF d = c \/ (d \in Summons(s, c) /\ (x = None \/ CanSee(s, c, x)))
                    THEN attacks(d) ELSE s.attacked[d]]
<1>1. a \in [Creature -> Prey]
  BY DEF States, Prey
<1>2. t = [s EXCEPT !.attacked = a]
  BY DEF SetAttacked
<1>3. \A d \in Creature : a[d] # None => a[d] = s.attacked[d] \/ CanSee(s, d, a[d])
  OBVIOUS
<1>. HIDE DEF a
<1>. QED
  BY <1>1, <1>2, <1>3 DEF States, Prey, SameMinds, Spawns

LEMMA FollowTypes ==
    ASSUME NEW s \in States, NEW c \in Creature, NEW x \in Prey,
           NEW t, t = SetFollow(s, c, x)
    PROVE  /\ t \in States /\ SameMinds(s, t)
           /\ t.place = s.place /\ t.master = s.master /\ t.attacked = s.attacked
           /\ t.targets = s.targets /\ Spawns(s, t)
           /\ \A d \in Creature : t.follow[d] # None =>
                 t.follow[d] = s.follow[d] \/ CanSee(s, d, t.follow[d])
<1>. DEFINE y == IF x # None /\ CanSee(s, c, x) THEN x ELSE None
<1>1. y \in Prey /\ (y # None => CanSee(s, c, y))
  BY DEF Prey
<1>2. t = [s EXCEPT !.follow[c] = y]
  BY DEF SetFollow
<1>. HIDE DEF y
<1>3. \A d \in Creature : t.follow[d] = IF d = c THEN y ELSE s.follow[d]
  BY <1>2 DEF States, Prey
<1>4. \A d \in Creature : t.follow[d] # None =>
         t.follow[d] = s.follow[d] \/ CanSee(s, d, t.follow[d])
  BY <1>1, <1>3
<1>5. t \in States
  <2>. DEFINE f == [s.follow EXCEPT ![c] = y]
  <2>1. s.follow \in [Creature -> Prey]
    BY DEF States, Prey
  <2>2. f \in [Creature -> Prey]
    BY <1>1, <2>1
  <2>3. t = [s EXCEPT !.follow = f]
    BY <1>2
  <2>. HIDE DEF f
  <2>. QED
    BY <2>2, <2>3 DEF States, Prey
<1>6. /\ SameMinds(s, t)
      /\ t.place = s.place /\ t.master = s.master /\ t.attacked = s.attacked
      /\ t.targets = s.targets /\ Spawns(s, t)
  BY <1>2 DEF States, Prey, SameMinds, Spawns
<1>. QED
  BY <1>4, <1>5, <1>6

LEMMA DisappearTypes ==
    ASSUME NEW s \in States, NEW lost \in [Creature -> SUBSET Creature],
           NEW t, t = Disappear(s, lost)
    PROVE  /\ t \in States /\ SameMinds(s, t)
           /\ t.place = s.place /\ t.master = s.master
           /\ t.targets = s.targets /\ Spawns(s, t)
           /\ \A c \in Creature :
                 /\ t.attacked[c] # None => t.attacked[c] = s.attacked[c] /\ s.attacked[c] \notin lost[c]
                 /\ t.follow[c] # None => t.follow[c] = s.follow[c] /\ s.follow[c] \notin lost[c]
<1>. DEFINE prey == {c \in Creature : s.attacked[c] \in lost[c]}
            a == [c \in Creature |->
                    IF c \in prey \/ s.master[c] \in prey THEN None ELSE s.attacked[c]]
            f == [c \in Creature |->
                    IF s.follow[c] \in lost[c] \/ c \in prey \cap Player THEN None ELSE s.follow[c]]
<1>1. a \in [Creature -> Prey] /\ f \in [Creature -> Prey]
  BY DEF States, Prey
<1>2. t = [s EXCEPT !.attacked = a, !.follow = f]
  BY DEF Disappear, States
<1>3. \A c \in Creature : /\ a[c] # None => a[c] = s.attacked[c] /\ s.attacked[c] \notin lost[c]
                          /\ f[c] # None => f[c] = s.follow[c] /\ s.follow[c] \notin lost[c]
  OBVIOUS
<1>. HIDE DEF a, f
<1>. QED
  BY <1>1, <1>2, <1>3 DEF States, Prey, SameMinds, Spawns

LEMMA LeaveTypes ==
    ASSUME NEW s \in States, NEW M \in SUBSET Monster, NEW c \in Creature,
           NEW t, t = Leave(s, M, c)
    PROVE  /\ t \in States /\ SameAims(s, t)
           /\ \A m \in Monster : s.targets[m] \subseteq t.targets[m] \cup {c}
           /\ Minds(s) => Minds(t)
<1>. DEFINE foes == {m \in M : IsOpponent(s, m, c)}
            g == [m \in Monster |-> IF m \in foes THEN s.targets[m] \ {c} ELSE s.targets[m]]
            u == [s EXCEPT !.targets = g]
<1>1. g \in [Monster -> SUBSET Creature] /\ foes \in SUBSET Monster
  BY DEF States, Prey
<1>2. t = UpdateIdleStatus(u, foes)
  BY DEF Leave, States
<1>3. \A m \in Monster : /\ g[m] \subseteq s.targets[m]
                         /\ s.targets[m] \subseteq g[m] \cup {c}
  OBVIOUS
<1>. HIDE DEF g, foes
<1>4. u \in States /\ SameAims(s, u) /\ SameMinds(s, u) /\ u.targets = g
  BY <1>1 DEF States, Prey, SameAims, SameMinds, Spawns
<1>. HIDE DEF u
<1>5. t \in States /\ SameBody(u, t)
  BY <1>1, <1>2, <1>4, UpdateTypes
<1>6. SameAims(s, t) /\ t.targets = g
  BY <1>4, <1>5 DEF SameBody, SameAims, Spawns
<1>7. ASSUME Minds(s) PROVE Minds(t)
  BY <1>1, <1>2, <1>3, <1>4, <1>7, MindsUpdated
<1>. QED
  BY <1>3, <1>5, <1>6, <1>7

LEMMA FoundTypes ==
    ASSUME NEW s \in States, NEW M \in SUBSET Monster, NEW c \in Creature,
           NEW t, t = Found(s, M, c)
    PROVE  /\ t \in States /\ SameAims(s, t)
           /\ \A m \in Monster : /\ s.targets[m] \subseteq t.targets[m]
                                 /\ m \in M /\ IsOpponent(s, m, c) => c \in t.targets[m]
           /\ Minds(s) => Minds(t)
<1>. DEFINE g == [m \in Monster |->
                    IF m \in M /\ IsOpponent(s, m, c) THEN s.targets[m] \cup {c} ELSE s.targets[m]]
            u == [s EXCEPT !.targets = g]
<1>1. g \in [Monster -> SUBSET Creature]
  BY DEF States, Prey
<1>2. t = UpdateIdleStatus(u, M)
  BY DEF Found, States
<1>3. /\ \A m \in Monster : /\ s.targets[m] \subseteq g[m]
                            /\ m \in M /\ IsOpponent(s, m, c) => c \in g[m]
      /\ \A m \in Monster \ M : g[m] = s.targets[m]
  OBVIOUS
<1>. HIDE DEF g
<1>4. u \in States /\ SameAims(s, u) /\ SameMinds(s, u) /\ u.targets = g
  BY <1>1 DEF States, Prey, SameAims, SameMinds, Spawns
<1>. HIDE DEF u
<1>5. t \in States /\ SameBody(u, t)
  BY <1>2, <1>4, UpdateTypes
<1>6. SameAims(s, t) /\ t.targets = g
  BY <1>4, <1>5 DEF SameBody, SameAims, Spawns
<1>7. ASSUME Minds(s) PROVE Minds(t)
  BY <1>2, <1>3, <1>4, <1>7, MindsUpdated
<1>. QED
  BY <1>3, <1>5, <1>6, <1>7

LEMMA TargetTypes ==
    ASSUME NEW s \in States, NEW m \in Monster, NEW t, t = UpdateTargetList(s, m)
    PROVE  /\ t \in States /\ SameAims(s, t)
           /\ \A n \in Monster : n # m => t.targets[n] = s.targets[n]
           /\ \A c \in Creature \ {m} :
                 s.place[c] = s.place[m] /\ IsOpponent(s, m, c) => c \in t.targets[m]
           /\ Minds(s) => Minds(t)
<1>. DEFINE seen == At(s, s.place[m]) \ {m}
            T == (s.targets[m] \cap seen) \cup {c \in seen : IsOpponent(s, m, c)}
            u == [s EXCEPT !.targets[m] = T]
<1>1. seen \subseteq Creature /\ T \subseteq seen
  BY DEF At
<1>2. t = IF seen = {} THEN u ELSE UpdateIdleStatus(u, {m})
  BY DEF UpdateTargetList, States
<1>3. \A c \in Creature \ {m} : s.place[c] = s.place[m] /\ IsOpponent(s, m, c) => c \in T
  BY DEF At
<1>. HIDE DEF seen, T
<1>4. /\ u \in States /\ SameAims(s, u) /\ SameMinds(s, u) /\ u.targets[m] = T
      /\ \A n \in Monster : n # m => u.targets[n] = s.targets[n]
  BY <1>1 DEF States, Prey, SameAims, SameMinds, Spawns
<1>. HIDE DEF u
<1>5. CASE seen = {}
  <2>1. t = u /\ \A n \in Monster : u.targets[n] \subseteq s.targets[n]
    BY <1>1, <1>2, <1>4, <1>5
  <2>2. Minds(s) => Minds(u)
    BY <1>4, <2>1, MindsSame
  <2>. QED
    BY <1>3, <1>4, <2>1, <2>2
<1>6. CASE seen # {}
  <2>1. t = UpdateIdleStatus(u, {m}) /\ {m} \in SUBSET Monster
    BY <1>2, <1>6
  <2>2. t \in States /\ SameBody(u, t)
    BY <1>4, <2>1, UpdateTypes
  <2>3. SameAims(s, t) /\ t.targets = u.targets
    BY <1>4, <2>2 DEF SameBody, SameAims, Spawns
  <2>4. Minds(s) => Minds(t)
    BY <1>4, <2>1, MindsUpdated
  <2>. QED
    BY <1>3, <1>4, <2>2, <2>3, <2>4
<1>. QED
  BY <1>5, <1>6

-----------------------------------------------------------------------------
(* What leaves everybody where it is.                                      *)

LEMMA SoundMore ==
    ASSUME NEW s, NEW X, NEW Y, NEW E, NEW F, Sound(s, X, E), X \subseteq Y, E \subseteq F
    PROVE  Sound(s, Y, F)
BY DEF Sound, Hunting, Mastered

\* Nobody lost a target, and whoever has new prey sees it.
LEMMA QuietKeeps ==
    ASSUME NEW s \in States, NEW t \in States, NEW X, NEW E, Sound(s, X, E), Minds(t),
           t.place = s.place, t.master = s.master,
           \A m \in Monster \ X : s.targets[m] \subseteq t.targets[m],
           \A d \in Creature :
              /\ t.attacked[d] # None =>
                    t.attacked[d] = s.attacked[d] \/ CanSee(s, d, t.attacked[d])
              /\ t.follow[d] # None =>
                    t.follow[d] = s.follow[d] \/ CanSee(s, d, t.follow[d])
    PROVE  Sound(t, X, E)
<1>1. \A c, d : CanSee(t, c, d) <=> CanSee(s, c, d)
  BY DEF CanSee
<1>2. Hunting(t, X)
  BY <1>1 DEF Sound, Hunting, PlayersSummon
<1>3. Preying(t)
  BY <1>1 DEF Sound, Preying
<1>4. Mastered(t, E)
  BY DEF Sound, Mastered
<1>. QED
  BY <1>2, <1>3, <1>4 DEF Sound

LEMMA AttackKeeps ==
    ASSUME NEW s \in States, NEW c \in Creature, NEW x \in Prey,
           NEW t, t = SetAttacked(s, c, x)
    PROVE  /\ t \in States /\ Spawns(s, t) /\ t.place = s.place /\ t.master = s.master
           /\ t.targets = s.targets
           /\ \A X, E : Sound(s, X, E) => Sound(t, X, E)
<1>1. /\ t \in States /\ SameMinds(s, t)
      /\ t.place = s.place /\ t.master = s.master /\ t.follow = s.follow
      /\ t.targets = s.targets /\ Spawns(s, t)
      /\ \A d \in Creature : t.attacked[d] # None =>
            t.attacked[d] = s.attacked[d] \/ CanSee(s, d, t.attacked[d])
  BY AttackTypes
<1>2. ASSUME NEW X, NEW E, Sound(s, X, E) PROVE Sound(t, X, E)
  <2>1. Minds(t)
    BY <1>1, <1>2, MindsSame DEF Sound
  <2>. QED
    BY <1>1, <1>2, <2>1, QuietKeeps
<1>. QED
  BY <1>1, <1>2

LEMMA FollowKeeps ==
    ASSUME NEW s \in States, NEW c \in Creature, NEW x \in Prey,
           NEW t, t = SetFollow(s, c, x)
    PROVE  /\ t \in States /\ Spawns(s, t) /\ t.place = s.place /\ t.master = s.master
           /\ \A X, E : Sound(s, X, E) => Sound(t, X, E)
<1>1. /\ t \in States /\ SameMinds(s, t)
      /\ t.place = s.place /\ t.master = s.master /\ t.attacked = s.attacked
      /\ t.targets = s.targets /\ Spawns(s, t)
      /\ \A d \in Creature : t.follow[d] # None =>
            t.follow[d] = s.follow[d] \/ CanSee(s, d, t.follow[d])
  BY FollowTypes
<1>2. ASSUME NEW X, NEW E, Sound(s, X, E) PROVE Sound(t, X, E)
  <2>1. Minds(t)
    BY <1>1, <1>2, MindsSame DEF Sound
  <2>. QED
    BY <1>1, <1>2, <2>1, QuietKeeps
<1>. QED
  BY <1>1, <1>2

LEMMA UpdateKeeps ==
    ASSUME NEW s \in States, NEW M \in SUBSET Monster, NEW t, t = UpdateIdleStatus(s, M)
    PROVE  /\ t \in States /\ Spawns(s, t) /\ t.place = s.place /\ t.master = s.master
           /\ \A X, E : Sound(s, X, E) => Sound(t, X, E)
<1>1. t \in States /\ SameBody(s, t)
  BY UpdateTypes
<1>2. ASSUME NEW X, NEW E, Sound(s, X, E) PROVE Sound(t, X, E)
  <2>1. Minds(t)
    BY <1>2, MindsUpdated DEF Sound, SameMinds
  <2>. QED
    BY <1>1, <1>2, <2>1, QuietKeeps DEF SameBody, SameAims, Spawns
<1>. QED
  BY <1>1, <1>2 DEF SameBody, SameAims, Spawns

\* A monster that is put to sleep need not hunt.
LEMMA SleepKeeps ==
    ASSUME NEW s \in States, NEW M \in SUBSET Monster, NEW t, t = Sleep(s, M),
           NEW E, Sound(s, Monster, E)
    PROVE  /\ t \in States /\ Spawns(s, t) /\ t.place = s.place /\ t.master = s.master
           /\ Sound(t, Monster, E)
<1>1. /\ t \in States /\ Spawns(s, t) /\ t.place = s.place /\ t.master = s.master
      /\ t.attacked = s.attacked /\ t.follow = s.follow
  BY SleepTypes DEF Spawns
<1>2. Minds(t)
  BY SleepMinds DEF Sound
<1>. QED
  BY <1>1, <1>2, QuietKeeps

-----------------------------------------------------------------------------
(* Who comes, goes or moves.                                               *)

LEMMA PlacedTypes ==
    ASSUME NEW s \in States, NEW c \in Creature, NEW l \in Place, NEW t, t = Placed(s, c, l)
    PROVE  /\ t \in States /\ Spawns(s, t) /\ t.master = s.master
           /\ t.attacked = s.attacked /\ t.follow = s.follow
           /\ \A d \in Creature : t.place[d] = IF d = c THEN l ELSE s.place[d]
           /\ \A m \in Monster \ {c} :
                 /\ s.targets[m] \subseteq t.targets[m]
                 /\ s.place[m] = l /\ IsOpponent(s, m, c) => c \in t.targets[m]
           /\ c \in Monster => \A d \in Creature \ {c} :
                 s.place[d] = l /\ IsOpponent(s, c, d) => d \in t.targets[c]
           /\ Minds(s) => Minds(t)
<1>. DEFINE u      == [s EXCEPT !.place[c] = l]
            others == At(s, l) \cap Monster
            found  == Found(u, others, c)
            heard  == UpdateTargetList(found, c)
            self   == IF c \in Monster THEN UpdateIdleStatus(heard, {c}) ELSE Wake(found, others)
<1>1. t = AddCreatureCheck(self, {c})
  BY DEF Placed
<1>2. /\ u \in States /\ SameMinds(s, u) /\ Spawns(s, u) /\ u.master = s.master
      /\ u.attacked = s.attacked /\ u.follow = s.follow /\ u.targets = s.targets
      /\ \A d \in Creature : u.place[d] = IF d = c THEN l ELSE s.place[d]
  BY DEF States, Prey, SameMinds, Spawns
<1>3. others \in SUBSET Monster /\ \A m \in Monster : s.place[m] = l => m \in others
  BY CreaturesAssumption DEF At
<1>. HIDE DEF u, others
<1>4. Minds(s) => Minds(u)
  BY <1>2, MindsSame
<1>5. /\ found \in States /\ SameAims(u, found)
      /\ \A m \in Monster : /\ u.targets[m] \subseteq found.targets[m]
                            /\ m \in others /\ IsOpponent(u, m, c) => c \in found.targets[m]
      /\ Minds(u) => Minds(found)
  BY <1>2, <1>3, FoundTypes
<1>. HIDE DEF found
<1>6. /\ self \in States /\ SameAims(found, self)
      /\ \A m \in Monster \ {c} : self.targets[m] = found.targets[m]
      /\ c \in Monster => \A d \in Creature \ {c} :
            found.place[d] = found.place[c] /\ IsOpponent(found, c, d) => d \in self.targets[c]
      /\ Minds(found) => Minds(self)
  <2>1. CASE c \in Monster
    <3>1. /\ heard \in States /\ SameAims(found, heard)
          /\ \A m \in Monster : m # c => heard.targets[m] = found.targets[m]
          /\ \A d \in Creature \ {c} :
                found.place[d] = found.place[c] /\ IsOpponent(found, c, d) => d \in heard.targets[c]
          /\ Minds(found) => Minds(heard)
      BY <1>5, <2>1, TargetTypes
    <3>. HIDE DEF heard
    <3>2. /\ self \in States /\ SameBody(heard, self)
          /\ Minds(heard) => Minds(self)
      BY <2>1, <3>1, UpdateTypes, MindsUpdated DEF SameMinds
    <3>. HIDE DEF self
    <3>. QED
      BY <3>1, <3>2 DEF SameBody, SameAims, Spawns
  <2>2. CASE c \notin Monster
    <3>1. self \in States /\ SameBody(found, self) /\ (Minds(found) => Minds(self))
      BY <1>3, <1>5, <2>2, WakeTypes, WakeMinds
    <3>. HIDE DEF self
    <3>. QED
      BY <2>2, <3>1 DEF SameBody
  <2>. QED
    BY <2>1, <2>2
<1>. HIDE DEF self
<1>7. t \in States /\ SameBody(self, t) /\ (Minds(self) => Minds(t))
  BY <1>1, <1>6, AddTypes, AddMinds
<1>8. /\ Spawns(s, t) /\ t.master = s.master
      /\ t.attacked = s.attacked /\ t.follow = s.follow /\ t.place = u.place
  BY <1>2, <1>5, <1>6, <1>7 DEF SameBody, SameAims, Spawns
<1>9. \A m \in Monster \ {c} :
         /\ s.targets[m] \subseteq t.targets[m]
         /\ s.place[m] = l /\ IsOpponent(s, m, c) => c \in t.targets[m]
  BY <1>2, <1>3, <1>5, <1>6, <1>7 DEF SameBody, IsOpponent, PlayersSummon
<1>10. ASSUME c \in Monster, NEW d \in Creature \ {c}, s.place[d] = l, IsOpponent(s, c, d)
       PROVE  d \in t.targets[c]
  <2>1. found.place[d] = found.place[c] /\ found.master = s.master
    BY <1>2, <1>5, <1>10 DEF SameAims
  <2>2. IsOpponent(found, c, d)
    BY <2>1, <1>10 DEF IsOpponent, PlayersSummon
  <2>. QED
    BY <1>6, <1>7, <1>10, <2>1, <2>2 DEF SameBody
<1>. QED
  BY <1>2, <1>4, <1>5, <1>6, <1>7, <1>8, <1>9, <1>10

LEMMA PlacedKeeps ==
    ASSUME NEW s \in States, NEW c \in Creature, NEW l \in Place, s.place[c] = None,
           NEW X, NEW E, Sound(s, X, E), NEW t, t = Placed(s, c, l)
    PROVE  Sound(t, X, E)
<1>1. /\ t.master = s.master
      /\ t.attacked = s.attacked /\ t.follow = s.follow
      /\ \A d \in Creature : t.place[d] = IF d = c THEN l ELSE s.place[d]
      /\ \A m \in Monster \ {c} :
            /\ s.targets[m] \subseteq t.targets[m]
            /\ s.place[m] = l /\ IsOpponent(s, m, c) => c \in t.targets[m]
      /\ c \in Monster => \A d \in Creature \ {c} :
            s.place[d] = l /\ IsOpponent(s, c, d) => d \in t.targets[c]
      /\ Minds(t)
  BY PlacedTypes DEF Sound
<1>2. l # None /\ Player \subseteq Creature /\ Monster \subseteq Creature /\ Player \cap Monster = {}
  BY CreaturesAssumption
<1>3. ASSUME NEW m \in Monster \ X, NEW p \in Player, CanSee(t, m, p), ~PlayersSummon(t, m)
      PROVE  p \in t.targets[m]
  <2>1. IsOpponent(s, m, p)
    BY <1>1, <1>3 DEF IsOpponent, PlayersSummon
  <2>2. CASE m = c
    BY <1>1, <1>2, <1>3, <2>1, <2>2 DEF CanSee
  <2>3. CASE p = c
    BY <1>1, <1>2, <1>3, <2>1, <2>3 DEF CanSee
  <2>4. CASE m # c /\ p # c
    <3>1. CanSee(s, m, p) /\ ~PlayersSummon(s, m)
      BY <1>1, <1>2, <1>3, <2>4 DEF CanSee, PlayersSummon
    <3>. QED
      BY <1>1, <1>3, <2>4, <3>1 DEF Sound, Hunting
  <2>. QED
    BY <2>2, <2>3, <2>4
<1>4. ASSUME NEW d \in Creature, NEW e \in Creature, CanSee(s, d, e) PROVE CanSee(t, d, e)
  BY <1>1, <1>4 DEF CanSee
<1>5. Preying(t)
  BY <1>1, <1>4 DEF Sound, Preying, States, Prey
<1>6. Mastered(t, E)
  BY <1>1, <1>2 DEF Sound, Mastered, States, Prey
<1>. QED
  BY <1>1, <1>3, <1>5, <1>6 DEF Sound, Hunting

\* Of whom a creature loses sight when c goes from one place to the place l.
Lost(s, c, l) ==
    [d \in Creature |->
        IF d = c THEN Creature \ ((At(s, l) \ {c}) \cup {c})
        ELSE IF d \in At(s, s.place[c]) \ {c} THEN {c} ELSE {}]

LEMMA MovedTypes ==
    ASSUME NEW s \in States, NEW c \in Creature, NEW l \in Place, NEW t, t = Moved(s, c, l)
    PROVE  /\ t \in States /\ Spawns(s, t) /\ t.master = s.master
           /\ \A d \in Creature : t.place[d] = IF d = c THEN l ELSE s.place[d]
           /\ \A d \in Creature :
                 /\ t.attacked[d] # None =>
                       t.attacked[d] = s.attacked[d] /\ s.attacked[d] \notin Lost(s, c, l)[d]
                 /\ t.follow[d] # None =>
                       t.follow[d] = s.follow[d] /\ s.follow[d] \notin Lost(s, c, l)[d]
           /\ \A m \in Monster \ {c} :
                 /\ s.targets[m] \subseteq t.targets[m] \cup {c}
                 /\ s.place[m] = l /\ IsOpponent(s, m, c) => c \in t.targets[m]
           /\ c \in Monster => \A d \in Creature \ {c} :
                 s.place[d] = l /\ IsOpponent(s, c, d) => d \in t.targets[c]
           /\ Minds(s) => Minds(t)
<1>. DEFINE u      == [s EXCEPT !.place[c] = l]
            stay   == At(s, s.place[c]) \ {c}
            meet   == At(s, l) \ {c}
            told   == (stay \cup meet \cup {c}) \cap Monster
            woken  == IF c \in Player \/ PlayersSummon(s, c) THEN Wake(u, told) ELSE u
            lost   == Disappear(woken, Lost(s, c, l))
            left   == Leave(lost, stay \cap Monster, c)
            others == Found(left, meet \cap Monster, c)
            self   == IF c \in Monster THEN UpdateTargetList(others, c) ELSE others
<1>1. t = UpdateIdleStatus(self, told \cap self.idle)
  BY DEF Moved, Lost
<1>2. /\ u \in States /\ SameMinds(s, u) /\ Spawns(s, u) /\ u.master = s.master
      /\ u.attacked = s.attacked /\ u.follow = s.follow /\ u.targets = s.targets
      /\ \A d \in Creature : u.place[d] = IF d = c THEN l ELSE s.place[d]
  BY DEF States, Prey, SameMinds, Spawns
<1>3. /\ told \in SUBSET Monster /\ stay \cap Monster \in SUBSET Monster
      /\ meet \cap Monster \in SUBSET Monster
      /\ \A m \in Monster \ {c} : s.place[m] = l => m \in meet \cap Monster
      /\ Lost(s, c, l) \in [Creature -> SUBSET Creature]
  BY CreaturesAssumption DEF At, Lost
<1>. HIDE DEF u, stay, meet, told
<1>4. Minds(s) => Minds(u)
  BY <1>2, MindsSame
<1>5. woken \in States /\ SameBody(u, woken) /\ (Minds(u) => Minds(woken))
  <2>1. CASE c \in Player \/ PlayersSummon(s, c)
    BY <1>2, <1>3, <2>1, WakeTypes, WakeMinds
  <2>2. CASE ~(c \in Player \/ PlayersSummon(s, c))
    BY <1>2, <2>2 DEF SameBody, SameAims, Spawns
  <2>. QED
    BY <2>1, <2>2
<1>. HIDE DEF woken
<1>6. /\ lost \in States /\ SameMinds(woken, lost)
      /\ lost.place = woken.place /\ lost.master = woken.master
      /\ lost.targets = woken.targets /\ Spawns(woken, lost)
      /\ \A d \in Creature :
            /\ lost.attacked[d] # None =>
                  lost.attacked[d] = woken.attacked[d] /\ woken.attacked[d] \notin Lost(s, c, l)[d]
            /\ lost.follow[d] # None =>
                  lost.follow[d] = woken.follow[d] /\ woken.follow[d] \notin Lost(s, c, l)[d]
  BY <1>3, <1>5, DisappearTypes
<1>7. Minds(woken) => Minds(lost)
  BY <1>5, <1>6, MindsSame
<1>. HIDE DEF lost
<1>8. /\ left \in States /\ SameAims(lost, left)
      /\ \A m \in Monster : lost.targets[m] \subseteq left.targets[m] \cup {c}
      /\ Minds(lost) => Minds(left)
  <2>. DEFINE M == stay \cap Monster
  <2>1. M \in SUBSET Monster /\ lost \in States
    BY <1>3, <1>6
  <2>2. left = Leave(lost, M, c)
    OBVIOUS
  <2>. HIDE DEF left, M
  <2>3. left \in States /\ SameAims(lost, left)
    BY <2>1, <2>2, LeaveTypes
  <2>4. \A m \in Monster : lost.targets[m] \subseteq left.targets[m] \cup {c}
    BY <2>1, <2>2, LeaveTypes
  <2>5. Minds(lost) => Minds(left)
    BY <2>1, <2>2, LeaveTypes
  <2>. QED
    BY <2>3, <2>4, <2>5
<1>. HIDE DEF left
<1>9. /\ others \in States /\ SameAims(left, others)
      /\ \A m \in Monster : /\ left.targets[m] \subseteq others.targets[m]
                            /\ m \in meet \cap Monster /\ IsOpponent(left, m, c) =>
                                  c \in others.targets[m]
      /\ Minds(left) => Minds(others)
  BY <1>3, <1>8, FoundTypes
<1>. HIDE DEF others
<1>10. /\ self \in States /\ SameAims(others, self)
       /\ \A m \in Monster \ {c} : self.targets[m] = others.targets[m]
       /\ c \in Monster => \A d \in Creature \ {c} :
             others.place[d] = others.place[c] /\ IsOpponent(others, c, d) => d \in self.targets[c]
       /\ Minds(others) => Minds(self)
  <2>1. CASE c \in Monster
    BY <1>9, <2>1, TargetTypes
  <2>2. CASE c \notin Monster
    BY <1>9, <2>2 DEF SameAims, Spawns
  <2>. QED
    BY <2>1, <2>2
<1>. HIDE DEF self
<1>11. /\ t \in States /\ SameBody(self, t)
       /\ Minds(self) => Minds(t)
  <2>1. told \cap self.idle \in SUBSET Monster
    BY <1>3
  <2>2. Minds(self) => Minds(t)
    BY <1>1, <1>10, <2>1, MindsUpdated DEF SameMinds
  <2>. QED
    BY <1>1, <1>10, <2>1, <2>2, UpdateTypes
<1>12. Minds(s) => Minds(t)
  BY <1>4, <1>5, <1>7, <1>8, <1>9, <1>10, <1>11
<1>13. Spawns(s, t) /\ t.place = u.place /\ t.master = s.master
       /\ others.place = u.place /\ others.master = s.master /\ left.master = s.master
  BY <1>2, <1>5, <1>6, <1>8, <1>9, <1>10, <1>11 DEF SameBody, SameAims, Spawns
<1>14. t.attacked = lost.attacked /\ t.follow = lost.follow
       /\ woken.attacked = s.attacked /\ woken.follow = s.follow
  BY <1>2, <1>5, <1>8, <1>9, <1>10, <1>11 DEF SameBody, SameAims
<1>15. \A m \in Monster \ {c} : s.targets[m] \subseteq t.targets[m] \cup {c}
  BY <1>2, <1>5, <1>6, <1>8, <1>9, <1>10, <1>11 DEF SameBody
<1>16. ASSUME NEW m \in Monster \ {c}, s.place[m] = l, IsOpponent(s, m, c)
       PROVE  c \in t.targets[m]
  <2>1. IsOpponent(left, m, c)
    BY <1>13, <1>16 DEF IsOpponent, PlayersSummon
  <2>. QED
    BY <1>3, <1>9, <1>10, <1>11, <1>16, <2>1 DEF SameBody
<1>17. ASSUME c \in Monster, NEW d \in Creature \ {c}, s.place[d] = l, IsOpponent(s, c, d)
       PROVE  d \in t.targets[c]
  <2>1. IsOpponent(others, c, d) /\ others.place[d] = others.place[c]
    BY <1>2, <1>13, <1>17 DEF IsOpponent, PlayersSummon
  <2>. QED
    BY <1>10, <1>11, <1>17, <2>1 DEF SameBody
<1>. QED
  BY <1>2, <1>6, <1>11, <1>12, <1>13, <1>14, <1>15, <1>16, <1>17

LEMMA MovedKeeps ==
    ASSUME NEW s \in States, NEW c \in Creature, NEW l \in Place,
           s.place[c] # None, NEW X, NEW E, Sound(s, X, E), NEW t, t = Moved(s, c, l)
    PROVE  Sound(t, X, E)
<1>1. /\ t \in States /\ t.master = s.master
      /\ \A d \in Creature : t.place[d] = IF d = c THEN l ELSE s.place[d]
      /\ \A m \in Monster \ {c} :
            /\ s.targets[m] \subseteq t.targets[m] \cup {c}
            /\ s.place[m] = l /\ IsOpponent(s, m, c) => c \in t.targets[m]
      /\ c \in Monster => \A d \in Creature \ {c} :
            s.place[d] = l /\ IsOpponent(s, c, d) => d \in t.targets[c]
      /\ Minds(t)
  BY MovedTypes DEF Sound
<1>2. l # None /\ Player \subseteq Creature /\ Monster \subseteq Creature /\ Player \cap Monster = {}
  BY CreaturesAssumption
<1>3. ASSUME NEW m \in Monster \ X, NEW p \in Player, CanSee(t, m, p), ~PlayersSummon(t, m)
      PROVE  p \in t.targets[m]
  <2>1. IsOpponent(s, m, p)
    BY <1>1, <1>3 DEF IsOpponent, PlayersSummon
  <2>2. CASE m = c
    BY <1>1, <1>2, <1>3, <2>1, <2>2 DEF CanSee
  <2>3. CASE p = c
    BY <1>1, <1>2, <1>3, <2>1, <2>3 DEF CanSee
  <2>4. CASE m # c /\ p # c
    <3>1. CanSee(s, m, p) /\ ~PlayersSummon(s, m)
      BY <1>1, <1>2, <1>3, <2>4 DEF CanSee, PlayersSummon
    <3>. QED
      BY <1>1, <1>3, <2>4, <3>1 DEF Sound, Hunting
  <2>. QED
    BY <2>2, <2>3, <2>4
<1>4. ASSUME NEW d \in Creature, NEW e \in Creature, CanSee(s, d, e), e \notin Lost(s, c, l)[d]
      PROVE  CanSee(t, d, e)
  <2>1. CASE d = c
    BY <1>1, <1>2, <1>4, <2>1 DEF CanSee, Lost, At
  <2>2. CASE d # c
    <3>1. e # c
      BY <1>4, <2>2 DEF CanSee, Lost, At
    <3>. QED
      BY <1>1, <1>4, <2>2, <3>1 DEF CanSee
  <2>. QED
    BY <2>1, <2>2
<1>5. Preying(t)
  <2>1. ASSUME NEW d \in Creature, t.attacked[d] # None
        PROVE  CanSee(t, d, t.attacked[d])
    <3>1. t.attacked[d] = s.attacked[d] /\ s.attacked[d] \notin Lost(s, c, l)[d]
      BY <2>1, MovedTypes
    <3>2. s.attacked[d] \in Creature /\ CanSee(s, d, s.attacked[d])
      BY <2>1, <3>1 DEF Sound, Preying, States, Prey
    <3>. QED
      BY <1>4, <3>1, <3>2
  <2>2. ASSUME NEW d \in Creature, t.follow[d] # None
        PROVE  CanSee(t, d, t.follow[d])
    <3>1. t.follow[d] = s.follow[d] /\ s.follow[d] \notin Lost(s, c, l)[d]
      BY <2>2, MovedTypes
    <3>2. s.follow[d] \in Creature /\ CanSee(s, d, s.follow[d])
      BY <2>2, <3>1 DEF Sound, Preying, States, Prey
    <3>. QED
      BY <1>4, <3>1, <3>2
  <2>. QED
    BY <2>1, <2>2 DEF Preying
<1>6. Mastered(t, E)
  <2>1. \A d \in Creature : s.place[d] # None => t.place[d] # None
    BY <1>1, <1>2
  <2>. QED
    BY <1>1, <2>1 DEF Sound, Mastered, States, Prey
<1>. QED
  BY <1>1, <1>3, <1>5, <1>6 DEF Sound, Hunting

\* Those who are where c is lose sight of it.
Unseen(s, c) == [d \in Creature |-> IF d \in At(s, s.place[c]) \ {c} THEN {c} ELSE {}]

\* g is f but that c has nothing.
Cleared(f, g, c) == \A d \in Creature : g[d] = IF d = c THEN None ELSE f[d]

LEMMA RemovedTypes ==
    ASSUME NEW s \in States, NEW c \in Creature, NEW t, t = RemovedAlone(s, c)
    PROVE  /\ t \in States /\ t.spawned = s.spawned /\ t.current = s.current
           /\ t.checkSpawnEvent <=> s.checkSpawnEvent \/ \E b \in Block : s.spawned[b] = c
           /\ \A d \in Creature : /\ t.place[d] = IF d = c THEN None ELSE s.place[d]
                                  /\ t.master[d] = IF d = c THEN None ELSE s.master[d]
           /\ \A d \in Creature :
                 /\ t.attacked[d] # None =>
                       /\ d # c /\ t.attacked[d] = s.attacked[d]
                       /\ s.attacked[d] \notin Unseen(s, c)[d]
                 /\ t.follow[d] # None =>
                       /\ d # c /\ t.follow[d] = s.follow[d]
                       /\ s.follow[d] \notin Unseen(s, c)[d]
           /\ \A m \in Monster \ {c} : s.targets[m] \subseteq t.targets[m] \cup {c}
           /\ Minds(s) => Minds(t)
<1>. DEFINE others == At(s, s.place[c]) \ {c}
            lost   == Disappear(s, Unseen(s, c))
            left   == Leave(lost, others \cap Monster, c)
            u      == RemoveCreatureCheck(left, {c})
            g      == [m \in Monster |-> IF m = c THEN {} ELSE u.targets[m]]
            e      == u.checkSpawnEvent \/ \E b \in DOMAIN s.spawned : s.spawned[b] = c
<1>1. t = [u EXCEPT !.place[c] = None, !.master[c] = None, !.attacked[c] = None,
                    !.follow[c] = None, !.targets = g, !.idle = @ \cup ({c} \cap Monster),
                    !.checkSpawnEvent = e]
  BY DEF RemovedAlone, Unseen
<1>2. others \cap Monster \in SUBSET Monster /\ Unseen(s, c) \in [Creature -> SUBSET Creature]
  BY DEF Unseen
<1>. HIDE DEF others
<1>3. /\ lost \in States /\ SameMinds(s, lost)
      /\ lost.place = s.place /\ lost.master = s.master
      /\ lost.targets = s.targets /\ Spawns(s, lost)
      /\ \A d \in Creature :
            /\ lost.attacked[d] # None =>
                  lost.attacked[d] = s.attacked[d] /\ s.attacked[d] \notin Unseen(s, c)[d]
            /\ lost.follow[d] # None =>
                  lost.follow[d] = s.follow[d] /\ s.follow[d] \notin Unseen(s, c)[d]
  BY <1>2, DisappearTypes
<1>4. Minds(s) => Minds(lost)
  BY <1>3, MindsSame
<1>. HIDE DEF lost
<1>5. /\ left \in States /\ SameAims(lost, left)
      /\ \A m \in Monster : lost.targets[m] \subseteq left.targets[m] \cup {c}
      /\ Minds(lost) => Minds(left)
  <2>. DEFINE M == others \cap Monster
  <2>1. M \in SUBSET Monster /\ lost \in States
    BY <1>2, <1>3
  <2>2. left = Leave(lost, M, c)
    OBVIOUS
  <2>. HIDE DEF left, M
  <2>3. left \in States /\ SameAims(lost, left)
    BY <2>1, <2>2, LeaveTypes
  <2>4. \A m \in Monster : lost.targets[m] \subseteq left.targets[m] \cup {c}
    BY <2>1, <2>2, LeaveTypes
  <2>5. Minds(lost) => Minds(left)
    BY <2>1, <2>2, LeaveTypes
  <2>. QED
    BY <2>3, <2>4, <2>5
<1>. HIDE DEF left
<1>6. /\ u \in States /\ SameBody(left, u) /\ u.idle = left.idle
      /\ u.creatureCheck = left.creatureCheck \ ({c} \cap left.listed)
      /\ u.listed = left.listed /\ u.slots = left.slots
  BY <1>5, RemoveTypes
<1>. HIDE DEF u
<1>7. g \in [Monster -> SUBSET Creature] /\ e \in BOOLEAN
  BY <1>6 DEF States
<1>8. /\ \A m \in Monster : g[m] = IF m = c THEN {} ELSE u.targets[m]
      /\ e <=> s.checkSpawnEvent \/ \E b \in Block : s.spawned[b] = c
  <2>1. u.checkSpawnEvent = s.checkSpawnEvent /\ DOMAIN s.spawned = Block
    BY <1>3, <1>5, <1>6 DEF SameBody, SameAims, Spawns, States
  <2>. QED
    BY <2>1
<1>. HIDE DEF g, e
<1>9. /\ t \in States
      /\ t.targets = g /\ t.checkSpawnEvent = e /\ t.idle = u.idle \cup ({c} \cap Monster)
      /\ t.spawned = u.spawned /\ t.current = u.current
      /\ t.listed = u.listed /\ t.slots = u.slots /\ t.creatureCheck = u.creatureCheck
      /\ Cleared(u.place, t.place, c) /\ Cleared(u.master, t.master, c)
      /\ Cleared(u.attacked, t.attacked, c) /\ Cleared(u.follow, t.follow, c)
  <2>. DEFINE p == [u.place EXCEPT ![c] = None]
              h == [u.master EXCEPT ![c] = None]
              a == [u.attacked EXCEPT ![c] = None]
              f == [u.follow EXCEPT ![c] = None]
              i == u.idle \cup ({c} \cap Monster)
  <2>1. p \in [Creature -> Place \cup {None}] /\ h \in [Creature -> Prey]
        /\ a \in [Creature -> Prey] /\ f \in [Creature -> Prey] /\ i \in SUBSET Monster
    <3>1. /\ u.place \in [Creature -> Place \cup {None}] /\ u.master \in [Creature -> Prey]
          /\ u.attacked \in [Creature -> Prey] /\ u.follow \in [Creature -> Prey]
          /\ u.idle \in SUBSET Monster /\ None \in Prey
      BY <1>6 DEF States, Prey
    <3>2. p \in [Creature -> Place \cup {None}]
      BY <3>1
    <3>3. h \in [Creature -> Prey]
      BY <3>1
    <3>4. a \in [Creature -> Prey]
      BY <3>1
    <3>5. f \in [Creature -> Prey]
      BY <3>1
    <3>. QED
      BY <3>1, <3>2, <3>3, <3>4, <3>5
  <2>2. /\ Cleared(u.place, p, c) /\ Cleared(u.master, h, c)
        /\ Cleared(u.attacked, a, c) /\ Cleared(u.follow, f, c)
    <3>1. /\ u.place \in [Creature -> Place \cup {None}] /\ u.master \in [Creature -> Prey]
          /\ u.attacked \in [Creature -> Prey] /\ u.follow \in [Creature -> Prey]
      BY <1>6 DEF States, Prey
    <3>2. Cleared(u.place, p, c)
      BY <3>1 DEF Cleared
    <3>3. Cleared(u.master, h, c)
      BY <3>1 DEF Cleared
    <3>4. Cleared(u.attacked, a, c)
      BY <3>1 DEF Cleared
    <3>5. Cleared(u.follow, f, c)
      BY <3>1 DEF Cleared
    <3>. HIDE DEF p, h, a, f
    <3>. QED
      BY <3>2, <3>3, <3>4, <3>5
  <2>3. t = [u EXCEPT !.place = p, !.master = h, !.attacked = a, !.follow = f,
                      !.targets = g, !.idle = i, !.checkSpawnEvent = e]
    BY <1>1, <1>6 DEF States
  <2>. HIDE DEF p, h, a, f, i
  <2>4. t \in States
    <3>. DEFINE v == [u EXCEPT !.place = p, !.master = h, !.attacked = a, !.follow = f]
    <3>1. v \in States
      BY <1>6, <1>7, <2>1 DEF States
    <3>2. t = [v EXCEPT !.targets = g, !.idle = i, !.checkSpawnEvent = e]
      BY <2>3
    <3>. HIDE DEF v
    <3>. QED
      BY <3>1, <3>2, <1>6, <1>7, <2>1 DEF States
  <2>5. /\ t.place = p /\ t.master = h /\ t.attacked = a /\ t.follow = f
        /\ t.targets = g /\ t.checkSpawnEvent = e /\ t.idle = i
        /\ t.spawned = u.spawned /\ t.current = u.current
        /\ t.listed = u.listed /\ t.slots = u.slots /\ t.creatureCheck = u.creatureCheck
    BY <1>6, <2>3 DEF States
  <2>6. i = u.idle \cup ({c} \cap Monster)
    BY DEF i
  <2>7. /\ Cleared(u.place, t.place, c) /\ Cleared(u.master, t.master, c)
        /\ Cleared(u.attacked, t.attacked, c) /\ Cleared(u.follow, t.follow, c)
    BY <2>2, <2>5
  <2>8. t.idle = u.idle \cup ({c} \cap Monster)
    BY <2>5, <2>6
  <2>. QED
    BY <2>4, <2>5, <2>7, <2>8
<1>10. /\ u.place = s.place /\ u.master = s.master /\ u.spawned = s.spawned
       /\ u.current = s.current /\ u.attacked = lost.attacked /\ u.follow = lost.follow
       /\ u.targets = left.targets
  BY <1>3, <1>5, <1>6 DEF SameBody, SameAims, Spawns
<1>11. \A m \in Monster \ {c} : s.targets[m] \subseteq t.targets[m] \cup {c}
  BY <1>3, <1>5, <1>8, <1>9, <1>10
<1>12. ASSUME Minds(s) PROVE Minds(t)
  <2>1. Listing(left) /\ Monster \ left.idle \subseteq left.creatureCheck /\ IdleEmpty(left)
    BY <1>4, <1>5, <1>12 DEF Minds, Thinking
  <2>2. Listing(t)
    BY <1>6, <1>9, <2>1 DEF Listing
  <2>3. Monster \ t.idle \subseteq t.creatureCheck
    BY <1>6, <1>9, <2>1
  <2>4. IdleEmpty(t)
    BY <1>6, <1>8, <1>9, <1>10, <2>1 DEF IdleEmpty, States
  <2>. QED
    BY <2>2, <2>3, <2>4 DEF Minds, Thinking
<1>13. \A d \in Creature : /\ t.place[d] = IF d = c THEN None ELSE s.place[d]
                           /\ t.master[d] = IF d = c THEN None ELSE s.master[d]
  BY <1>9, <1>10 DEF Cleared
<1>14. \A d \in Creature :
          /\ t.attacked[d] # None =>
                d # c /\ t.attacked[d] = s.attacked[d] /\ s.attacked[d] \notin Unseen(s, c)[d]
          /\ t.follow[d] # None =>
                d # c /\ t.follow[d] = s.follow[d] /\ s.follow[d] \notin Unseen(s, c)[d]
  BY <1>3, <1>9, <1>10 DEF Cleared
<1>. QED
  BY <1>8, <1>9, <1>10, <1>11, <1>12, <1>13, <1>14

\* Whether c hunted does not matter any more, but its summons have lost their master.
LEMMA RemovedKeeps ==
    ASSUME NEW s \in States, NEW c \in Creature, NEW X, NEW E, Sound(s, X \cup {c}, E),
           NEW t, t = RemovedAlone(s, c)
    PROVE  Sound(t, X, E \cup Summons(s, c)) /\ (Missed(s) => Missed(t))
<1>1. /\ t \in States /\ t.spawned = s.spawned
      /\ t.checkSpawnEvent <=> s.checkSpawnEvent \/ \E b \in Block : s.spawned[b] = c
      /\ \A d \in Creature : /\ t.place[d] = IF d = c THEN None ELSE s.place[d]
                             /\ t.master[d] = IF d = c THEN None ELSE s.master[d]
      /\ \A m \in Monster \ {c} : s.targets[m] \subseteq t.targets[m] \cup {c}
      /\ Minds(t)
  BY RemovedTypes DEF Sound
<1>2. Player \subseteq Creature /\ Monster \subseteq Creature /\ Player \cap Monster = {}
      /\ None \notin Creature
  BY CreaturesAssumption
<1>3. ASSUME NEW m \in Monster \ X, NEW p \in Player, CanSee(t, m, p), ~PlayersSummon(t, m)
      PROVE  p \in t.targets[m]
  <2>1. m # c /\ p # c
    BY <1>1, <1>2, <1>3 DEF CanSee
  <2>2. CanSee(s, m, p) /\ ~PlayersSummon(s, m)
    BY <1>1, <1>2, <1>3, <2>1 DEF CanSee, PlayersSummon
  <2>. QED
    BY <1>1, <1>3, <2>1, <2>2 DEF Sound, Hunting
<1>4. ASSUME NEW d \in Creature, d # c, NEW e \in Creature, CanSee(s, d, e), e \notin Unseen(s, c)[d]
      PROVE  CanSee(t, d, e)
  <2>1. e # c
    BY <1>4 DEF CanSee, Unseen, At
  <2>. QED
    BY <1>1, <1>4, <2>1 DEF CanSee
<1>5. Preying(t)
  <2>1. ASSUME NEW d \in Creature, t.attacked[d] # None
        PROVE  CanSee(t, d, t.attacked[d])
    <3>1. d # c /\ t.attacked[d] = s.attacked[d] /\ s.attacked[d] \notin Unseen(s, c)[d]
      BY <2>1, RemovedTypes
    <3>2. s.attacked[d] \in Creature /\ CanSee(s, d, s.attacked[d])
      BY <2>1, <3>1 DEF Sound, Preying, States, Prey
    <3>. QED
      BY <1>4, <3>1, <3>2
  <2>2. ASSUME NEW d \in Creature, t.follow[d] # None
        PROVE  CanSee(t, d, t.follow[d])
    <3>1. d # c /\ t.follow[d] = s.follow[d] /\ s.follow[d] \notin Unseen(s, c)[d]
      BY <2>2, RemovedTypes
    <3>2. s.follow[d] \in Creature /\ CanSee(s, d, s.follow[d])
      BY <2>2, <3>1 DEF Sound, Preying, States, Prey
    <3>. QED
      BY <1>4, <3>1, <3>2
  <2>. QED
    BY <2>1, <2>2 DEF Preying
<1>6. ASSUME NEW d \in Creature, t.master[d] # None
      PROVE  /\ d \in Monster
             /\ t.place[d] # None
             /\ t.master[t.master[d]] = None
             /\ d \notin E \cup Summons(s, c) => t.place[t.master[d]] # None
  <2>1. d # c /\ t.master[d] = s.master[d] /\ s.master[d] \in Creature
    BY <1>1, <1>6 DEF States, Prey
  <2>2. /\ d \in Monster /\ s.place[d] # None /\ s.master[s.master[d]] = None
        /\ d \notin E => s.place[s.master[d]] # None
    BY <1>6, <2>1 DEF Sound, Mastered
  <2>3. d \notin Summons(s, c) => s.master[d] # c
    BY <2>2 DEF Summons
  <2>. QED
    BY <1>1, <2>1, <2>2, <2>3
<1>7. ASSUME Missed(s) PROVE Missed(t)
  <2>1. ASSUME NEW b \in Block, t.spawned[b] = None \/ t.place[t.spawned[b]] = None
        PROVE  t.checkSpawnEvent
    <3>1. s.spawned[b] = None \/ (s.spawned[b] \in Creature /\ t.place[s.spawned[b]] = None)
      BY <1>1, <1>2, <2>1 DEF States
    <3>2. s.spawned[b] = None \/ s.place[s.spawned[b]] = None \/ s.spawned[b] = c
      BY <1>1, <3>1
    <3>. QED
      BY <1>1, <1>7, <3>2 DEF Missed
  <2>. QED
    BY <2>1 DEF Missed
<1>. QED
  BY <1>1, <1>3, <1>5, <1>6, <1>7 DEF Sound, Hunting, Mastered

-----------------------------------------------------------------------------
(* Folds over a finite set: there is such a function, and what its steps    *)
(* keep it has.                                                            *)

\* Induction over the subsets of a finite set, G the set of those that are good.
LEMMA SubsetInduction ==
    ASSUME NEW D, IsFiniteSet(D), NEW G,
           \A T \in SUBSET D : (\A U \in SUBSET T : U # T => U \in G) => T \in G
    PROVE  \A T \in SUBSET D : T \in G
<1>. DEFINE Bad == {T \in SUBSET D : T \notin G}
<1>1. IsWellFoundedOn(StrictSubsetOrdering(D), SUBSET D)
  BY FS_StrictSubsetOrderingWellFounded, FS_FiniteSubsetsOfFinite
<1>2. ASSUME Bad # {} PROVE FALSE
  <2>1. PICK T \in Bad : \A U \in Bad : <<U, T>> \notin StrictSubsetOrdering(D)
    <3>. HIDE DEF Bad
    <3>1. Bad \subseteq SUBSET D
      BY DEF Bad
    <3>. QED
      BY <1>1, <1>2, <3>1, WFMin
  <2>2. \A U \in SUBSET T : U # T => U \in G
    BY <2>1 DEF StrictSubsetOrdering
  <2>. QED
    BY <2>1, <2>2
<1>. QED
  BY <1>2

\* The element that a fold over T takes first.
First(T) == CHOOSE x \in T : TRUE

\* f is the fold of op over the subsets of T from base.
Folds(f, op, base, T) ==
    \A U \in SUBSET T : f[U] = IF U = {} THEN base ELSE op[<<First(U), f[U \ {First(U)}]>>]

LEMMA FirstIn == ASSUME NEW T, T # {} PROVE First(T) \in T
BY DEF First

LEMMA FoldsAgree ==
    ASSUME NEW T, IsFiniteSet(T), NEW f, NEW g, f[{}] = g[{}],
           \A U \in SUBSET T :
              U # {} /\ f[U \ {First(U)}] = g[U \ {First(U)}] => f[U] = g[U]
    PROVE  f[T] = g[T]
<1>. DEFINE G == {U \in SUBSET T : f[U] = g[U]}
<1>1. ASSUME NEW U \in SUBSET T, \A V \in SUBSET U : V # U => V \in G PROVE U \in G
  <2>1. U # {} => U \ {First(U)} \in G
    BY <1>1, FirstIn
  <2>. QED
    BY <2>1
<1>. HIDE DEF G
<1>2. \A U \in SUBSET T : U \in G
  BY <1>1, SubsetInduction
<1>. QED
  BY <1>2 DEF G

LEMMA FoldUnique ==
    ASSUME NEW T, IsFiniteSet(T), NEW op, NEW base, NEW f, NEW g,
           Folds(f, op, base, T), Folds(g, op, base, T)
    PROVE  f[T] = g[T]
<1>1. f[{}] = g[{}]
  BY DEF Folds
<1>2. \A U \in SUBSET T : U # {} /\ f[U \ {First(U)}] = g[U \ {First(U)}] => f[U] = g[U]
  BY DEF Folds
<1>. QED
  BY <1>1, <1>2, FoldsAgree

\* There is such a fold.
LEMMA FoldExists ==
    ASSUME NEW D, IsFiniteSet(D), NEW B, NEW base \in B, NEW op \in [D \X B -> B]
    PROVE  \E f \in [SUBSET D -> B] : Folds(f, op, base, D)
<1>. DEFINE Some(T) == CHOOSE f \in [SUBSET T -> B] : Folds(f, op, base, T)
            V(T) == Some(T)[T]
            Is(T) == \E f \in [SUBSET T -> B] : Folds(f, op, base, T)
            G == {T \in SUBSET D : Is(T)}
<1>0. ASSUME NEW T \in G PROVE Some(T) \in [SUBSET T -> B] /\ Folds(Some(T), op, base, T) /\ V(T) \in B
  OBVIOUS
<1>1. ASSUME NEW T \in SUBSET D, \A U \in SUBSET T : U # T => U \in G PROVE T \in G
  <2>. DEFINE h == [U \in SUBSET T |->
                     IF U = {} THEN base ELSE op[<<First(U), V(U \ {First(U)})>>]]
  <2>1. ASSUME NEW U \in SUBSET T, U # {}
        PROVE  First(U) \in D /\ U \ {First(U)} \in SUBSET T /\ U \ {First(U)} \in G
    BY <1>1, <2>1, FirstIn
  <2>2. h \in [SUBSET T -> B]
    <3>1. ASSUME NEW U \in SUBSET T, U # {} PROVE op[<<First(U), V(U \ {First(U)})>>] \in B
      <4>. HIDE DEF G, V
      <4>. QED
        BY <2>1, <3>1, <1>0
    <3>. HIDE DEF V
    <3>. QED
      BY <3>1
  <2>3. ASSUME NEW W \in SUBSET T, W \in G PROVE h[W] = V(W)
    <3>1. Folds(Some(W), op, base, W)
      BY <2>3, <1>0
    <3>2. CASE W = {}
      BY <3>1, <3>2 DEF Folds
    <3>3. CASE W # {}
      <4>. DEFINE X == W \ {First(W)}
      <4>1. X \in G /\ X \in SUBSET W
        BY <3>3, <2>1
      <4>2. Folds(Some(X), op, base, X)
        BY <4>1, <1>0
      <4>3. Folds(Some(W), op, base, X)
        BY <3>1, <4>1 DEF Folds
      <4>4. IsFiniteSet(X)
        BY <4>1, FS_Subset
      <4>5. V(X) = Some(W)[X]
        <5>. HIDE DEF Some, X
        <5>. QED
          BY <4>2, <4>3, <4>4, FoldUnique
      <4>6. V(W) = op[<<First(W), Some(W)[X]>>]
        <5>. HIDE DEF Some
        <5>. QED
          BY <3>1, <3>3 DEF Folds
      <4>7. h[W] = op[<<First(W), V(X)>>]
        BY <3>3
      <4>. QED
        BY <4>5, <4>6, <4>7
    <3>. QED
      BY <3>2, <3>3
  <2>4. Folds(h, op, base, T)
    <3>1. ASSUME NEW U \in SUBSET T, U # {} PROVE h[U] = op[<<First(U), h[U \ {First(U)}]>>]
      <4>1. h[U] = op[<<First(U), V(U \ {First(U)})>>]
        BY <3>1
      <4>2. h[U \ {First(U)}] = V(U \ {First(U)})
        <5>. HIDE DEF h, V, G
        <5>. QED
          BY <2>1, <2>3, <3>1
      <4>. QED
        BY <4>1, <4>2
    <3>2. h[{}] = base
      OBVIOUS
    <3>. HIDE DEF h
    <3>. QED
      BY <3>1, <3>2 DEF Folds
  <2>. HIDE DEF h
  <2>. QED
    BY <2>2, <2>4
<1>. HIDE DEF G
<1>2. \A T \in SUBSET D : T \in G
  BY <1>1, SubsetInduction
<1>. QED
  BY <1>2 DEF G

\* What the steps of a fold keep: G has the sets with what the fold over them may be.
LEMMA FoldKeeps ==
    ASSUME NEW D, IsFiniteSet(D), NEW op, NEW base, NEW f, Folds(f, op, base, D),
           NEW G, <<{}, base>> \in G,
           \A t : \A T \in SUBSET D, x \in D :
              x \in T /\ <<T \ {x}, t>> \in G => <<T, op[<<x, t>>]>> \in G
    PROVE  <<D, f[D]>> \in G
<1>. DEFINE H == {T \in SUBSET D : <<T, f[T]>> \in G}
<1>1. ASSUME NEW T \in SUBSET D, \A U \in SUBSET T : U # T => U \in H PROVE T \in H
  <2>1. CASE T = {}
    BY <2>1 DEF Folds
  <2>2. CASE T # {}
    <3>1. First(T) \in T /\ T \ {First(T)} \in H
      BY <1>1, <2>2, FirstIn
    <3>2. f[T] = op[<<First(T), f[T \ {First(T)}]>>]
      BY <2>2 DEF Folds
    <3>. QED
      BY <3>1, <3>2
  <2>. QED
    BY <2>1, <2>2
<1>. HIDE DEF H
<1>2. \A T \in SUBSET D : T \in H
  BY <1>1, SubsetInduction
<1>. QED
  BY <1>2 DEF H

\* What the code does to one summon after another is a fold of the kind.
\* One step of it, and all of it.
RemovedStep(D) == [p \in D \X States |-> RemovedAlone(p[2], p[1])]
RemovedOnes(s, D) == FoldSet(LAMBDA m, t : RemovedAlone(t, m), s, D)

LEMMA RemovedFolds ==
    ASSUME NEW s \in States, NEW D \in SUBSET Creature
    PROVE  \E f \in [SUBSET D -> States] :
              /\ Folds(f, RemovedStep(D), s, D)
              /\ f[D] = RemovedOnes(s, D)
<1>. DEFINE op == RemovedStep(D)
            Eq(f, P) == f = [T \in P |->
                               IF T = {} THEN s
                               ELSE RemovedAlone(f[T \ {CHOOSE x \in T : TRUE}],
                                                 CHOOSE x \in T : TRUE)]
            g == CHOOSE f : Eq(f, SUBSET D)
<1>1. IsFiniteSet(D)
  BY CreaturesAssumption, FS_Subset
<1>2. op \in [D \X States -> States]
  BY RemovedTypes DEF RemovedStep
<1>3. PICK f \in [SUBSET D -> States] : Folds(f, op, s, D)
  <2>. HIDE DEF op
  <2>. QED
    BY <1>1, <1>2, FoldExists
<1>4. ASSUME NEW U \in SUBSET D, U # {}
      PROVE  First(U) \in D /\ U \ {First(U)} \in SUBSET D
  BY <1>4, FirstIn
<1>5. Eq(f, SUBSET D)
  <2>1. ASSUME NEW U \in SUBSET D, U # {}
        PROVE  f[U] = RemovedAlone(f[U \ {First(U)}], First(U))
    <3>1. f[U \ {First(U)}] \in States /\ First(U) \in D
      BY <1>3, <1>4, <2>1
    <3>2. f[U] = op[<<First(U), f[U \ {First(U)}]>>]
      BY <1>3, <2>1 DEF Folds
    <3>. QED
      BY <3>1, <3>2 DEF RemovedStep
  <2>2. f[{}] = s
    BY <1>3 DEF Folds
  <2>. HIDE DEF op
  <2>. QED
    BY <1>3, <2>1, <2>2 DEF First
<1>6. Eq(g, SUBSET D)
  BY <1>5
<1>7. RemovedOnes(s, D) = g[D]
  BY DEF RemovedOnes, FoldSet, MapThenFoldSet
<1>. HIDE DEF g
<1>8. g[D] = f[D]
  <2>1. f[{}] = g[{}]
    BY <1>5, <1>6
  <2>2. ASSUME NEW U \in SUBSET D, U # {}, f[U \ {First(U)}] = g[U \ {First(U)}]
        PROVE  f[U] = g[U]
    <3>1. f[U] = RemovedAlone(f[U \ {First(U)}], First(U))
      BY <1>5, <2>2 DEF First
    <3>2. g[U] = RemovedAlone(g[U \ {First(U)}], First(U))
      BY <1>6, <2>2 DEF First
    <3>. QED
      BY <2>2, <3>1, <3>2
  <2>. QED
    BY <1>1, <2>1, <2>2, FoldsAgree
<1>. QED
  BY <1>3, <1>7, <1>8

-----------------------------------------------------------------------------
(* Who dies.                                                               *)

LEMMA DiedTypes ==
    ASSUME NEW s \in States, NEW m \in Monster, NEW t, t = DiedAlone(s, m)
    PROVE  /\ t \in States /\ t.current = s.current
           /\ Cleared(s.master, t.master, m)
           /\ \A X, E : Sound(s, X, E) =>
                 /\ Sound(t, X, E \cup Summons(s, m))
                 /\ Missed(s) => Missed(t)
<1>. DEFINE a == SetAttacked(s, m, None)
            g == [a.targets EXCEPT ![m] = {}]
            h == [a.master EXCEPT ![m] = None]
            b == [a EXCEPT !.targets = g, !.master = h]
<1>1. m \in Creature /\ None \in Prey /\ None \notin Creature
  BY CreaturesAssumption DEF Prey
<1>2. /\ a \in States /\ Spawns(s, a) /\ a.place = s.place /\ a.master = s.master
      /\ \A X, E : Sound(s, X, E) => Sound(a, X, E)
  BY <1>1, AttackKeeps
<1>3. t = RemovedAlone(b, m)
  BY <1>2 DEF DiedAlone, States
<1>. HIDE DEF a
<1>4. /\ g \in [Monster -> SUBSET Creature]
      /\ \A n \in Monster : g[n] = IF n = m THEN {} ELSE a.targets[n]
  BY <1>2 DEF States
<1>5. h \in [Creature -> Prey] /\ Cleared(a.master, h, m)
  BY <1>1, <1>2 DEF States, Cleared
<1>. HIDE DEF g, h
<1>6. /\ b \in States /\ SameMinds(a, b) /\ Spawns(a, b)
      /\ b.place = a.place /\ b.attacked = a.attacked /\ b.follow = a.follow
      /\ b.targets = g /\ b.master = h
  BY <1>2, <1>4, <1>5 DEF States, SameMinds, Spawns
<1>. HIDE DEF b
<1>7. /\ t \in States /\ t.current = b.current
      /\ \A d \in Creature : t.master[d] = IF d = m THEN None ELSE b.master[d]
  BY <1>1, <1>3, <1>6, RemovedTypes
<1>8. ASSUME NEW X, NEW E, Sound(s, X, E)
      PROVE  Sound(t, X, E \cup Summons(s, m)) /\ (Missed(s) => Missed(t))
  <2>1. Sound(a, X, E) /\ (Missed(s) => Missed(a))
    BY <1>2, <1>8 DEF Missed, Spawns
  <2>2. Minds(b)
    <3>1. \A n \in Monster : b.targets[n] \subseteq a.targets[n]
      BY <1>4, <1>6
    <3>. QED
      BY <1>2, <1>6, <2>1, <3>1, MindsSame DEF Sound
  <2>3. Hunting(b, X \cup {m})
    <3>1. ASSUME NEW n \in Monster \ (X \cup {m}), NEW p \in Player, CanSee(b, n, p), ~PlayersSummon(b, n)
          PROVE  p \in b.targets[n]
      <4>1. CanSee(a, n, p) /\ ~PlayersSummon(a, n)
        BY <1>5, <1>6, <3>1, CreaturesAssumption DEF CanSee, PlayersSummon, Cleared
      <4>. QED
        BY <1>4, <1>6, <2>1, <3>1, <4>1 DEF Sound, Hunting
    <3>. QED
      BY <3>1 DEF Hunting
  <2>4. Preying(b)
    BY <1>6, <2>1 DEF Sound, Preying, CanSee
  <2>5. Mastered(b, E)
    <3>1. ASSUME NEW d \in Creature, b.master[d] # None
          PROVE  /\ d \in Monster /\ b.place[d] # None /\ b.master[b.master[d]] = None
                 /\ d \notin E => b.place[b.master[d]] # None
      <4>1. d # m /\ b.master[d] = a.master[d] /\ a.master[d] \in Creature
        BY <1>2, <1>5, <1>6, <3>1 DEF Cleared, States, Prey
      <4>2. /\ d \in Monster /\ a.place[d] # None /\ a.master[a.master[d]] = None
            /\ d \notin E => a.place[a.master[d]] # None
        BY <2>1, <3>1, <4>1 DEF Sound, Mastered
      <4>. QED
        BY <1>5, <1>6, <4>1, <4>2 DEF Cleared
    <3>. QED
      BY <3>1 DEF Mastered
  <2>6. Sound(b, X \cup {m}, E) /\ (Missed(a) => Missed(b))
    BY <1>6, <2>2, <2>3, <2>4, <2>5 DEF Sound, Missed, Spawns
  <2>7. Sound(t, X, E \cup Summons(b, m)) /\ (Missed(b) => Missed(t))
    BY <1>1, <1>3, <1>6, <2>6, RemovedKeeps
  <2>8. Summons(b, m) \subseteq Summons(s, m)
    <3>1. \A d \in Monster : b.master[d] = m => s.master[d] = m
      BY <1>1, <1>2, <1>5, <1>6, CreaturesAssumption DEF Cleared
    <3>. QED
      BY <3>1 DEF Summons
  <2>9. Sound(t, X, E \cup Summons(s, m))
    BY <2>7, <2>8, SoundMore
  <2>. QED
    BY <2>1, <2>6, <2>7, <2>9
<1>9. t.current = s.current /\ Cleared(s.master, t.master, m)
  BY <1>2, <1>5, <1>6, <1>7 DEF Spawns, Cleared
<1>. QED
  BY <1>7, <1>8, <1>9

\* The same of those who die one after another.
\* One step of it, and all of it.
DiedStep(D) == [p \in D \X States |-> DiedAlone(p[2], p[1])]
DiedOnes(s, D) == FoldSet(LAMBDA m, t : DiedAlone(t, m), s, D)

LEMMA DiedFolds ==
    ASSUME NEW s \in States, NEW D \in SUBSET Monster
    PROVE  \E f \in [SUBSET D -> States] :
              /\ Folds(f, DiedStep(D), s, D)
              /\ f[D] = DiedOnes(s, D)
<1>. DEFINE op == DiedStep(D)
            Eq(f, P) == f = [T \in P |->
                               IF T = {} THEN s
                               ELSE DiedAlone(f[T \ {CHOOSE x \in T : TRUE}],
                                                 CHOOSE x \in T : TRUE)]
            g == CHOOSE f : Eq(f, SUBSET D)
<1>1. IsFiniteSet(D)
  BY CreaturesAssumption, FS_Subset
<1>2. op \in [D \X States -> States]
  BY DiedTypes DEF DiedStep
<1>3. PICK f \in [SUBSET D -> States] : Folds(f, op, s, D)
  <2>. HIDE DEF op
  <2>. QED
    BY <1>1, <1>2, FoldExists
<1>4. ASSUME NEW U \in SUBSET D, U # {}
      PROVE  First(U) \in D /\ U \ {First(U)} \in SUBSET D
  BY <1>4, FirstIn
<1>5. Eq(f, SUBSET D)
  <2>1. ASSUME NEW U \in SUBSET D, U # {}
        PROVE  f[U] = DiedAlone(f[U \ {First(U)}], First(U))
    <3>1. f[U \ {First(U)}] \in States /\ First(U) \in D
      BY <1>3, <1>4, <2>1
    <3>2. f[U] = op[<<First(U), f[U \ {First(U)}]>>]
      BY <1>3, <2>1 DEF Folds
    <3>. QED
      BY <3>1, <3>2 DEF DiedStep
  <2>2. f[{}] = s
    BY <1>3 DEF Folds
  <2>. HIDE DEF op
  <2>. QED
    BY <1>3, <2>1, <2>2 DEF First
<1>6. Eq(g, SUBSET D)
  BY <1>5
<1>7. DiedOnes(s, D) = g[D]
  BY DEF DiedOnes, FoldSet, MapThenFoldSet
<1>. HIDE DEF g
<1>8. g[D] = f[D]
  <2>1. f[{}] = g[{}]
    BY <1>5, <1>6
  <2>2. ASSUME NEW U \in SUBSET D, U # {}, f[U \ {First(U)}] = g[U \ {First(U)}]
        PROVE  f[U] = g[U]
    <3>1. f[U] = DiedAlone(f[U \ {First(U)}], First(U))
      BY <1>5, <2>2 DEF First
    <3>2. g[U] = DiedAlone(g[U \ {First(U)}], First(U))
      BY <1>6, <2>2 DEF First
    <3>. QED
      BY <2>2, <3>1, <3>2
  <2>. QED
    BY <1>1, <2>1, <2>2, FoldsAgree
<1>. QED
  BY <1>3, <1>7, <1>8

-----------------------------------------------------------------------------
(* A creature and its summons.                                             *)

\* From s to t those in T have lost their master, and nobody else.
Cut(s, t, T) ==
    \A d \in Creature : t.master[d] = IF d \in T THEN None ELSE s.master[d]

LEMMA RemovedFoldKeepsThis ==
    ASSUME NEW s \in States, NEW D \in SUBSET Monster, \A m \in D : s.master[m] # None,
           NEW X, NEW E, Sound(s, X, E), NEW f,
           Folds(f, RemovedStep(D), s, D)
    PROVE  /\ f[D] \in States /\ f[D].current = s.current
           /\ Sound(f[D], X, E) /\ (Missed(s) => Missed(f[D]))
           /\ Cut(s, f[D], D)
<1>. DEFINE op == RemovedStep(D)
            Kept(T, u) == /\ u \in States /\ u.current = s.current
                          /\ Sound(u, X, E) /\ (Missed(s) => Missed(u))
                          /\ Cut(s, u, T)
            G == {p \in (SUBSET D) \X States : Kept(p[1], p[2])}
<1>1. D \in SUBSET Creature
  BY CreaturesAssumption
<1>2. IsFiniteSet(D)
  BY <1>1, CreaturesAssumption, FS_Subset
<1>3. Folds(f, op, s, D) /\ <<{}, s>> \in G
  BY DEF Cut
<1>4. ASSUME NEW T \in SUBSET D, NEW x \in T, NEW u, u \in States, Kept(T \ {x}, u)
      PROVE  op[<<x, u>>] \in States /\ Kept(T, op[<<x, u>>])
  <2>. DEFINE w == RemovedAlone(u, x)
  <2>1. op[<<x, u>>] = w
    BY <1>4 DEF RemovedStep
  <2>2. x \in Monster /\ x \in Creature
    BY <1>1
  <2>3. Summons(u, x) = {}
    <3>1. u.master[x] # None
      BY <1>4, <2>2 DEF Cut
    <3>2. \A d \in Monster : u.master[d] # x
      BY <1>4, <2>2, <3>1, CreaturesAssumption DEF Sound, Mastered
    <3>. QED
      BY <3>2 DEF Summons
  <2>4. /\ w \in States /\ w.current = u.current
        /\ Cleared(u.master, w.master, x)
    <3>1. u \in States
      BY <1>4
    <3>. HIDE DEF Kept
    <3>. QED
      BY <2>2, <3>1, RemovedTypes DEF Cleared
  <2>5. Sound(w, X, E) /\ (Missed(u) => Missed(w))
    <3>1. Sound(u, X \cup {x}, E)
      BY <1>4, SoundMore
    <3>. QED
      <4>1. Sound(w, X, E \cup Summons(u, x)) /\ (Missed(u) => Missed(w))
        BY <1>4, <2>2, <3>1, RemovedKeeps
      <4>2. E \cup Summons(u, x) = E
        BY <2>3
      <4>. QED
        BY <4>1, <4>2
  <2>. HIDE DEF w
  <2>6. Cut(s, w, T)
    BY <1>4, <2>2, <2>4 DEF Cut, Cleared
  <2>. QED
    BY <1>4, <2>1, <2>4, <2>5, <2>6
<1>5. ASSUME NEW T \in SUBSET D, NEW x \in D, NEW u, x \in T, <<T \ {x}, u>> \in G
      PROVE  <<T, op[<<x, u>>]>> \in G
  <2>1. u \in States /\ Kept(T \ {x}, u)
    BY <1>5
  <2>2. op[<<x, u>>] \in States /\ Kept(T, op[<<x, u>>])
    <3>. HIDE DEF op, Kept
    <3>. QED
      BY <1>4, <1>5, <2>1
  <2>. HIDE DEF op, Kept
  <2>. QED
    BY <2>2
<1>6. <<D, f[D]>> \in G
  <2>. HIDE DEF op, G
  <2>. QED
    BY <1>1, <1>2, <1>3, <1>5, FoldKeeps
<1>. HIDE DEF op
<1>. QED
  BY <1>6

LEMMA RemovedFoldKeeps ==
    ASSUME NEW s \in States, NEW D \in SUBSET Monster, \A m \in D : s.master[m] # None,
           NEW X, NEW E, Sound(s, X, E),
           NEW t, t = RemovedOnes(s, D)
    PROVE  /\ t \in States /\ t.current = s.current
           /\ Sound(t, X, E) /\ (Missed(s) => Missed(t))
           /\ Cut(s, t, D)
<1>1. D \in SUBSET Creature
  BY CreaturesAssumption
<1>2. PICK f : Folds(f, RemovedStep(D), s, D) /\ f[D] = t
  BY <1>1, RemovedFolds
<1>. QED
  BY <1>2, RemovedFoldKeepsThis

LEMMA DiedFoldKeepsThis ==
    ASSUME NEW s \in States, NEW D \in SUBSET Monster, \A m \in D : s.master[m] # None,
           NEW X, NEW E, Sound(s, X, E), NEW f,
           Folds(f, DiedStep(D), s, D)
    PROVE  /\ f[D] \in States /\ f[D].current = s.current
           /\ Sound(f[D], X, E) /\ (Missed(s) => Missed(f[D]))
           /\ Cut(s, f[D], D)
<1>. DEFINE op == DiedStep(D)
            Kept(T, u) == /\ u \in States /\ u.current = s.current
                          /\ Sound(u, X, E) /\ (Missed(s) => Missed(u))
                          /\ Cut(s, u, T)
            G == {p \in (SUBSET D) \X States : Kept(p[1], p[2])}
<1>1. D \in SUBSET Creature
  BY CreaturesAssumption
<1>2. IsFiniteSet(D)
  BY <1>1, CreaturesAssumption, FS_Subset
<1>3. Folds(f, op, s, D) /\ <<{}, s>> \in G
  BY DEF Cut
<1>4. ASSUME NEW T \in SUBSET D, NEW x \in T, NEW u, u \in States, Kept(T \ {x}, u)
      PROVE  op[<<x, u>>] \in States /\ Kept(T, op[<<x, u>>])
  <2>. DEFINE w == DiedAlone(u, x)
  <2>1. op[<<x, u>>] = w
    BY <1>4 DEF DiedStep
  <2>2. x \in Monster /\ x \in Creature
    BY <1>1
  <2>3. Summons(u, x) = {}
    <3>1. u.master[x] # None
      BY <1>4, <2>2 DEF Cut
    <3>2. \A d \in Monster : u.master[d] # x
      BY <1>4, <2>2, <3>1, CreaturesAssumption DEF Sound, Mastered
    <3>. QED
      BY <3>2 DEF Summons
  <2>4. /\ w \in States /\ w.current = u.current
        /\ Cleared(u.master, w.master, x)
    <3>1. u \in States
      BY <1>4
    <3>. HIDE DEF Kept
    <3>. QED
      BY <2>2, <3>1, DiedTypes DEF Cleared
  <2>5. Sound(w, X, E) /\ (Missed(u) => Missed(w))
    <3>1. Sound(w, X, E \cup Summons(u, x)) /\ (Missed(u) => Missed(w))
      BY <1>4, <2>2, DiedTypes
    <3>2. E \cup Summons(u, x) = E
      BY <2>3
    <3>. QED
      BY <3>1, <3>2
  <2>. HIDE DEF w
  <2>6. Cut(s, w, T)
    BY <1>4, <2>2, <2>4 DEF Cut, Cleared
  <2>. QED
    BY <1>4, <2>1, <2>4, <2>5, <2>6
<1>5. ASSUME NEW T \in SUBSET D, NEW x \in D, NEW u, x \in T, <<T \ {x}, u>> \in G
      PROVE  <<T, op[<<x, u>>]>> \in G
  <2>1. u \in States /\ Kept(T \ {x}, u)
    BY <1>5
  <2>2. op[<<x, u>>] \in States /\ Kept(T, op[<<x, u>>])
    <3>. HIDE DEF op, Kept
    <3>. QED
      BY <1>4, <1>5, <2>1
  <2>. HIDE DEF op, Kept
  <2>. QED
    BY <2>2
<1>6. <<D, f[D]>> \in G
  <2>. HIDE DEF op, G
  <2>. QED
    BY <1>1, <1>2, <1>3, <1>5, FoldKeeps
<1>. HIDE DEF op
<1>. QED
  BY <1>6

LEMMA DiedFoldKeeps ==
    ASSUME NEW s \in States, NEW D \in SUBSET Monster, \A m \in D : s.master[m] # None,
           NEW X, NEW E, Sound(s, X, E),
           NEW t, t = DiedOnes(s, D)
    PROVE  /\ t \in States /\ t.current = s.current
           /\ Sound(t, X, E) /\ (Missed(s) => Missed(t))
           /\ Cut(s, t, D)
<1>1. D \in SUBSET Creature
  BY CreaturesAssumption
<1>2. PICK f : Folds(f, DiedStep(D), s, D) /\ f[D] = t
  BY <1>1, DiedFolds
<1>. QED
  BY <1>2, DiedFoldKeepsThis

\* Without its summons a creature would leave masters behind that are gone.
LEMMA RemovedAllKeeps ==
    ASSUME NEW s \in States, NEW c \in Creature, NEW X, Sound(s, X, {}),
           NEW t, t = Removed(s, c)
    PROVE  t \in States /\ t.current = s.current /\ Sound(t, X, {}) /\ (Missed(s) => Missed(t))
<1>. DEFINE D == Summons(s, c)
            u == RemovedAlone(s, c)
<1>1. D \in SUBSET Monster /\ \A m \in D : m \in Creature /\ s.master[m] = c /\ m # c
  <2>1. ASSUME NEW m \in D PROVE m \in Creature /\ s.master[m] = c /\ m # c
    <3>1. m \in Creature /\ m \in Monster /\ s.master[m] = c /\ c # None
      BY CreaturesAssumption DEF Summons
    <3>2. s.master[c] = None
      BY <3>1 DEF Sound, Mastered
    <3>. QED
      BY <3>1, <3>2
  <2>. QED
    BY <2>1 DEF Summons
<1>2. /\ u \in States /\ u.current = s.current
      /\ \A d \in Creature : u.master[d] = IF d = c THEN None ELSE s.master[d]
  BY RemovedTypes
<1>3. Sound(u, X, {} \cup D) /\ (Missed(s) => Missed(u))
  <2>1. Sound(s, X \cup {c}, {})
    BY SoundMore
  <2>. QED
    BY <2>1, RemovedKeeps
<1>4. t = RemovedOnes(u, D)
  BY DEF Removed, RemovedOnes
<1>5. \A m \in D : u.master[m] # None
  BY <1>1, <1>2, CreaturesAssumption
<1>. HIDE DEF D, u
<1>6. /\ t \in States /\ t.current = u.current
      /\ Sound(t, X, {} \cup D) /\ (Missed(u) => Missed(t))
      /\ Cut(u, t, D)
  BY <1>1, <1>2, <1>3, <1>4, <1>5, RemovedFoldKeeps
<1>7. Sound(t, X, {})
  BY <1>6 DEF Sound, Mastered, Cut
<1>. QED
  BY <1>2, <1>3, <1>6, <1>7

LEMMA DiedAllKeeps ==
    ASSUME NEW s \in States, NEW c \in Creature, NEW X, Sound(s, X, {}),
           NEW t, t = Died(s, c)
    PROVE  t \in States /\ t.current = s.current /\ Sound(t, X, {}) /\ (Missed(s) => Missed(t))
<1>1. CASE c \in Player
  BY <1>1, RemovedAllKeeps DEF Died
<1>2. CASE c \notin Player
  <2>. DEFINE D == Summons(s, c)
              a == SetAttacked(s, c, None)
              u == DiedOnes(a, D)
  <2>1. c \in Monster /\ None \in Prey /\ None \notin Creature
    BY <1>2, CreaturesAssumption DEF Prey
  <2>2. t = DiedAlone(u, c)
    BY <1>2 DEF Died, DiedOnes
  <2>3. /\ a \in States /\ Spawns(s, a) /\ a.place = s.place /\ a.master = s.master
        /\ Sound(a, X, {}) /\ (Missed(s) => Missed(a))
    BY <2>1, AttackKeeps DEF Missed, Spawns
  <2>4. D \in SUBSET Monster /\ \A m \in Monster : m \in D <=> s.master[m] = c
    BY DEF Summons
  <2>. HIDE DEF a, D
  <2>5. \A m \in D : a.master[m] # None
    BY <2>1, <2>3, <2>4
  <2>6. /\ u \in States /\ u.current = a.current
        /\ Sound(u, X, {}) /\ (Missed(a) => Missed(u))
        /\ Cut(a, u, D)
    BY <2>3, <2>4, <2>5, DiedFoldKeeps
  <2>. HIDE DEF u
  <2>7. Summons(u, c) = {}
    <3>1. \A m \in Monster : u.master[m] # c
      BY <2>1, <2>3, <2>4, <2>6, CreaturesAssumption DEF Cut
    <3>. QED
      BY <3>1 DEF Summons
  <2>8. /\ t \in States /\ t.current = u.current
        /\ Sound(t, X, {} \cup Summons(u, c)) /\ (Missed(u) => Missed(t))
    BY <2>1, <2>2, <2>6, DiedTypes
  <2>9. Sound(t, X, {})
    BY <2>7, <2>8
  <2>. QED
    BY <2>3, <2>6, <2>8, <2>9 DEF Spawns
<1>. QED
  BY <1>1, <1>2

\* A summon is made where its master is; until then it has none.
LEMMA SummonedKeeps ==
    ASSUME NEW s \in States, NEW c \in InGame(s), ~IsSummon(s, c), NEW m \in Fresh(s),
           NEW X, Sound(s, X, {}), NEW t, t = Summoned(s, c, m)
    PROVE  t \in States /\ Spawns(s, t) /\ Sound(t, X, {}) /\ (Missed(s) => Missed(t))
<1>. DEFINE l == s.place[c]
            u == Placed(s, m, l)
            h == [u.master EXCEPT ![m] = c]
<1>1. /\ c \in Creature /\ l \in Place /\ l # None /\ None \notin Creature
      /\ m \in Monster /\ m \in Creature /\ s.place[m] = None /\ m # c
      /\ s.master[c] = None
  BY CreaturesAssumption DEF InGame, Fresh, States, IsSummon
<1>2. s.master[m] = None /\ \A d \in Creature : s.master[d] # m
  BY <1>1 DEF Sound, Mastered
<1>3. /\ u \in States /\ Spawns(s, u) /\ u.master = s.master
      /\ \A d \in Creature : u.place[d] = IF d = m THEN l ELSE s.place[d]
  BY <1>1, PlacedTypes
<1>4. Sound(u, X, {})
  BY <1>1, PlacedKeeps
<1>5. t = [u EXCEPT !.master = h]
  BY <1>3 DEF Summoned, States
<1>. HIDE DEF l, u
<1>6. h \in [Creature -> Prey] /\ \A d \in Creature : h[d] = IF d = m THEN c ELSE s.master[d]
  BY <1>1, <1>3 DEF States, Prey
<1>. HIDE DEF h
<1>7. /\ t \in States /\ Spawns(u, t) /\ SameMinds(u, t)
      /\ t.place = u.place /\ t.attacked = u.attacked /\ t.follow = u.follow
      /\ t.targets = u.targets /\ t.master = h
  BY <1>3, <1>5, <1>6 DEF States, Spawns, SameMinds
<1>8. Minds(t)
  BY <1>3, <1>4, <1>7, MindsSame DEF Sound
<1>9. Hunting(t, X)
  <2>1. ASSUME NEW n \in Monster \ X, NEW p \in Player, CanSee(t, n, p), ~PlayersSummon(t, n)
        PROVE  p \in t.targets[n]
    <3>1. CanSee(u, n, p) /\ ~PlayersSummon(u, n)
      BY <1>2, <1>3, <1>6, <1>7, <2>1, CreaturesAssumption DEF CanSee, PlayersSummon
    <3>. QED
      BY <1>4, <1>7, <2>1, <3>1 DEF Sound, Hunting
  <2>. QED
    BY <2>1 DEF Hunting
<1>10. Preying(t)
  BY <1>4, <1>7 DEF Sound, Preying, CanSee
<1>11. Mastered(t, {})
  <2>1. ASSUME NEW d \in Creature, t.master[d] # None
        PROVE  /\ d \in Monster /\ t.place[d] # None /\ t.master[t.master[d]] = None
               /\ t.place[t.master[d]] # None
    <3>1. CASE d = m
      BY <1>1, <1>3, <1>6, <1>7, <3>1 DEF l
    <3>2. CASE d # m
      <4>1. t.master[d] = s.master[d] /\ s.master[d] \in Creature /\ s.master[d] # m
        BY <1>1, <1>2, <1>6, <1>7, <2>1, <3>2 DEF States, Prey
      <4>2. d \in Monster /\ s.place[d] # None /\ s.master[s.master[d]] = None
            /\ s.place[s.master[d]] # None
        BY <2>1, <4>1 DEF Sound, Mastered
      <4>. QED
        BY <1>1, <1>3, <1>6, <1>7, <3>2, <4>1, <4>2
    <3>. QED
      BY <3>1, <3>2
  <2>. QED
    BY <2>1 DEF Mastered
<1>12. Spawns(s, t)
  BY <1>3, <1>7 DEF Spawns
<1>13. Missed(s) => Missed(t)
  BY <1>1, <1>3, <1>7, <1>12, CreaturesAssumption DEF Missed, Spawns, States
<1>. QED
  BY <1>4, <1>7, <1>8, <1>9, <1>10, <1>11, <1>12, <1>13 DEF Sound

-----------------------------------------------------------------------------
(* The steps of the world.                                                 *)

\* t is a sound state the world may go to from s.
Leads(s, t) ==
    /\ t \in States /\ t.current = s.current
    /\ Sound(t, Exempt, {})
    /\ Missed(s) => Missed(t)

LEMMA SoundSame ==
    ASSUME NEW s \in States, NEW t \in States, NEW X, NEW E, Sound(s, X, E), SameMinds(s, t),
           t.place = s.place, t.master = s.master, t.attacked = s.attacked,
           t.follow = s.follow, t.targets = s.targets
    PROVE  Sound(t, X, E)
<1>1. Minds(t)
  BY MindsSame DEF Sound
<1>. QED
  BY <1>1, QuietKeeps

\* No monster is missed that was not.
LEMMA MissedSame ==
    ASSUME NEW s \in States, NEW t \in States, Spawns(s, t), Missed(s),
           \A m \in Monster : s.place[m] # None => t.place[m] # None
    PROVE  Missed(t)
<1>1. ASSUME NEW b \in Block, t.spawned[b] = None \/ t.place[t.spawned[b]] = None
      PROVE  t.checkSpawnEvent
  <2>1. s.spawned[b] = None \/ (s.spawned[b] \in Monster /\ s.place[s.spawned[b]] = None)
    BY <1>1 DEF Spawns, States
  <2>. QED
    BY <2>1 DEF Missed, Spawns
<1>. QED
  BY <1>1 DEF Missed

LEMMA LoginLeads ==
    ASSUME NEW s \in States, Sound(s, Exempt, {}), NEW c \in Creature, NEW l \in Place,
           s.place[c] = None
    PROVE  Leads(s, Placed(s, c, l))
<1>. DEFINE t == Placed(s, c, l)
<1>1. /\ t \in States /\ Spawns(s, t)
      /\ \A d \in Creature : t.place[d] = IF d = c THEN l ELSE s.place[d]
  BY PlacedTypes
<1>2. Sound(t, Exempt, {})
  BY PlacedKeeps
<1>. HIDE DEF t
<1>3. \A m \in Monster : s.place[m] # None => t.place[m] # None
  BY <1>1, CreaturesAssumption
<1>4. Missed(s) => Missed(t)
  BY <1>1, <1>3, MissedSame
<1>. QED
  BY <1>1, <1>2, <1>4 DEF Leads, Spawns, t

LEMMA MovedLeads ==
    ASSUME NEW s \in States, Sound(s, Exempt, {}), NEW c \in InGame(s), NEW l \in Place
    PROVE  Leads(s, Moved(s, c, l)) /\ Moved(s, c, l).master = s.master
<1>. DEFINE t == Moved(s, c, l)
<1>1. c \in Creature /\ s.place[c] # None
  BY DEF InGame
<1>2. /\ t \in States /\ Spawns(s, t) /\ t.master = s.master
      /\ \A d \in Creature : t.place[d] = IF d = c THEN l ELSE s.place[d]
  BY <1>1, MovedTypes
<1>3. Sound(t, Exempt, {})
  BY <1>1, MovedKeeps
<1>. HIDE DEF t
<1>4. \A m \in Monster : s.place[m] # None => t.place[m] # None
  BY <1>2, CreaturesAssumption
<1>5. Missed(s) => Missed(t)
  BY <1>2, <1>4, MissedSame
<1>. QED
  BY <1>2, <1>3, <1>5 DEF Leads, Spawns, t

\* What leaves everybody where it is, as a step.
LEMMA QuietLeads ==
    ASSUME NEW s \in States, NEW t \in States, Spawns(s, t), t.place = s.place,
           Sound(t, Exempt, {})
    PROVE  Leads(s, t)
BY MissedSame DEF Leads, Spawns

LEMMA LeadsOn ==
    ASSUME NEW s, NEW t, NEW u, Leads(s, t), Leads(t, u)
    PROVE  Leads(s, u)
BY DEF Leads

LEMMA AttackLeads ==
    ASSUME NEW s \in States, Sound(s, Exempt, {}), NEW c \in Creature, NEW x \in Prey
    PROVE  Leads(s, SetAttacked(s, c, x))
BY AttackKeeps, QuietLeads

LEMMA FollowLeads ==
    ASSUME NEW s \in States, Sound(s, Exempt, {}), NEW c \in Creature, NEW x \in Prey
    PROVE  Leads(s, SetFollow(s, c, x))
BY FollowKeeps, QuietLeads

LEMMA PlayerAttacksLeads ==
    ASSUME NEW s \in States, Sound(s, Exempt, {}), NEW p \in Creature, NEW x \in Prey,
           NEW chaseMode \in BOOLEAN
    PROVE  Leads(s, PlayerAttacks(s, p, x, chaseMode))
<1>. DEFINE a == SetAttacked(s, p, x)
            y == IF chaseMode THEN x ELSE None
<1>1. Leads(s, a)
  BY AttackLeads
<1>2. y \in Prey
  BY DEF Prey
<1>. HIDE DEF a, y
<1>3. Leads(a, SetFollow(a, p, y))
  BY <1>1, <1>2, FollowLeads DEF Leads
<1>4. Leads(s, SetFollow(a, p, y))
  BY <1>1, <1>3, LeadsOn
<1>. QED
  BY <1>1, <1>4 DEF PlayerAttacks, a, y

LEMMA SelectLeads ==
    ASSUME NEW s \in States, Sound(s, Exempt, {}), NEW m \in Creature, NEW x \in Prey
    PROVE  Leads(s, SelectTarget(s, m, x))
<1>. DEFINE a == SetAttacked(s, m, x)
<1>1. Leads(s, a)
  BY AttackLeads
<1>. HIDE DEF a
<1>2. Leads(a, SetFollow(a, m, x))
  BY <1>1, FollowLeads DEF Leads
<1>3. Leads(s, SetFollow(a, m, x))
  BY <1>1, <1>2, LeadsOn
<1>. QED
  BY <1>3 DEF SelectTarget, a

\* Summons that stay behind are removed.
LEMMA LeftBehindLeads ==
    ASSUME NEW s \in States, Sound(s, Exempt, {}), NEW D \in SUBSET Monster,
           \A m \in D : s.master[m] # None
    PROVE  Leads(s, RemovedOnes(s, D))
BY RemovedFoldKeeps DEF Leads

-----------------------------------------------------------------------------
(* Monster::onThink.                                                       *)

LEMMA HuntsLeads ==
    ASSUME NEW s \in States, Sound(s, Exempt, {}), NEW m \in Monster, NEW t \in Hunts(s, m)
    PROVE  Leads(s, t) /\ t.place = s.place
<1>1. m \in Creature
  BY CreaturesAssumption
<1>2. CASE t = s
  BY <1>2 DEF Leads
<1>3. CASE t # s
  <2>1. PICK x \in s.targets[m] : t = SelectTarget(s, m, x)
    BY <1>3 DEF Hunts
  <2>2. x \in Prey
    BY <2>1 DEF Prey, States
  <2>3. Leads(s, t)
    BY <1>1, <2>1, <2>2, SelectLeads
  <2>4. t.place = s.place
    <3>. DEFINE a == SetAttacked(s, m, x)
    <3>1. a \in States /\ a.place = s.place
      BY <1>1, <2>2, AttackKeeps
    <3>. HIDE DEF a
    <3>2. SetFollow(a, m, x).place = a.place
      BY <1>1, <2>2, <3>1, FollowKeeps
    <3>. QED
      BY <2>1, <3>1, <3>2 DEF SelectTarget, a
  <2>. QED
    BY <2>3, <2>4
<1>. QED
  BY <1>2, <1>3

LEMMA ServesLeads ==
    ASSUME NEW s \in States, Sound(s, Exempt, {}), NEW m \in Monster, IsSummon(s, m),
           NEW t \in Serves(s, m)
    PROVE  Leads(s, t)
<1>. DEFINE lord == s.master[m]
            prey == s.attacked[lord]
<1>1. m \in Creature /\ m \in Prey /\ None \in Prey
  BY CreaturesAssumption DEF Prey
<1>2. lord \in Creature /\ lord \in Prey /\ prey \in Prey /\ s.attacked[m] \in Prey
  BY <1>1 DEF States, Prey, IsSummon
<1>3. \/ t = s
      \/ t = SelectTarget(s, m, prey)
      \/ t = SetFollow(s, m, lord)
      \/ t = SetFollow(s, m, None)
      \/ t = SetFollow(s, m, s.attacked[m])
  BY DEF Serves
<1>. HIDE DEF lord, prey
<1>4. CASE t = s
  BY <1>4 DEF Leads
<1>5. CASE t # s
  BY <1>1, <1>2, <1>3, <1>5, SelectLeads, FollowLeads
<1>. QED
  BY <1>4, <1>5

LEMMA SummonsHelpLeads ==
    ASSUME NEW s \in States, Sound(s, Exempt, {}), NEW m \in InGame(s),
           NEW t \in SummonsHelp(s, m)
    PROVE  Leads(s, t)
<1>1. CASE t = s
  BY <1>1 DEF Leads
<1>2. CASE t # s
  <2>1. PICK x \in Fresh(s) : MaySummon(s, m) /\ t = Summoned(s, m, x)
    BY <1>2 DEF SummonsHelp
  <2>2. ~IsSummon(s, m)
    BY <2>1 DEF MaySummon
  <2>. QED
    BY <2>1, <2>2, SummonedKeeps DEF Leads, Spawns
<1>. QED
  BY <1>1, <1>2

LEMMA DespawnedLeads ==
    ASSUME NEW s \in States, Sound(s, Exempt, {}), NEW m \in Monster, m \in InGame(s), Strays(s, m)
    PROVE  Leads(s, Despawned(s, m))
<1>1. m \in Creature
  BY CreaturesAssumption
<1>2. CASE RemoveOnDespawn
  BY <1>1, <1>2, RemovedAllKeeps DEF Despawned, Leads
<1>3. CASE ~RemoveOnDespawn
  <2>. DEFINE l == CHOOSE l \in HomeOf(s, m) : TRUE
              u == Moved(s, m, l)
  <2>1. l \in Place
    BY SpawnAssumption DEF HomeOf, Strays
  <2>2. Leads(s, u)
    BY <2>1, MovedLeads
  <2>. HIDE DEF l, u
  <2>3. u \in States /\ Sound(u, Monster, {})
    BY <1>3, <2>2 DEF Leads, Exempt
  <2>4. /\ Sleep(u, {m}) \in States /\ Spawns(u, Sleep(u, {m}))
        /\ Sleep(u, {m}).place = u.place
        /\ Sound(Sleep(u, {m}), Exempt, {})
    BY <1>3, <2>3, SleepKeeps DEF Exempt
  <2>5. Leads(u, Sleep(u, {m}))
    BY <2>3, <2>4, QuietLeads
  <2>6. Leads(s, Sleep(u, {m}))
    BY <2>2, <2>5, LeadsOn
  <2>. QED
    BY <1>3, <2>6 DEF Despawned, l, u
<1>. QED
  BY <1>2, <1>3

LEMMA ThinksLeads ==
    ASSUME NEW s \in States, Sound(s, Exempt, {}), NEW m \in Monster, m \in InGame(s),
           NEW t \in Thinks(s, m)
    PROVE  Leads(s, t)
<1>. DEFINE u == UpdateIdleStatus(s, {m})
<1>1. /\ u \in States /\ Spawns(s, u) /\ u.place = s.place /\ Sound(u, Exempt, {})
  BY UpdateKeeps
<1>2. Leads(s, u)
  BY <1>1, QuietLeads
<1>3. \/ Strays(s, m) /\ t = Despawned(s, m)
      \/ t = u
      \/ IsSummon(u, m) /\ t \in Serves(u, m)
      \/ \E v \in Hunts(u, m) : t \in SummonsHelp(v, m)
  BY DEF Thinks
<1>. HIDE DEF u
<1>4. CASE Strays(s, m) /\ t = Despawned(s, m)
  BY <1>4, DespawnedLeads
<1>5. CASE t = u
  BY <1>2, <1>5
<1>6. CASE IsSummon(u, m) /\ t \in Serves(u, m)
  BY <1>1, <1>2, <1>6, ServesLeads, LeadsOn
<1>7. ASSUME NEW v \in Hunts(u, m), t \in SummonsHelp(v, m) PROVE Leads(s, t)
  <2>1. Leads(u, v) /\ v.place = u.place
    BY <1>1, HuntsLeads
  <2>2. v \in States /\ Sound(v, Exempt, {}) /\ m \in InGame(v)
    BY <1>1, <2>1 DEF Leads, InGame
  <2>3. Leads(v, t)
    BY <1>7, <2>2, SummonsHelpLeads
  <2>. QED
    BY <1>2, <2>1, <2>3, LeadsOn
<1>. QED
  BY <1>3, <1>4, <1>5, <1>6, <1>7

-----------------------------------------------------------------------------
(* The invariant is inductive.                                             *)

LEMMA InitInv == Init => Inv
<1>. SUFFICES ASSUME Init PROVE Inv
  OBVIOUS
<1>. USE CreaturesAssumption DEF Init, ThinkInit, SpawnInit
<1>1. \A c \in Creature : place[c] = None \/ (c \in Monster /\ place[c] \in Place)
  BY SpawnAssumption
<1>2. \A b \in Block : spawned[b] \in Monster /\ place[spawned[b]] # None
  <2>1. ASSUME NEW b \in Block PROVE place[spawned[b]] # None
    <3>. DEFINE a == CHOOSE x \in Block : spawned[x] = spawned[b]
    <3>1. spawned[b] \in Creature /\ place[spawned[b]] = Home[a]
      OBVIOUS
    <3>2. a \in Block
      OBVIOUS
    <3>. QED
      BY <3>1, <3>2, SpawnAssumption
  <2>. QED
    BY <2>1
<1>3. State \in States
  <2>1. place \in [Creature -> Place \cup {None}]
    BY <1>1
  <2>2. /\ master \in [Creature -> Prey] /\ attacked \in [Creature -> Prey]
        /\ follow \in [Creature -> Prey] /\ targets \in [Monster -> SUBSET Creature]
    BY DEF Prey
  <2>3. /\ spawned \in [Block -> Monster \cup {None}] /\ checkSpawnEvent \in BOOLEAN
        /\ slots \in [Slot -> SUBSET Creature] /\ current \in Slot
    BY SlotTypes
  <2>. QED
    BY <2>1, <2>2, <2>3 DEF State, States, Prey
<1>4. Minds(State)
  BY DEF Minds, Thinking, Listing, IdleEmpty, State
<1>5. Hunting(State, Exempt)
  <2>1. \A p \in Player : place[p] = None
    BY <1>1
  <2>. QED
    BY <2>1 DEF Hunting, CanSee, State
<1>6. Preying(State) /\ Mastered(State, {})
  BY DEF Preying, Mastered, State
<1>7. Missed(State)
  <2>0. None \notin Monster
    OBVIOUS
  <2>1. \A b \in Block : spawned[b] # None /\ place[spawned[b]] # None
    <3>. HIDE CreaturesAssumption DEF Init, ThinkInit, SpawnInit
    <3>. QED
      BY <1>2, <2>0
  <2>2. State.spawned = spawned /\ State.place = place
    BY DEF State
  <2>. HIDE CreaturesAssumption DEF Init, ThinkInit, SpawnInit
  <2>. QED
    BY <2>1, <2>2 DEF Missed
<1>8. cycle \in Slot \cup {NoCycle} /\ visited \subseteq Creature
  OBVIOUS
<1>. HIDE CreaturesAssumption DEF Init, ThinkInit, SpawnInit
<1>9. Sound(State, Exempt, {})
  BY <1>4, <1>5, <1>6 DEF Sound
<1>. QED
  BY <1>3, <1>7, <1>8, <1>9 DEF Inv, TypeOK

\* What happens leads from a sound state of the world to another.
LEMMA BecomeKeeps ==
    ASSUME Inv, NEW t \in States, t.current = current, Sound(t, Exempt, {}), Missed(t),
           Become(t), UNCHANGED <<current, cycle>>, visited' \in SUBSET Creature
    PROVE  Inv'
<1>1. State' = [t EXCEPT !.draw = draw'] /\ draw' \in [Creature -> NewSlot]
  BY DEF Become, State, States
<1>. DEFINE u == [t EXCEPT !.draw = draw']
<1>2. /\ u \in States /\ SameMinds(t, u)
      /\ u.place = t.place /\ u.master = t.master /\ u.attacked = t.attacked
      /\ u.follow = t.follow /\ u.targets = t.targets
      /\ u.spawned = t.spawned /\ u.checkSpawnEvent = t.checkSpawnEvent
  BY <1>1 DEF States, SameMinds
<1>. HIDE DEF u
<1>3. Sound(u, Exempt, {}) /\ Missed(u)
  BY <1>2, SoundSame DEF Missed
<1>4. State' = u
  BY <1>1 DEF u
<1>5. State' \in States /\ Sound(State', Exempt, {}) /\ Missed(State')
  BY <1>2, <1>3, <1>4
<1>. QED
  BY <1>5 DEF Inv, TypeOK

LEMMA HappensKeeps ==
    ASSUME Inv, NEW t, Leads(State, t), Happens(t)
    PROVE  Inv'
<1>1. State.current = current
  BY DEF State
<1>. QED
  BY <1>1, BecomeKeeps DEF Leads, Happens, Inv, TypeOK

LEMMA CheckSpawnKeeps == ASSUME Inv, CheckSpawn PROVE Inv'
<1>. DEFINE clean == Cleanup(State)
            g == [b \in Block |-> IF spawned[b] \in InGame(State) THEN spawned[b] ELSE None]
            event(s) == [s EXCEPT !.checkSpawnEvent = Missing(s) # {}]
            \* Sound but for the event, and who is there is in the game.
            Clean(s) == /\ s \in States /\ s.current = current /\ Sound(s, Exempt, {})
                        /\ \A b \in Block : s.spawned[b] # None => s.place[s.spawned[b]] # None
<1>1. State \in States /\ Sound(State, Exempt, {}) /\ State.current = current
      /\ State.spawned = spawned
  BY DEF Inv, TypeOK, State
<1>2. Clean(clean)
  <2>1. g \in [Block -> Monster \cup {None}]
    BY <1>1 DEF States
  <2>2. clean = [State EXCEPT !.spawned = g]
    BY <1>1 DEF Cleanup, State
  <2>3. \A b \in Block : g[b] # None => g[b] \in InGame(State)
    OBVIOUS
  <2>. HIDE DEF g, clean
  <2>4. /\ clean \in States /\ clean.current = current /\ SameMinds(State, clean)
        /\ clean.place = State.place /\ clean.master = State.master
        /\ clean.attacked = State.attacked /\ clean.follow = State.follow
        /\ clean.targets = State.targets /\ clean.spawned = g
    BY <1>1, <2>1, <2>2 DEF States, SameMinds
  <2>5. Sound(clean, Exempt, {})
    BY <1>1, <2>4, SoundSame
  <2>6. \A b \in Block : clean.spawned[b] # None => clean.place[clean.spawned[b]] # None
    BY <2>3, <2>4 DEF InGame
  <2>. QED
    BY <2>4, <2>5, <2>6
<1>. HIDE DEF clean
<1>3. ASSUME NEW s \in Respawns(clean) PROVE Clean(s)
  <2>1. PICK b \in Block, m \in Fresh(clean) : s = SpawnMonster(clean, b, m)
    BY <1>3 DEF Respawns, Missing
  <2>. DEFINE u == Placed(clean, m, Home[b])
              h == [u.spawned EXCEPT ![b] = m]
  <2>2. /\ m \in Monster /\ m \in Creature /\ clean.place[m] = None /\ Home[b] \in Place
        /\ Home[b] # None
    BY SpawnAssumption, CreaturesAssumption DEF Fresh, InGame
  <2>3. /\ u \in States /\ Spawns(clean, u)
        /\ \A d \in Creature : u.place[d] = IF d = m THEN Home[b] ELSE clean.place[d]
    BY <1>2, <2>2, PlacedTypes
  <2>4. Sound(u, Exempt, {})
    BY <1>2, <2>2, PlacedKeeps
  <2>5. s = [u EXCEPT !.spawned = h]
    BY <2>1, <2>3 DEF SpawnMonster, States
  <2>. HIDE DEF u
  <2>6. /\ h \in [Block -> Monster \cup {None}]
        /\ \A x \in Block : h[x] = IF x = b THEN m ELSE clean.spawned[x]
    BY <2>2, <2>3 DEF States, Spawns
  <2>. HIDE DEF h
  <2>7. /\ s \in States /\ s.current = u.current /\ SameMinds(u, s)
        /\ s.place = u.place /\ s.master = u.master
        /\ s.attacked = u.attacked /\ s.follow = u.follow
        /\ s.targets = u.targets /\ s.spawned = h
    BY <2>3, <2>5, <2>6 DEF States, SameMinds
  <2>8. Sound(s, Exempt, {})
    BY <2>3, <2>4, <2>7, SoundSame
  <2>9. ASSUME NEW x \in Block, s.spawned[x] # None PROVE s.place[s.spawned[x]] # None
    <3>1. CASE x = b
      BY <2>2, <2>3, <2>6, <2>7, <3>1
    <3>2. CASE x # b
      <4>1. s.spawned[x] = clean.spawned[x] /\ clean.spawned[x] \in Creature
        BY <1>2, <2>6, <2>7, <2>9, <3>2, CreaturesAssumption DEF States
      <4>2. clean.place[clean.spawned[x]] # None
        BY <1>2, <2>9, <4>1
      <4>. QED
        BY <2>2, <2>3, <2>7, <4>1, <4>2
    <3>. QED
      BY <3>1, <3>2
  <2>. QED
    BY <1>2, <2>3, <2>7, <2>8, <2>9 DEF Spawns
<1>4. PICK s \in {clean} \cup Respawns(clean) : Become(event(s))
  BY DEF CheckSpawn, clean
<1>5. Clean(s)
  BY <1>2, <1>3
<1>. DEFINE t == event(s)
<1>6. /\ t \in States /\ t.current = s.current /\ SameMinds(s, t)
      /\ t.place = s.place /\ t.master = s.master
      /\ t.attacked = s.attacked /\ t.follow = s.follow
      /\ t.targets = s.targets /\ t.spawned = s.spawned
      /\ t.checkSpawnEvent = (Missing(s) # {})
  BY <1>5 DEF States, SameMinds
<1>. HIDE DEF t
<1>7. Sound(t, Exempt, {})
  BY <1>5, <1>6, SoundSame
<1>8. Missed(t)
  BY <1>5, <1>6 DEF Missed, Missing
<1>9. Become(t) /\ t.current = current
  BY <1>4, <1>5, <1>6 DEF t
<1>10. UNCHANGED <<current, cycle>> /\ visited' \in SUBSET Creature
  BY DEF CheckSpawn, Inv, TypeOK
<1>. QED
  BY <1>6, <1>7, <1>8, <1>9, <1>10, BecomeKeeps

LEMMA OnThinkKeeps == ASSUME Inv, NEW c \in Creature, OnThink(c) PROVE Inv'
<1>1. PICK t \in IF c \in Monster /\ c \in creatureCheck /\ place[c] # None
                 THEN Thinks(State, c) ELSE {State} : Become(t)
  BY DEF OnThink
<1>2. State \in States /\ Sound(State, Exempt, {}) /\ State.current = current
      /\ Missed(State) /\ State.place = place
  BY DEF Inv, TypeOK, State
<1>3. Leads(State, t)
  <2>1. CASE t = State
    BY <1>2, <2>1 DEF Leads
  <2>2. CASE t # State
    <3>1. c \in Monster /\ place[c] # None /\ t \in Thinks(State, c)
      BY <1>1, <2>2
    <3>2. c \in InGame(State)
      BY <1>2, <3>1 DEF InGame
    <3>. QED
      BY <1>2, <3>1, <3>2, ThinksLeads
  <2>. QED
    BY <2>1, <2>2
<1>4. UNCHANGED <<current, cycle>> /\ visited' \in SUBSET Creature
  BY DEF OnThink, Visit, Inv, TypeOK
<1>. QED
  BY <1>1, <1>2, <1>3, <1>4, BecomeKeeps DEF Leads

LEMMA MoveKeeps == ASSUME Inv, NEW c \in Creature, NEW l \in Place, Move(c, l) PROVE Inv'
<1>1. /\ State \in States /\ Sound(State, Exempt, {}) /\ c \in InGame(State)
  BY DEF Inv, TypeOK, Move
<1>2. PICK far \in SUBSET Summons(State, c) : Happens(RemovedOnes(Moved(State, c, l), far))
  BY DEF Move, RemovedOnes
<1>. DEFINE u == Moved(State, c, l)
<1>3. Leads(State, u) /\ u.master = State.master
  BY <1>1, MovedLeads
<1>. HIDE DEF u
<1>4. far \in SUBSET Monster /\ \A m \in far : u.master[m] # None
  BY <1>2, <1>3, CreaturesAssumption DEF Summons
<1>5. Leads(u, RemovedOnes(u, far))
  BY <1>3, <1>4, LeftBehindLeads DEF Leads
<1>6. Leads(State, RemovedOnes(u, far))
  BY <1>3, <1>5, LeadsOn
<1>. QED
  BY <1>2, <1>6, HappensKeeps DEF u

LEMMA StartCycleKeeps ==
    ASSUME Inv, StartCycle, UNCHANGED <<creatureVars, spawnVars>> PROVE Inv'
<1>1. State \in States /\ Sound(State, Exempt, {}) /\ Missed(State)
  BY DEF Inv, TypeOK
<1>2. /\ current' \in Slot /\ cycle' \in Slot /\ visited' = {}
  BY <1>1, SlotTypes DEF StartCycle, State, States
<1>3. State' = [State EXCEPT !.current = current']
  BY DEF StartCycle, creatureVars, spawnVars, State
<1>. DEFINE t == [State EXCEPT !.current = current']
<1>4. /\ t \in States /\ SameMinds(State, t)
      /\ t.place = State.place /\ t.master = State.master
      /\ t.attacked = State.attacked /\ t.follow = State.follow
      /\ t.targets = State.targets /\ t.spawned = State.spawned
      /\ t.checkSpawnEvent = State.checkSpawnEvent
  BY <1>1, <1>2 DEF States, SameMinds
<1>. HIDE DEF t
<1>5. Sound(t, Exempt, {}) /\ Missed(t)
  BY <1>1, <1>4, SoundSame DEF Missed
<1>6. State' = t
  BY <1>3 DEF t
<1>7. State' \in States /\ Sound(State', Exempt, {}) /\ Missed(State')
  BY <1>4, <1>5, <1>6
<1>. QED
  BY <1>2, <1>7 DEF Inv, TypeOK

LEMMA EndCycleKeeps ==
    ASSUME Inv, EndCycle, UNCHANGED <<creatureVars, spawnVars>> PROVE Inv'
<1>1. State \in States /\ Sound(State, Exempt, {}) /\ Missed(State) /\ cycle \in Slot
  BY DEF Inv, TypeOK, EndCycle
<1>. DEFINE L == listed \ (slots[cycle] \ creatureCheck)
            S == [slots EXCEPT ![cycle] = @ \cap creatureCheck]
            t == [State EXCEPT !.listed = L, !.slots = S]
<1>2. /\ slots \in [Slot -> SUBSET Creature] /\ listed \subseteq Creature
      /\ creatureCheck \subseteq Creature
  BY <1>1 DEF State, States
<1>3. L \in SUBSET Creature /\ S \in [Slot -> SUBSET Creature]
  BY <1>1, <1>2
<1>4. \A k \in Slot : S[k] = IF k = cycle THEN slots[k] \cap creatureCheck ELSE slots[k]
  BY <1>1, <1>2
<1>5. State' = t
  <2>1. /\ place' = place /\ master' = master /\ attacked' = attacked /\ follow' = follow
        /\ targets' = targets /\ idle' = idle /\ spawned' = spawned
        /\ checkSpawnEvent' = checkSpawnEvent
    BY DEF creatureVars, spawnVars
  <2>2. /\ slots' = S /\ listed' = L /\ creatureCheck' = creatureCheck
        /\ current' = current /\ draw' = draw
    BY DEF EndCycle
  <2>. HIDE DEF L, S
  <2>. DEFINE rec(l, k) ==
                [place |-> place, master |-> master, attacked |-> attacked, follow |-> follow,
                 targets |-> targets, idle |-> idle, spawned |-> spawned,
                 checkSpawnEvent |-> checkSpawnEvent, creatureCheck |-> creatureCheck,
                 listed |-> l, slots |-> k, current |-> current, draw |-> draw]
  <2>3. State = rec(listed, slots) /\ State' = rec(L, S)
    BY <2>1, <2>2 DEF State
  <2>4. [rec(listed, slots) EXCEPT !.listed = L] = rec(L, slots)
    OBVIOUS
  <2>5. [rec(L, slots) EXCEPT !.slots = S] = rec(L, S)
    OBVIOUS
  <2>. HIDE DEF rec
  <2>. QED
    BY <2>3, <2>4, <2>5
<1>6. /\ \A c \in Creature : c \in listed <=> \E k \in Slot : c \in slots[k]
      /\ \A j, k \in Slot : j # k => slots[j] \cap slots[k] = {}
      /\ creatureCheck \subseteq listed
  BY <1>1 DEF Sound, Minds, Thinking, Listing, State
<1>7. /\ \A c \in Creature : c \in L <=> \E k \in Slot : c \in S[k]
      /\ \A j, k \in Slot : j # k => S[j] \cap S[k] = {}
      /\ creatureCheck \subseteq L
  <2>1. ASSUME NEW c \in Creature PROVE c \in L <=> \E k \in Slot : c \in S[k]
    <3>. HIDE DEF S
    <3>1. CASE c \in slots[cycle]
      BY <1>1, <1>4, <1>6, <3>1
    <3>2. CASE c \notin slots[cycle]
      BY <1>1, <1>4, <1>6, <3>2
    <3>. QED
      BY <3>1, <3>2
  <2>2. ASSUME NEW j \in Slot, NEW k \in Slot, j # k PROVE S[j] \cap S[k] = {}
    <3>. HIDE DEF S
    <3>1. S[j] \subseteq slots[j] /\ S[k] \subseteq slots[k]
      BY <1>4
    <3>. QED
      BY <1>6, <2>2, <3>1
  <2>3. creatureCheck \subseteq L
    BY <1>6
  <2>. QED
    BY <2>1, <2>2, <2>3
<1>. HIDE DEF L, S
<1>8. /\ t \in States /\ t.listed = L /\ t.slots = S
      /\ t.creatureCheck = State.creatureCheck /\ t.idle = State.idle
      /\ t.place = State.place /\ t.master = State.master
      /\ t.attacked = State.attacked /\ t.follow = State.follow
      /\ t.targets = State.targets /\ t.spawned = State.spawned
      /\ t.checkSpawnEvent = State.checkSpawnEvent
  BY <1>1, <1>3 DEF States
<1>. HIDE DEF t
<1>9. Listing(t)
  <2>1. State.creatureCheck = creatureCheck
    BY DEF State
  <2>. QED
    BY <1>7, <1>8, <2>1 DEF Listing
<1>10. Minds(t)
  BY <1>1, <1>8, <1>9 DEF Sound, Minds, Thinking, IdleEmpty
<1>11. Sound(t, Exempt, {})
  BY <1>1, <1>8, <1>10, QuietKeeps
<1>12. Missed(t)
  BY <1>1, <1>8 DEF Missed
<1>13. State' \in States /\ Sound(State', Exempt, {}) /\ Missed(State')
  BY <1>5, <1>8, <1>11, <1>12
<1>14. cycle' = NoCycle /\ visited' = {}
  BY DEF EndCycle
<1>. QED
  BY <1>13, <1>14 DEF Inv, TypeOK

LEMMA InvStep == Inv /\ [Next]_vars => Inv'
<1>. SUFFICES ASSUME Inv, [Next]_vars PROVE Inv'
  OBVIOUS
<1>1. State \in States /\ Sound(State, Exempt, {}) /\ Player \subseteq Creature
      /\ Creature \cup {None} = Prey /\ Monster \subseteq Creature
  BY CreaturesAssumption DEF Inv, TypeOK, Prey
<1>2. ASSUME NEW p \in Player, Logout(p) PROVE Inv'
  <2>1. Leads(State, Removed(State, p))
    BY <1>1, RemovedAllKeeps DEF Leads
  <2>. QED
    BY <1>2, <2>1, HappensKeeps DEF Logout, Task
<1>3. ASSUME NEW p \in Player, NEW l \in Place, Login(p, l) PROVE Inv'
  <2>1. State.place[p] = None
    BY <1>1, <1>3 DEF Login, InGame
  <2>2. Leads(State, Placed(State, p, l))
    BY <1>1, <2>1, LoginLeads
  <2>. QED
    BY <1>3, <2>2, HappensKeeps DEF Login, Task
<1>4. ASSUME NEW p \in Player, NEW x \in Prey, PlayerFollowCreature(p, x) PROVE Inv'
  <2>. DEFINE a == PlayerAttacks(State, p, None, FALSE)
  <2>1. Leads(State, a)
    BY <1>1, PlayerAttacksLeads DEF Prey
  <2>. HIDE DEF a
  <2>2. Leads(a, SetFollow(a, p, x))
    BY <1>1, <2>1, FollowLeads DEF Leads
  <2>3. Leads(State, SetFollow(a, p, x))
    BY <2>1, <2>2, LeadsOn
  <2>. QED
    BY <1>4, <2>3, HappensKeeps DEF PlayerFollowCreature, Task, a
<1>5. ASSUME NEW p \in Player, NEW x \in Prey, NEW chaseMode \in BOOLEAN,
             PlayerSetAttackedCreature(p, x, chaseMode)
      PROVE  Inv'
  <2>1. Leads(State, PlayerAttacks(State, p, x, chaseMode))
    BY <1>1, PlayerAttacksLeads
  <2>. QED
    BY <1>5, <2>1, HappensKeeps DEF PlayerSetAttackedCreature, Task
<1>6. ASSUME NEW p \in Player, NEW m \in Monster, PlayerSummon(p, m) PROVE Inv'
  <2>1. p \in InGame(State) /\ ~IsSummon(State, p) /\ m \in Fresh(State)
    BY <1>6 DEF PlayerSummon, MaySummon
  <2>2. Leads(State, Summoned(State, p, m))
    BY <1>1, <2>1, SummonedKeeps DEF Leads, Spawns
  <2>. QED
    BY <1>6, <2>2, HappensKeeps DEF PlayerSummon, Task
<1>7. ASSUME NEW c \in Creature, Die(c) PROVE Inv'
  <2>1. Leads(State, Died(State, c))
    BY <1>1, DiedAllKeeps DEF Leads
  <2>. QED
    BY <1>7, <2>1, HappensKeeps DEF Die
<1>8. ASSUME NEW c \in Creature, OnThink(c) PROVE Inv'
  BY <1>8, OnThinkKeeps
<1>9. ASSUME NEW c \in Creature, NEW l \in Place, Move(c, l) PROVE Inv'
  BY <1>9, MoveKeeps
<1>10. CASE CheckSpawn
  BY <1>10, CheckSpawnKeeps
<1>11. CASE StartCycle /\ UNCHANGED <<creatureVars, spawnVars>>
  BY <1>11, StartCycleKeeps
<1>12. CASE EndCycle /\ UNCHANGED <<creatureVars, spawnVars>>
  BY <1>12, EndCycleKeeps
<1>13. CASE UNCHANGED vars
  <2>1. State' = State /\ cycle' = cycle /\ visited' = visited
    BY <1>13 DEF vars, creatureVars, spawnVars, thinkVars, State
  <2>2. State' \in States /\ Sound(State', Exempt, {}) /\ Missed(State')
    BY <2>1 DEF Inv, TypeOK
  <2>. QED
    BY <2>1, <2>2 DEF Inv, TypeOK
<1>. QED
  BY <1>1, <1>2, <1>3, <1>4, <1>5, <1>6, <1>7, <1>8, <1>9, <1>10, <1>11, <1>12, <1>13 DEF Next

LEMMA Invariance == Spec => []Inv
BY InitInv, InvStep, PTL DEF Spec

-----------------------------------------------------------------------------

\* The types of the world: who attacks, follows or serves whom, and who thinks when.
THEOREM TypeCorrect == Spec => []TypeOK
<1>1. Inv => TypeOK
  BY DEF Inv
<1>. QED
  BY <1>1, Invariance, PTL

\* Where a monster that strays is removed, every monster that sees a player hunts
\* it, is awake, and has its turns in the think cycle: whatever came, went, slept,
\* was summoned or died before (Monster::onCreatureFound, addCreatureCheck).
THEOREM MonstersHunt == ASSUME RemoveOnDespawn PROVE Spec => []SeenPlayersHunted
<1>1. ASSUME Inv, NEW m \in Monster, NEW p \in Player,
             CanSee(State, m, p), ~PlayersSummon(State, m)
      PROVE  p \in targets[m] /\ m \notin idle /\ Scheduled(m)
  <2>1. /\ State.targets = targets /\ State.idle = idle /\ State.slots = slots
        /\ State.listed = listed /\ State.creatureCheck = creatureCheck
    BY DEF State
  <2>2. p \in targets[m]
    BY <1>1, <2>1 DEF Inv, Sound, Hunting, Exempt
  <2>3. m \notin idle
    BY <1>1, <2>1, <2>2 DEF Inv, Sound, Minds, IdleEmpty
  <2>4. m \in creatureCheck /\ \E k \in Slot : m \in slots[k]
    BY <1>1, <2>1, <2>3, CreaturesAssumption DEF Inv, Sound, Minds, Thinking, Listing
  <2>. QED
    BY <2>2, <2>3, <2>4 DEF Scheduled
<1>2. Inv => SeenPlayersHunted
  BY <1>1 DEF SeenPlayersHunted
<1>. QED
  BY <1>2, Invariance, PTL

\* Nobody follows or attacks what is gone or out of sight, and a summon's master is
\* in the game: the handlers ask for their positions without a test.
THEOREM PreyIsSeen == Spec => []PreyInSight
<1>1. ASSUME Inv, NEW c \in InGame(State)
      PROVE  /\ attacked[c] # None => CanSee(State, c, attacked[c])
             /\ follow[c] # None => CanSee(State, c, follow[c])
             /\ c \in Monster /\ IsSummon(State, c) => place[master[c]] # None
  <2>1. /\ State.attacked = attacked /\ State.follow = follow
        /\ State.master = master /\ State.place = place
    BY DEF State
  <2>2. c \in Creature
    BY DEF InGame
  <2>3. Preying(State) /\ Mastered(State, {})
    BY <1>1 DEF Inv, Sound
  <2>. QED
    BY <2>1, <2>2, <2>3 DEF Preying, Mastered, IsSummon
<1>2. Inv => PreyInSight
  BY <1>1 DEF PreyInSight
<1>. QED
  BY <1>2, Invariance, PTL

\* A spawn that misses a monster will check (Spawn::startSpawnCheck).
THEOREM MissingChecked == Spec => []MissingIsChecked
<1>1. Inv => MissingIsChecked
  BY DEF Inv, Missed, MissingIsChecked, State
<1>. QED
  BY <1>1, Invariance, PTL
=============================================================================
