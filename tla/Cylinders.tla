------------------------------- MODULE Cylinders -------------------------------
(***************************************************************************)
(* Things and what holds them: Game::internalMoveItem and its relatives    *)
(* (src/src/game.cpp) over the cylinders of src/src/container.cpp,         *)
(* tile.cpp and player.cpp.  A thing is in a container, on a tile or in a  *)
(* slot of a player.  It knows its parent, the parent knows its things;    *)
(* containers keep the weight of all they hold, players that of all they   *)
(* wear; and the clients are shown the containers they have opened, until  *)
(* something moves these out of their reach.                               *)
(*                                                                         *)
(* Every handler is one operator from the state before to the state after, *)
(* a record of the variables.  All stackable things are of one kind and    *)
(* equal; tiles are open ground and let every thing in, and those that are *)
(* not the same are out of reach of each other.  Locked containers,        *)
(* quivers, depots and inboxes, hangable things, browse fields, scripts    *)
(* that refuse a move, and things in trade are left out.                   *)
(***************************************************************************)
EXTENDS Integers, Sequences, FiniteSets, FiniteSetsExt, SequencesExt, Functions

CONSTANTS
    Player, Tile,
    Container, Plain, Stack,  \* the things; Stack bounds the stacks at a time
    TwoHanded,    \* SLOTP_TWO_HAND
    WeaponType,   \* of each thing that is not a container or a stack
    Weight,       \* of each thing, a piece of it if it is stackable
    Capacity,     \* maxSize of a container
    Full,         \* 100 in the code, the most pieces in a stack
    Strength,     \* capacity of each player
    Slot,         \* the slots that a player wears things in
    ClassicEquipmentSlots,
    Windows,      \* 16 in the code, the containers that a player can have open
    MaxMade,      \* bound: pieces at a time
    Begin,        \* the tile where all are at first, and everything is
    None

Thing == Container \cup Plain \cup Stack

CONST_SLOT_BACKPACK == 3
CONST_SLOT_RIGHT == 5
CONST_SLOT_LEFT == 6
CONST_SLOT_LAST == 10

\* Things, players, tiles are different things, and finitely many.
ASSUME KindsAssumption ==
    /\ IsFiniteSet(Thing) /\ IsFiniteSet(Player) /\ IsFiniteSet(Tile)
    /\ Container \cap (Plain \cup Stack \cup Tile \cup Player) = {}
    /\ Plain \cap (Stack \cup Tile \cup Player) = {}
    /\ Stack \cap (Tile \cup Player) = {}
    /\ Tile \cap Player = {}
    /\ None \notin Thing \cup Tile \cup Player

ASSUME CylindersAssumption ==
    /\ Begin \in Tile /\ TwoHanded \subseteq Plain
    /\ WeaponType \in [Plain -> {"none", "weapon", "distance", "shield", "quiver", "ammo"}]
    /\ Weight \in [Thing -> Nat \ {0}]
    /\ Capacity \in Nat \ {0} /\ Full \in Nat \ {0} /\ Strength \in [Player -> Nat]
    /\ Windows \in Nat /\ MaxMade \in Nat
    /\ Slot \subseteq {CONST_SLOT_BACKPACK, CONST_SLOT_RIGHT, CONST_SLOT_LEFT}
    /\ {CONST_SLOT_RIGHT, CONST_SLOT_LEFT} \subseteq Slot
    /\ ClassicEquipmentSlots \in BOOLEAN

VARIABLES
    parent,          \* of each thing, None if it is nowhere
    count,           \* of each stack
    itemlist,        \* what is in each container and on each tile, the front first
    inventory,       \* what each player wears in each slot
    totalWeight,     \* of what is in each container
    inventoryWeight, \* of what each player wears
    openContainers,  \* by each player
    position,        \* the tile of each player
    made             \* history: the pieces that scripts gave and did not take

vars == <<parent, count, itemlist, inventory, totalWeight, inventoryWeight,
          openContainers, position, made>>

INDEX_WHEREEVER == -1
CAPACITY_WINDOW == 0  \* CONST_SLOT_WHEREEVER
MOVE_UP == 254

\* What data/items/items.toml says of the things there are: the largest container holds 60, all
\* that is for two hands is a weapon.
ASSUME ItemsAssumption ==
    /\ Capacity < MOVE_UP
    /\ \A x \in TwoHanded : WeaponType[x] \in {"weapon", "distance"}
    /\ \A x, y \in Stack : Weight[x] = Weight[y]

Init ==
    /\ parent = [x \in Thing |-> IF x \in Stack THEN None ELSE Begin]
    /\ count = [x \in Stack |-> 0]
    /\ itemlist = [c \in Container \cup Tile |->
                       IF c = Begin THEN SetToSeq(Container \cup Plain) ELSE <<>>]
    /\ inventory = [p \in Player |-> [i \in Slot |-> None]]
    /\ totalWeight = [c \in Container |-> 0]
    /\ inventoryWeight = [p \in Player |-> 0]
    /\ openContainers = [p \in Player |-> {}]
    /\ position = [p \in Player |-> Begin]
    /\ made = 0

\* The state as one value, and the step to the state s.  A stack that is nowhere is forgotten.
Now == [parent |-> parent, count |-> count, itemlist |-> itemlist, inventory |-> inventory,
        totalWeight |-> totalWeight, inventoryWeight |-> inventoryWeight,
        openContainers |-> openContainers, position |-> position]

Become(s) ==
    /\ parent' = s.parent
    /\ count' = [x \in Stack |-> IF s.parent[x] = None THEN 0 ELSE s.count[x]]
    /\ itemlist' = s.itemlist
    /\ inventory' = s.inventory
    /\ totalWeight' = s.totalWeight
    /\ inventoryWeight' = s.inventoryWeight
    /\ openContainers' = s.openContainers
    /\ position' = s.position

-----------------------------------------------------------------------------
(* Where things are and what they weigh.                                   *)

\* A cylinder with those above it.
Chain(s, c) ==
    LET up[n \in 0..Cardinality(Container)] ==
            IF n = 0 THEN {c}
            ELSE LET below == up[n - 1] IN below \cup {s.parent[b] : b \in below \cap Container}
    IN  up[Cardinality(Container)]

\* The player at the top, None if there is none.
HoldingPlayer(s, c) ==
    LET holders == Chain(s, c) \cap Player
    IN  IF holders = {} THEN None ELSE CHOOSE p \in holders : TRUE

\* None for what is not in the world.
TileOf(s, c) ==
    LET tiles == Chain(s, c) \cap Tile
    IN  IF HoldingPlayer(s, c) # None THEN s.position[HoldingPlayer(s, c)]
        ELSE IF tiles = {} THEN None ELSE CHOOSE t \in tiles : TRUE

GetWeight(s, x) ==
    IF x \in Stack THEN Weight[x] * s.count[x]
    ELSE Weight[x] + (IF x \in Container THEN s.totalWeight[x] ELSE 0)

\* Mutant: only the container itself gets heavier.
UpdateOwnWeight(s, c, diff) ==
    IF c \in Container THEN [s EXCEPT !.totalWeight[c] = @ + diff] ELSE s

UpdateItemWeight(s, c, diff) ==
    LET above == Chain(s, c)
    IN  IF c \in Container
        THEN [s EXCEPT !.totalWeight =
                  [b \in Container |-> IF b \in above THEN @[b] + diff ELSE @[b]]]
        ELSE s

UpdateInventoryWeight(s, p) ==
    [s EXCEPT !.inventoryWeight[p] =
         SumFunction([i \in Slot |-> IF s.inventory[p][i] = None THEN 0
                                     ELSE GetWeight(s, s.inventory[p][i])])]

\* Item::equals, there being one kind of stackable thing.
Equals(x, y) == x \in Stack /\ y \in Stack

RoomIn(s, y) == Full - s.count[y]

ItemCount(s, x) == IF x \in Stack THEN s.count[x] ELSE 1

\* Player::hasCapacity
HasCapacity(s, p, x, n) ==
    \/ (IF x \in Stack THEN Weight[x] * n ELSE GetWeight(s, x)) <= Strength[p] - s.inventoryWeight[p]
    \/ s.parent[x] # None /\ HoldingPlayer(s, s.parent[x]) = p

-----------------------------------------------------------------------------
(* queryAdd: "ok", "exchange" or "error".                                  *)

Type(x) == IF x \in Plain THEN WeaponType[x] ELSE "none"

Bow(x, y) == Type(x) = "distance" /\ Type(y) = "quiver"

\* Mutant: asks whether x is for two hands, and not what the other hand holds.
HandTakesForgetful(hand, s, x, n, y) == x \in TwoHanded => y = None

\* May the hand take x, n of it, when the other hand holds y?
HandTakes(hand, s, x, n, y) ==
    LET passive == {"none", "shield", "quiver", "ammo"}
        right == hand = CONST_SLOT_RIGHT
    IN  IF ClassicEquipmentSlots
        THEN \/ y = None
             \/ x \in TwoHanded /\ (y = x \/ (~right /\ Bow(x, y)))
             \/ x \notin TwoHanded /\ y \in TwoHanded /\ (IF right THEN Bow(y, x) ELSE Bow(x, y))
             \/ /\ {x, y} \cap TwoHanded = {}
                /\ \/ x = y /\ n = ItemCount(s, x)
                   \/ /\ x # y \/ x \in Stack
                      /\ ~(Type(x) = "shield" /\ Type(y) = "shield")
                      /\ {Type(x), Type(y)} \cap passive # {}
        ELSE /\ right <=> Type(x) \in {"shield", "quiver"}
             /\ ~right => Type(x) \notin passive
             /\ \/ y = None
                \/ right /\ ({x, y} \cap TwoHanded # {} => Bow(y, x))
                \/ ~right /\ (x \in TwoHanded => Bow(x, y))

SlotTakes(s, p, i, x, n) ==
    \/ i = CONST_SLOT_BACKPACK /\ x \in Container
    \/ i = CONST_SLOT_RIGHT /\ HandTakes(i, s, x, n, s.inventory[p][CONST_SLOT_LEFT])
    \/ i = CONST_SLOT_LEFT /\ HandTakes(i, s, x, n, s.inventory[p][CONST_SLOT_RIGHT])

PlayerQueryAdd(s, p, i, x, n) ==
    IF i \notin Slot \/ ~SlotTakes(s, p, i, x, n) \/ ~HasCapacity(s, p, x, n) THEN "error"
    ELSE IF s.inventory[p][i] = None \/ Equals(s.inventory[p][i], x) THEN "ok"
    ELSE IF ClassicEquipmentSlots \/ HoldingPlayer(s, s.parent[x]) # None THEN "exchange"
    ELSE "error"

\* Mutant: a container is kept out of itself, and not out of what it holds.
ContainerQueryAddFlat(s, c, i, x, n) ==
    /\ x # c
    /\ i = INDEX_WHEREEVER => Len(s.itemlist[c]) < Capacity
    /\ HoldingPlayer(s, c) # None => HasCapacity(s, HoldingPlayer(s, c), x, n)

ContainerQueryAdd(s, c, i, x, n) ==
    /\ x \notin Chain(s, c)
    /\ i = INDEX_WHEREEVER => Len(s.itemlist[c]) < Capacity
    /\ HoldingPlayer(s, c) # None => HasCapacity(s, HoldingPlayer(s, c), x, n)

QueryAdd(s, c, i, x, n) ==
    IF c \in Player THEN PlayerQueryAdd(s, c, i, x, n)
    ELSE IF c \in Tile \/ ContainerQueryAdd(s, c, i, x, n) THEN "ok"
    ELSE "error"

-----------------------------------------------------------------------------
(* queryMaxCount: how many of n fit.                                       *)

ContainerMaxCount(s, c, i, x, n) ==
    LET list == s.itemlist[c]
        free == IF Len(list) < Capacity THEN Capacity - Len(list) ELSE 0
        asked == IF i = INDEX_WHEREEVER THEN DOMAIN list ELSE {i + 1} \cap DOMAIN list
        growing == {k \in asked : list[k] # x /\ Equals(x, list[k])}
    IN  IF x \notin Stack THEN free
        ELSE free * Full
             + (IF ContainerQueryAdd(s, c, 0, x, n)
                THEN SumFunction([k \in growing |-> RoomIn(s, list[k])]) ELSE 0)

SlotMaxCount(s, p, i, x, n) ==
    IF s.inventory[p][i] # None
    THEN IF Equals(x, s.inventory[p][i]) THEN RoomIn(s, s.inventory[p][i]) ELSE 0
    ELSE IF PlayerQueryAdd(s, p, i, x, n) # "ok" THEN 0
    ELSE IF x \in Stack THEN Full ELSE 1

\* Every container that a player carries is counted, whatever it may take.
PlayerMaxCount(s, p, x) ==
    LET n == ItemCount(s, x)
        asked(y) == IF y = None THEN n ELSE RoomIn(s, y)
        slots == {i \in Slot : LET y == s.inventory[p][i]
                               IN  /\ y = None \/ (Equals(x, y) /\ s.count[y] < Full)
                                   /\ PlayerQueryAdd(s, p, i, x, asked(y)) = "ok"}
        bags == {c \in Container : HoldingPlayer(s, c) = p}
    IN  SumFunction([i \in slots |-> SlotMaxCount(s, p, i, x, n)])
        + SumFunction([c \in bags |-> ContainerMaxCount(s, c, INDEX_WHEREEVER, x, n)])

QueryMaxCount(s, c, i, x, n) ==
    IF c \in Tile THEN n
    ELSE IF c \in Container THEN ContainerMaxCount(s, c, i, x, n)
    ELSE IF i \in Slot THEN SlotMaxCount(s, c, i, x, n)
    ELSE PlayerMaxCount(s, c, x)

-----------------------------------------------------------------------------
(* queryDestination: where in c, or to which other cylinder, x shall go.  A *)
(* destination has the thing that is there already as its item.             *)

Destination(c, i, y) == [to |-> c, index |-> i, item |-> y]

\* The first stack in c, other than x, that x can be added to; 0 if there is none.
Stackable(s, c, x) ==
    LET list == s.itemlist[c]
        found == {k \in DOMAIN list : list[k] # x /\ Equals(list[k], x) /\ s.count[list[k]] < Full}
    IN  IF found = {} THEN 0 ELSE Min(found)

ContainerDestination(s, d, x) ==
    LET c == d.to
        list == s.itemlist[c]
        i == IF d.index >= Capacity THEN INDEX_WHEREEVER ELSE d.index
        y == IF i # INDEX_WHEREEVER /\ i < Len(list) THEN list[i + 1] ELSE d.item
        k == Stackable(s, c, x)
    IN  IF d.index = MOVE_UP THEN Destination(s.parent[c], INDEX_WHEREEVER, d.item)
        ELSE IF i # INDEX_WHEREEVER /\ y \in Container THEN Destination(y, INDEX_WHEREEVER, y)
        ELSE IF \/ x \notin Stack \/ s.parent[x] = c \/ k = 0
                \/ Equals(x, y) /\ s.count[y] < Full
        THEN Destination(c, i, y)
        ELSE Destination(c, k - 1, list[k])

\* The containers in a list, but for x.
BagsAmong(list, x) ==
    FlattenSeq([k \in DOMAIN list |-> IF list[k] \in Container \ {x} THEN <<list[k]>> ELSE <<>>])

Worn(s, p) == [i \in 1..CONST_SLOT_LAST |-> IF i \in Slot THEN s.inventory[p][i] ELSE None]

\* The containers a player carries, those worn first, then what is in these and so on; x is passed
\* over with all that is in it.
Bags(s, p, x) ==
    LET level[n \in 0..Cardinality(Container)] ==
            IF n = 0 THEN BagsAmong(Worn(s, p), x)
            ELSE LET above == level[n - 1]
                 IN  FlattenSeq([k \in DOMAIN above |-> BagsAmong(s.itemlist[above[k]], x)])
    IN  FlattenSeq([n \in 1..Cardinality(Container) |-> level[n - 1]])

\* The first of some bags that has room for x, at its end; p if there is none.
PlaceInBags(s, d, x, bags) ==
    LET size(b) == Len(s.itemlist[b])
        open == {k \in DOMAIN bags :
                     \/ Stackable(s, bags[k], x) # 0
                     \/ /\ size(bags[k]) < Capacity
                        /\ ContainerQueryAdd(s, bags[k], size(bags[k]), x, ItemCount(s, x))}
        b == bags[Min(open)]
        k == Stackable(s, b, x)
    IN  IF open = {} THEN Destination(d.to, d.index, None)
        ELSE Destination(b, size(b), IF k # 0 THEN s.itemlist[b][k] ELSE None)

\* The first place for x in what a player wears and carries.
PlaceFor(s, d, x) ==
    LET worn == s.inventory[d.to]
        slots == {i \in Slot : /\ worn[i] # x
                               /\ worn[i] = None \/ (Equals(worn[i], x) /\ s.count[worn[i]] < Full)
                               /\ PlayerQueryAdd(s, d.to, i, x, ItemCount(s, x)) = "ok"}
    IN  IF slots # {} THEN Destination(d.to, Min(slots), worn[Min(slots)])
        ELSE PlaceInBags(s, d, x, Bags(s, d.to, x))

PlayerDestination(s, d, x) ==
    LET y == IF d.index \in Slot THEN s.inventory[d.to][d.index] ELSE None
    IN  IF d.index \in {CAPACITY_WINDOW, INDEX_WHEREEVER} THEN PlaceFor(s, d, x)
        ELSE IF y \in Container THEN Destination(y, INDEX_WHEREEVER, None)
        ELSE IF y # None THEN [d EXCEPT !.item = y]
        ELSE d

TileDestination(s, d) ==
    IF s.itemlist[d.to] = <<>> THEN d ELSE [d EXCEPT !.item = Head(s.itemlist[d.to])]

QueryDestination(s, d, x) ==
    IF d.to \in Tile THEN TileDestination(s, d)
    ELSE IF d.to \in Player THEN PlayerDestination(s, d, x)
    ELSE ContainerDestination(s, d, x)

-----------------------------------------------------------------------------
(* addThing, updateThing, removeThing and the notifications.               *)

AddThing(s, c, i, x) ==
    IF c \in Player
    THEN IF i \in Slot THEN [s EXCEPT !.parent[x] = c, !.inventory[c][i] = x] ELSE s
    ELSE IF c \in Container /\ i >= Capacity THEN s
    ELSE UpdateItemWeight([s EXCEPT !.parent[x] = c, !.itemlist[c] = <<x>> \o @], c, GetWeight(s, x))

UpdateThing(s, c, y, n) ==
    UpdateItemWeight([s EXCEPT !.count[y] = n], c, Weight[y] * (n - s.count[y]))

RemoveThing(s, c, x, n) ==
    IF x \in Stack /\ n # s.count[x] THEN UpdateThing(s, c, x, s.count[x] - n)
    ELSE IF c \in Player
    THEN [s EXCEPT !.parent[x] = None,
                   !.inventory[c] = [i \in Slot |-> IF @[i] = x THEN None ELSE @[i]]]
    ELSE UpdateItemWeight([s EXCEPT !.parent[x] = None, !.itemlist[c] = RemoveFirst(@, x)],
                          c, - GetWeight(s, x))

\* Mutant: what is in the container stays open.
AutoCloseOne(s, q, x) == s.openContainers[q] \ {x}

\* Player::autoCloseContainers: what q has open still.
AutoCloseContainers(s, q, x) == {c \in s.openContainers[q] : x \notin Chain(s, c)}

\* Where the container x went, q cannot reach it.
OutOfReach(s, q, x) ==
    \/ s.parent[x] = None
    \/ TileOf(s, x) # s.position[q]
    \/ HoldingPlayer(s, x) \notin {q, None}

\* Player::postRemoveNotification of the players in told
CloseWindows(s, told, x) ==
    [s EXCEPT !.openContainers =
         [q \in Player |-> IF q \in told /\ OutOfReach(s, q, x) THEN AutoCloseContainers(s, q, x)
                           ELSE @[q]]]

PostRemoveNotification(s, c, x) ==
    LET p == HoldingPlayer(s, c)
        told == IF p = None THEN Player ELSE {p}
        t == IF p = None THEN s ELSE UpdateInventoryWeight(s, p)
    IN  IF x \in Container THEN CloseWindows(t, told, x) ELSE t

PostAddNotification(s, c) ==
    IF HoldingPlayer(s, c) = None THEN s ELSE UpdateInventoryWeight(s, HoldingPlayer(s, c))

\* Item::clone with another count, for a stack: the clone is not anywhere yet.
Fresh(s) == CHOOSE y \in Stack : s.parent[y] = None

-----------------------------------------------------------------------------
(* Game::internalMoveItem                                                  *)

\* The loop over queryDestination ends when a cylinder stands by itself.
Settled(s, c, i, x) ==
    LET hop[k \in 0..(Cardinality(Container) + 2)] ==
            IF k = 0 THEN Destination(c, i, None)
            ELSE QueryDestination(s, hop[k - 1], x)
    IN  hop[Cardinality(Container) + 2]

IndexIn(s, c, x) ==
    IF c \in Player THEN CHOOSE i \in Slot : s.inventory[c][i] = x ELSE 0

\* What is in the way goes to where x comes from.
Exchange(s, from, d) ==
    PostAddNotification(
        PostRemoveNotification(
            AddThing(RemoveThing(s, d.to, d.item, ItemCount(s, d.item)), from, 0, d.item),
            d.to, d.item),
        from)

MayExchange(s, from, d, x) ==
    LET n == ItemCount(s, d.item)
    IN  /\ QueryAdd(s, from, IndexIn(s, from, x), d.item, n) = "ok"
        /\ QueryMaxCount(s, from, INDEX_WHEREEVER, d.item, n) # 0

\* What is left of x after a merge, for a stack in a stack of its own.
AddRest(s, d, x, n) ==
    IF n = 0 THEN s
    ELSE IF x \notin Stack THEN AddThing(s, d.to, d.index, x)
    ELSE AddThing([s EXCEPT !.count[Fresh(s)] = n], d.to, d.index, Fresh(s))

\* Mutant: merges more than there is room for.
MergingAll(s, d, x, n) == IF Equals(x, d.item) THEN n ELSE 0

\* How many pieces go to the stack that is there.
Merging(s, d, x, n) == IF Equals(x, d.item) THEN Min({RoomIn(s, d.item), n}) ELSE 0

\* The move of m pieces, or of a thing: remove, add to the stack that is there, and add the rest.
MovedPieces(s, from, d, x, m) ==
    LET merged == Merging(s, d, x, m)
        removed == RemoveThing(s, from, x, m)
        updated == IF merged = 0 THEN removed
                   ELSE UpdateThing(removed, d.to, d.item, removed.count[d.item] + merged)
    IN  PostAddNotification(PostRemoveNotification(AddRest(updated, d, x, m - merged), from, x), d.to)

Moved(s, from, d, x, n) ==
    LET most == QueryMaxCount(s, d.to, d.index, x, n)
    IN  IF most = 0 THEN s
        ELSE MovedPieces(s, from, d, x, IF x \in Stack THEN Min({n, most}) ELSE 1)

MoveTo(s, from, d, x, n) ==
    LET answer == QueryAdd(s, d.to, d.index, x, n)
        swapped == Exchange(s, from, d)
    IN  IF d.item = x \/ answer = "error" THEN s
        ELSE IF answer = "ok" THEN Moved(s, from, d, x, n)
        ELSE IF ~MayExchange(s, from, d, x) THEN s
        ELSE IF QueryAdd(swapped, d.to, d.index, x, n) # "ok" THEN swapped
        ELSE Moved(swapped, from, [d EXCEPT !.item = None], x, n)

InternalMoveItem(s, from, to, i, x, n) == MoveTo(s, from, Settled(s, to, i, x), x, n)

-----------------------------------------------------------------------------
(* Game::internalAddItem and internalRemoveItem.                           *)

\* n pieces x, which are not anywhere yet, to d: refused, or put there, or partly merged with a
\* stack, and the rest left for a round of its own.
AddPieces(s, to, d, x, n) ==
    LET new == [s EXCEPT !.count[x] = n]
        merged == Merging(s, d, x, n)
        updated == UpdateThing(s, d.to, d.item, s.count[d.item] + merged)
    IN  IF \/ QueryAdd(new, d.to, d.index, x, n) # "ok"
           \/ QueryMaxCount(new, to, INDEX_WHEREEVER, x, n) < n
        THEN [state |-> s, left |-> n, ok |-> FALSE]
        ELSE IF merged = 0
        THEN [state |-> PostAddNotification(AddThing(new, d.to, d.index, x), d.to), left |-> 0, ok |-> TRUE]
        ELSE [state |-> IF merged = n THEN PostAddNotification(updated, d.to) ELSE updated,
              left |-> n - merged, ok |-> TRUE]

AddRound(s, to, x, n) ==
    AddPieces(s, to, QueryDestination([s EXCEPT !.count[x] = n], Destination(to, INDEX_WHEREEVER, None), x), x, n)

NextRound(i, a) == [state |-> a.state, left |-> a.left, round |-> IF a.ok THEN i ELSE i - 1]

\* The caller learns what the second round could not put (remainderCount) and that the first was
\* refused; what a later one could not put is forgotten.
Remainder(r) == [state |-> r.state, left |-> IF r.round < 2 THEN r.left ELSE 0]

\* The rounds one in the other.
InternalAddItem(s, to, n) ==
    LET rounds[i \in 0..(Cardinality(Stack) + 1)] ==
            IF i = 0 THEN [state |-> s, left |-> n, round |-> 0]
            ELSE LET r == rounds[i - 1]
                 IN  IF r.left = 0 \/ r.round # i - 1 THEN r
                     ELSE NextRound(i, AddRound(r.state, to, Fresh(r.state), r.left))
    IN  Remainder(rounds[Cardinality(Stack) + 1])

\* Game::internalPlayerAddItem: what the player cannot take falls to the ground.
DropRest(r, t) == IF r.left = 0 THEN r.state ELSE InternalAddItem(r.state, t, r.left).state

InternalPlayerAddItem(s, p, n) == DropRest(InternalAddItem(s, p, n), s.position[p])

InternalRemoveItem(s, x, n) ==
    PostRemoveNotification(RemoveThing(s, s.parent[x], x, n), s.parent[x], x)

-----------------------------------------------------------------------------
(* What players and scripts do.                                            *)

\* Where a player can take from: the ground it stands on, what it wears, what it has opened.
Reaches(p) == {position[p], p} \cup openContainers[p]

\* Of the ground it can take what is on top.
Takes(p) ==
    {x \in Thing : /\ parent[x] \in Reaches(p)
                   /\ parent[x] \in Tile => x = Head(itemlist[parent[x]])}

AnotherStack == \E y \in Stack : parent[y] = None

Indexes(c) ==
    IF c \in Tile THEN {0}
    ELSE IF c \in Player THEN Slot \cup {CAPACITY_WINDOW}
    ELSE (0..Capacity) \cup {MOVE_UP}

\* Game::playerMoveItem, which a walk to the thing or a delay may precede: positions and not
\* things are kept meanwhile, so that it is as if the player had asked then.  A stack is divided
\* only if the bound leaves another.
PlayerMoveItem(p) ==
    /\ \E x \in Takes(p), to \in Tile \cup {p} \cup openContainers[p] :
           \E i \in Indexes(to), n \in 1..ItemCount(Now, x) :
               /\ n = ItemCount(Now, x) \/ AnotherStack
               /\ LET s == InternalMoveItem(Now, parent[x], to, i, x, n)
                  IN  s # Now /\ Become(s)
    /\ UNCHANGED made

\* Using a container opens it, or closes it if it was open.
UseContainer(p, c) ==
    /\ parent[c] \in Reaches(p)
    /\ openContainers' = [openContainers EXCEPT ![p] =
                              IF c \in @ THEN @ \ {c}
                              ELSE IF Cardinality(@) < Windows THEN @ \cup {c} ELSE @]
    /\ UNCHANGED <<parent, count, itemlist, inventory, totalWeight, inventoryWeight, position, made>>

\* Game::playerMoveUpContainer: the window shows the container that this one is in.
PlayerMoveUpContainer(p, c) ==
    /\ c \in openContainers[p]
    /\ parent[c] \in Container
    /\ openContainers' = [openContainers EXCEPT ![p] = (@ \ {c}) \cup {parent[c]}]
    /\ UNCHANGED <<parent, count, itemlist, inventory, totalWeight, inventoryWeight, position, made>>

\* The player is on another tile, and Player::postAddNotification closes what is out of reach.
Walk(p, t) ==
    /\ t # position[p]
    /\ LET s == [Now EXCEPT !.position[p] = t]
           far == {c \in openContainers[p] : TileOf(s, c) # t}
       IN  Become([s EXCEPT !.openContainers[p] = {c \in @ : \A b \in far : c \in AutoCloseContainers(s, p, b)}])
    /\ UNCHANGED made

\* Scripts give and take pieces.
Give(p, n) ==
    /\ made + n <= MaxMade /\ AnotherStack
    /\ Become(InternalPlayerAddItem(Now, p, n))
    /\ made' = made + n

Take(x, n) ==
    /\ parent[x] # None
    /\ Become(InternalRemoveItem(Now, x, n))
    /\ made' = made - n

Next ==
    \/ \E p \in Player :
          \/ PlayerMoveItem(p)
          \/ \E c \in Container : UseContainer(p, c) \/ PlayerMoveUpContainer(p, c)
          \/ \E t \in Tile : Walk(p, t)
          \/ \E n \in 1..Full : Give(p, n)
    \/ \E x \in Stack : \E n \in 1..count[x] : Take(x, n)

Spec == Init /\ [][Next]_vars

-----------------------------------------------------------------------------

TypeOK ==
    /\ parent \in [Thing -> Container \cup Tile \cup Player \cup {None}]
    /\ count \in [Stack -> 0..Full]
    /\ itemlist \in [Container \cup Tile -> Seq(Thing)]
    /\ inventory \in [Player -> [Slot -> Thing \cup {None}]]
    /\ totalWeight \in [Container -> Nat] /\ inventoryWeight \in [Player -> Nat]
    /\ openContainers \in [Player -> SUBSET Container]
    /\ position \in [Player -> Tile] /\ made \in Nat

\* A thing is exactly where its parent says, once, and following parents leads to a player or a
\* tile: moves by handlers of different cylinders keep the two sides of the tree equal.
ParentsAgree ==
    /\ \A c \in Container \cup Tile :
           /\ ToSet(itemlist[c]) = {x \in Thing : parent[x] = c}
           /\ Cardinality(ToSet(itemlist[c])) = Len(itemlist[c])
    /\ \A p \in Player :
           /\ {inventory[p][i] : i \in Slot} \ {None} = {x \in Thing : parent[x] = p}
           /\ \A i, j \in Slot : inventory[p][i] = inventory[p][j] => i = j \/ inventory[p][i] = None
    /\ \A c \in Container : Chain(Now, c) \cap (Tile \cup Player) # {}

\* Nothing is lost or doubled: what a move splits, merges or exchanges is all there afterwards, and
\* of what scripts give, what does not fit is on the ground.
NothingLost ==
    /\ \A x \in Container \cup Plain : parent[x] # None
    /\ \A x \in Stack : parent[x] # None => count[x] \in 1..Full
    /\ made = SumFunction([x \in Stack |-> IF parent[x] = None THEN 0 ELSE count[x]])

\* The weights that are kept are those of what is there, at every depth, and nobody carries more
\* than it can: the checks before a move see what the move leads to.
WeightsAgree ==
    /\ \A c \in Container :
           totalWeight[c] = SumFunction([x \in ToSet(itemlist[c]) |-> GetWeight(Now, x)])
    /\ \A p \in Player :
           /\ inventoryWeight[p] = UpdateInventoryWeight(Now, p).inventoryWeight[p]
           /\ inventoryWeight[p] <= Strength[p]

\* No container is filled beyond its size, and nobody wears a weapon for two hands and something in
\* the other hand, a bow and its quiver apart: exchanges and moves from hand to hand included.
FitsWhereItIs ==
    /\ \A c \in Container : Len(itemlist[c]) <= Capacity
    /\ \A p \in Player :
           LET right == inventory[p][CONST_SLOT_RIGHT]
               left == inventory[p][CONST_SLOT_LEFT]
           IN  {right, left} \cap TwoHanded # {} => None \in {right, left} \/ Bow(left, right)

\* Whatever a player has open it can reach: it carries it or stands where it lies, however the
\* container or what it is in was moved, and by whom.
OpenInReach ==
    \A p \in Player : \A c \in openContainers[p] :
        /\ TileOf(Now, c) = position[p]
        /\ HoldingPlayer(Now, c) \in {p, None}
=============================================================================
