-------------------------------- MODULE Trade --------------------------------
(***************************************************************************)
(* The trade between two players: playerRequestTrade, internalStartTrade,  *)
(* playerAcceptTrade and internalCloseTrade in src/src/game.cpp, and the   *)
(* closing of a trade when an item of an offer moves, in                   *)
(* src/src/player.cpp.  The dispatcher runs one operation at a time; the   *)
(* trade spans many.                                                       *)
(*                                                                         *)
(* An inventory is abstracted to a number of places, wherever they are:    *)
(* `parent' says which player, container or tile an item lies in.  Weight, *)
(* slots, distance and scripts may refuse a request or an exchange, which  *)
(* is a choice here.  The items of Stackable are all of one kind: they     *)
(* equal each other and merge.                                             *)
(***************************************************************************)
EXTENDS Traders, Integers, FiniteSets

CONSTANTS
    Item,
    Container,  \* the items that hold items
    Stackable,  \* those that merge
    Room,       \* Room[h]: the places of a player or a container
    Ground      \* the tile the players stand around

ASSUME FiniteAssumption == IsFiniteSet(Item)
ASSUME ItemAssumption == Container \subseteq Item /\ Stackable \subseteq Item \ Container
ASSUME RoomAssumption == Room \in [Player \cup Container -> Nat]
ASSUME NoneAssumption == None \notin Player \cup Item
ASSUME HolderAssumption == Player \cap Item = {} /\ Ground \notin Player \cup Item

VARIABLES
    online,     \* the players in the game
    state,      \* Player::tradeState
    partner,    \* Player::tradePartner
    tradeItem,  \* Player::tradeItem
    tradeItems, \* Game::tradeItems: the items on offer
    parent      \* parent[i]: the holder of i

trades == <<state, partner, tradeItem, tradeItems>>
vars == <<online, trades, parent>>

Holder == Player \cup Container \cup {Ground}

\* TRANSFER is the state of both players during the exchange, never afterwards.
TypeOK ==
    /\ online \in SUBSET Player
    /\ state \in [Player -> {"NONE", "INITIATED", "ACCEPT", "ACKNOWLEDGE"}]
    /\ partner \in [Player -> Player \cup {None}]
    /\ tradeItem \in [Player -> Item \cup {None}]
    /\ tradeItems \in SUBSET Item
    /\ parent \in [Item -> Holder]

\* What h lies in, if that is a container.
Around(par, h) == IF h \in Item THEN {par[h]} \cap Container ELSE {}

\* The containers around h: those in every set that is closed upwards from it.
AboveIn(par, h) ==
    {c \in Container :
        \A S \in SUBSET Container :
            Around(par, h) \subseteq S /\ (\A x \in S : Around(par, x) \subseteq S) => c \in S}
Above(h) == AboveIn(parent, h)

Inside(par, c) == {j \in Item : c \in AboveIn(par, j)}

\* The player who has i, or the ground.
Top(par, i) ==
    CHOOSE h \in Player \cup {Ground} :
        \/ par[i] = h
        \/ \E c \in AboveIn(par, i) : par[c] = h

Free(par, h) == h # Ground => Cardinality({j \in Item : par[j] = h}) < Room[h]

\* Item::equals
Equals(i, j) == i = j \/ {i, j} \subseteq Stackable
\* Container::isHoldingItem compares by equality.
Holds(c, i) == \E j \in Inside(parent, c) : Equals(i, j)

Init ==
    /\ online = Player
    /\ state = [p \in Player |-> "NONE"]
    /\ partner = [p \in Player |-> None]
    /\ tradeItem = [p \in Player |-> None]
    /\ tradeItems = {}
    /\ parent \in [Item -> Holder]
    /\ \A c \in Container : parent[c] \notin Container
    /\ \A h \in Player \cup Container : Cardinality({j \in Item : parent[j] = h}) <= Room[h]

-----------------------------------------------------------------------------

\* The players in S are not trading any more.
Ended(S) ==
    /\ state' = [p \in Player |-> IF p \in S THEN "NONE" ELSE state[p]]
    /\ partner' = [p \in Player |-> IF p \in S THEN None ELSE partner[p]]
    /\ tradeItem' = [p \in Player |-> IF p \in S THEN None ELSE tradeItem[p]]
    /\ tradeItems' = tradeItems \ {tradeItem[p] : p \in S}

\* internalCloseTrade of each player in S closes its partner's side as well.
WithPartners(S) == S \cup ({partner[p] : p \in S} \ {None})

CloseTrade(S) == Ended(WithPartners(S))

\* Mutant: what moves within the offered container is not looked at.
DisturbedItself(i, to) ==
    {p \in Player : tradeItem[p] # None /\ (tradeItem[p] = i \/ i \in Above(tradeItem[p]))}
\* The players whose trade is closed when i leaves its holder for `to': the item
\* offered moves, or what it is in or what is in it.  Removing something from a
\* container closes the trade of an item deeper in it too.
Disturbed(i, to) ==
    {p \in Player :
        LET t == tradeItem[p] IN
        /\ t # None
        /\ \/ t = i
           \/ t \in Above(i)
           \/ t = to \/ t \in Above(to)
           \/ /\ parent[i] \in {p, Ground}
              /\ i \in Container /\ Holds(i, t)
           \/ /\ parent[i] \in Container
              /\ parent[t] # parent[i] /\ Holds(parent[i], t)}

-----------------------------------------------------------------------------
(* Requests.                                                               *)

\* The item is neither on offer, nor in or around one that is.
NotYetOffered(i) ==
    \A t \in tradeItems :
        /\ i # t
        /\ i \in Container => ~Holds(i, t)
        /\ t \in Container => ~Holds(t, i)

MayStart(p, q) ==
    /\ state[p] = "NONE" \/ (state[p] = "ACKNOWLEDGE" /\ partner[p] = q)
    /\ state[q] = "NONE" \/ partner[q] = p

\* internalStartTrade
StartTrade(p, q, i) ==
    /\ MayStart(p, q)
    /\ tradeItem' = [tradeItem EXCEPT ![p] = i]
    /\ tradeItems' = tradeItems \cup {i}
    /\ IF state[q] = "NONE"
       THEN /\ state' = [state EXCEPT ![p] = "INITIATED", ![q] = "ACKNOWLEDGE"]
            /\ partner' = [partner EXCEPT ![p] = q, ![q] = p]
       ELSE /\ state' = [state EXCEPT ![p] = "INITIATED"]
            /\ partner' = [partner EXCEPT ![p] = q]

RequestTrade(p, q, i) ==
    /\ {p, q} \subseteq online /\ p # q
    /\ Top(parent, i) \in {p, Ground}
    /\ NotYetOffered(i)
    /\ StartTrade(p, q, i)
    /\ UNCHANGED <<online, parent>>

-----------------------------------------------------------------------------
(* The exchange.                                                           *)

\* Where queryDestination looks for a place for an item p is given: anywhere but
\* in the item p offers.
Places(par, p) ==
    {h \in {p} \cup {c \in Container \ {tradeItem[p]} :
                        Top(par, c) = p /\ tradeItem[p] \notin AboveIn(par, c)} : Free(par, h)}

\* Mutant: nobody tests whether there is a place.
FitsAlways(p, i) == TRUE
\* internalAddItem(..., test): a place, or a stack to merge with.
Fits(p, i) ==
    \/ Places(parent, p) # {}
    \/ /\ i \in Stackable
       /\ \E j \in Stackable : Top(parent, j) = p /\ j # tradeItem[p]

\* internalMoveItem of i, without merging, to p: the holders after it.
Given(par, i, p) == {[par EXCEPT ![i] = h] : h \in Places(par, p)}

\* What the exchange of a trade that p accepts last may do to the items: the
\* first move fails and nothing has happened, or whatever comes of the second.
Exchanged(p, q) ==
    LET a == tradeItem[p]
        b == tradeItem[q]
        Second(par) == IF Given(par, b, p) = {} THEN {par} ELSE Given(par, b, p)
    IN  IF a # None /\ b # None /\ Fits(q, a) /\ Fits(p, b)
        THEN IF Given(parent, a, q) = {} THEN {parent}
             ELSE UNION {Second(par) : par \in Given(parent, a, q)}
        ELSE {parent}

\* Both have accepted: the items change hands, unless somebody refuses; then the
\* trade is over either way.  Others may have offered what the moves disturb.
\* If only one of them has offered anything, internalAddItem refuses the missing
\* item; but if that one offers the backpack it wears, the code reads the id of the
\* missing item first (game.cpp:2973, 2977).  That is undefined and as a rule ends
\* the server: such a run stops where this one ends the trade.
Exchange(p, q) ==
    /\ parent' \in {parent} \cup Exchanged(p, q)
    /\ LET moved == {i \in Item : parent'[i] # parent[i]}
           others == (UNION {Disturbed(i, parent'[i]) : i \in moved}) \ {p, q}
       IN  Ended({p, q} \cup WithPartners(others))

AcceptTrade(p) ==
    /\ p \in online
    /\ state[p] \in {"ACKNOWLEDGE", "INITIATED"}
    /\ partner[p] # None
    /\ \/ /\ state[partner[p]] # "ACCEPT"
          /\ state' = [state EXCEPT ![p] = "ACCEPT"]
          /\ UNCHANGED <<partner, tradeItem, tradeItems, parent>>
       \/ /\ state[partner[p]] = "ACCEPT"
          /\ Exchange(p, partner[p])
    /\ UNCHANGED online

-----------------------------------------------------------------------------
(* What else happens.                                                      *)

\* The player closes the trade or walks away from its partner or its item.
PlayerCloseTrade(p) ==
    /\ state[p] # "NONE"
    /\ CloseTrade({p})
    /\ UNCHANGED <<online, parent>>

\* Mutant: leaving the game closes no trade.
LeaveSilently(p) ==
    /\ p \in online
    /\ online' = online \ {p}
    /\ UNCHANGED <<trades, parent>>
\* Player::onRemoveCreature
Leave(p) ==
    /\ p \in online
    /\ online' = online \ {p}
    /\ CloseTrade({p})
    /\ UNCHANGED parent

\* A player moves an item, its own or one on the ground, elsewhere.
MoveItem(p, i, to) ==
    /\ p \in online
    /\ Top(parent, i) \in {p, Ground}
    /\ to \in {p, Ground} \/ (to \in Container /\ Top(parent, to) \in {p, Ground})
    /\ to # parent[i] /\ to # i /\ i \notin Above(to)
    /\ Free(parent, to)
    /\ parent' = [parent EXCEPT ![i] = to]
    /\ CloseTrade(Disturbed(i, to))
    /\ UNCHANGED online

Next ==
    \/ \E p, q \in Player, i \in Item : RequestTrade(p, q, i)
    \/ \E p \in Player : AcceptTrade(p) \/ PlayerCloseTrade(p) \/ Leave(p)
    \/ \E p \in Player, i \in Item, to \in Holder : MoveItem(p, i, to)

Spec == Init /\ [][Next]_vars

-----------------------------------------------------------------------------
(* Properties.                                                             *)

\* However requests, moves and departures of several players mix, whoever trades
\* has a partner in the game who trades with it, the registry lists exactly the
\* items offered, and none of them is, or lies in, another one's.
TradesAgree ==
    /\ \A p \in Player :
        /\ state[p] = "NONE" <=> partner[p] = None
        /\ partner[p] # None => p \in online /\ partner[partner[p]] = p
        /\ state[p] = "INITIATED" => tradeItem[p] # None
        /\ tradeItem[p] # None => state[p] \in {"INITIATED", "ACCEPT"}
    /\ tradeItems = {tradeItem[p] : p \in Player} \ {None}
    /\ \A p, q \in Player : p # q /\ tradeItem[p] # None /\ tradeItem[q] # None =>
        tradeItem[p] # tradeItem[q] /\ tradeItem[p] \notin Above(tradeItem[q])

\* Once a player has accepted what the partner offers, the offer stands, down to
\* the contents of a bag, until the trade is over.
OfferStands ==
    [][\A p \in Player :
           LET q == partner[p]
               i == tradeItem[q]
           IN  state[p] = "ACCEPT" /\ i # None =>
                  \/ state'[p] = "NONE"
                  \/ /\ tradeItem'[q] = i
                     /\ parent'[i] = parent[i]
                     /\ Inside(parent', i) = Inside(parent, i)]_vars

\* A trade exchanges both items or none.  That is, unless the last to accept
\* receives an item that stacks: it is tested with merging, but moved without,
\* and the failure of the second move is not looked at.
ExchangeAllOrNothing ==
    [][\A p \in Player :
           LET q == partner[p]
               a == tradeItem[p]
               b == tradeItem[q]
           IN  AcceptTrade(p) /\ b \notin Stackable =>
                  \/ parent' = parent
                  \/ /\ Top(parent', a) = q
                     /\ Top(parent', b) = p
                     /\ \A i \in Item \ {a, b} : parent'[i] = parent[i]]_vars

=============================================================================
