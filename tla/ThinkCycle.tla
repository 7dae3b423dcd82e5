------------------------------ MODULE ThinkCycle ------------------------------
(***************************************************************************)
(* Who thinks when: addCreatureCheck, removeCreatureCheck and              *)
(* creature_think_cycle of src/src/game.cpp.  Each second the creatures of *)
(* every slot think once.  Whether a creature is in a slot is kept twice,  *)
(* by the slot's list and by the creature's flag inCheckCreaturesVector:   *)
(* one that is flagged without being listed never thinks again.            *)
(***************************************************************************)
EXTENDS Integers, FiniteSets

CONSTANTS
    Creature,
    MaxCreatureThinkSlots   \* 20 in the code

ASSUME ThinkCycleAssumption == MaxCreatureThinkSlots \in Nat \ {0, 1}

Slot == 0..MaxCreatureThinkSlots - 1
NoCycle == MaxCreatureThinkSlots
\* A new creature goes to one of these at random.
NewSlot == 1..(MaxCreatureThinkSlots \div 2)

VARIABLES
    creatureCheck,  \* the creatures that are to think
    listed,         \* those whose inCheckCreaturesVector is set
    slots,          \* slots_
    current,        \* current_slot_
    cycle,          \* the slot creature_think_cycle is at, or NoCycle
    visited,        \* its creatures that have had their turn
    draw            \* draw[c]: the slot that normal_random has for c, should it be new

thinkVars == <<creatureCheck, listed, slots, current, cycle, visited, draw>>

ThinkInit ==
    /\ creatureCheck = {}
    /\ listed = {}
    /\ slots = [k \in Slot |-> {}]
    /\ current = 0
    /\ cycle = NoCycle
    /\ visited = {}
    /\ draw \in [Creature -> NewSlot]

Scheduled(c) == c \in creatureCheck /\ c \in UNION {slots[k] : k \in Slot}

\* What is done to the creatures of C in a state s of the world.
AddCreatureCheck(s, C) ==
    LET fresh(k) == {c \in C \ s.listed :
                        k = IF c \in s.creatureCheck THEN (s.current + 1) % MaxCreatureThinkSlots
                            ELSE s.draw[c]}
    IN  [s EXCEPT !.creatureCheck = @ \cup C,
                  !.listed = @ \cup C,
                  !.slots = [k \in Slot |-> @[k] \cup fresh(k)]]

RemoveCreatureCheck(s, C) == [s EXCEPT !.creatureCheck = @ \ (C \cap s.listed)]

StartCycle ==
    /\ cycle = NoCycle
    /\ cycle' = current
    /\ visited' = {}
    /\ current' = (current + 1) % MaxCreatureThinkSlots
    /\ UNCHANGED <<creatureCheck, listed, slots, draw>>

\* A creature of the slot has its turn; whether it thinks the filters say then.
Visit(c) ==
    /\ cycle # NoCycle
    /\ c \in slots[cycle] \ visited
    /\ visited' = visited \cup {c}
    /\ UNCHANGED <<current, cycle>>

\* Mutant: a creature that left the slot still counts as listed.
EndCycleListed ==
    /\ cycle # NoCycle
    /\ slots[cycle] \subseteq visited
    /\ slots' = [slots EXCEPT ![cycle] = @ \cap creatureCheck]
    /\ cycle' = NoCycle
    /\ visited' = {}
    /\ UNCHANGED <<creatureCheck, listed, current, draw>>
EndCycle ==
    /\ cycle # NoCycle
    /\ slots[cycle] \subseteq visited
    /\ slots' = [slots EXCEPT ![cycle] = @ \cap creatureCheck]
    /\ listed' = listed \ (slots[cycle] \ creatureCheck)
    /\ cycle' = NoCycle
    /\ visited' = {}
    /\ UNCHANGED <<creatureCheck, current, draw>>
=============================================================================
