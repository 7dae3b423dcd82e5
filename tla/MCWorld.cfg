CONSTANTS
    knight = knight
    rat = rat
    bat = bat
    cat = cat
    here = here
    there = there
    None = None
    Player <- MCPlayer
    Monster <- MCMonster
    Creature <- MCCreature
    Place <- MCPlace
    Block <- MCBlock
    Home <- MCHome
    MaxCreatureThinkSlots = 2
    RemoveOnDespawn = TRUE
    MaxSummons = 1
SPECIFICATION Spec
SYMMETRY MCSymmetry
INVARIANTS
    SeenPlayersHunted
    PreyInSight
    MissingIsChecked
