SPECIFICATION Spec
CONSTANTS
    P1 = P1
    P2 = P2
    Here = Here
    There = There
    Bag = Bag
    Pouch = Pouch
    Axe = Axe
    C1 = C1
    C2 = C2
    None = None
    Player = {P1, P2}
    Tile = {Here, There}
    Container = {Bag, Pouch}
    Plain = {Axe}
    Stack = {C1, C2}
    TwoHanded = {Axe}
    WeaponType <- MCWeaponType
    Weight <- MCWeight
    Capacity = 2
    Full = 2
    Strength <- MCStrength
    Slot <- MCSlot
    ClassicEquipmentSlots = TRUE
    Windows = 1
    MaxMade = 3
    Begin = Here
SYMMETRY Symmetry
INVARIANTS
    ParentsAgree
    NothingLost
    WeightsAgree
    FitsWhereItIs
    OpenInReach
