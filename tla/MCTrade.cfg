CONSTANTS
    ann = ann
    bob = bob
    cid = cid
    bag = bag
    pouch = pouch
    coin1 = coin1
    coin2 = coin2
    Ground = Ground
    None = None
    Player <- MCPlayer
    Item <- MCItem
    Container <- MCContainer
    Stackable <- MCStackable
    Room <- MCRoom
SPECIFICATION Spec
INVARIANTS
    TradesAgree
PROPERTIES
    OfferStands
    ExchangeAllOrNothing
SYMMETRY MCSymmetry
CHECK_DEADLOCK FALSE
