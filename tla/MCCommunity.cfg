CONSTANTS
    ann = ann
    bob = bob
    cid = cid
    guild1 = guild1
    guild2 = guild2
    help = help
    None = None
    Player <- MCPlayer
    Premium <- MCPlayer
    Guilds <- MCGuilds
    Ranked <- MCRanked
    Slots <- MCSlots
    Normal <- MCNormal
    MaximumPartySize = 2
    MaximumInviteCount = 1
    MaxParties = 2
    MaxActive = 3
SPECIFICATION Spec
SYMMETRY MCSymmetry
INVARIANTS
    PartiesAgree
    ListenersPresent
 
