CONSTANTS
    knight = knight
    thief = thief
    None = None
    Player <- MCPlayer
    Account <- MCAccount
    Wealth <- MCWealth
    Amount <- MCAmount
    Price = 1
    MaxOffers = 2
    MaxChecks = 2
SPECIFICATION MarketSpec
PROPERTIES
    Balanced
    OffersEnd
CHECK_DEADLOCK FALSE
