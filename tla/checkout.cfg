SPECIFICATION FairCheckoutSpec
CONSTANTS
    t1 = t1
    t2 = t2
    Tabs = {t1, t2}
    Intents = {i1, i2}
    NoIntent = NoIntent
    MaxAttempts = 2
    MaxVisits <- MCMaxVisits
INVARIANTS
    ChargedOnce
PROPERTIES
    PollingEnds
CHECK_DEADLOCK FALSE
