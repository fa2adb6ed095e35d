\* One request overlapping one sweep at every await, and one restart.
SPECIFICATION FairSpec
CONSTANTS
    Match = m
    NoSession = nosession
    NoRow = norow
    ScorePairs <- Scores
    UserSlots = {r1}
    JobSlots = {j1}
    KeyStores = {TRUE}
    MaxOffers = 0
    MaxCrashes = 1
    MaxAttempts = 2
    Deadlines = {"invitation"}
INVARIANTS FinalMeansSettled PaidAsDecided
PROPERTIES SettlingEnds
CHECK_DEADLOCK FALSE
