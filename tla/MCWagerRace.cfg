\* The entity's comment on STAKED, with an accept overlapping the expiry sweep.
SPECIFICATION Spec
CONSTANTS
    Match = m
    NoSession = nosession
    NoRow = norow
    ScorePairs <- Scores
    UserSlots = {r1}
    JobSlots = {j1}
    KeyStores = {TRUE}
    MaxOffers = 0
    MaxCrashes = 0
    MaxAttempts = 1
    Deadlines = {"invitation"}
INVARIANTS StakedMeansFunded
CHECK_DEADLOCK FALSE
