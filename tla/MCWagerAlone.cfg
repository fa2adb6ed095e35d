\* Both kinds of deployment; one request or sweep at a time, restarts and late transactions.
SPECIFICATION Spec
CONSTANTS
    Match = m
    NoSession = nosession
    NoRow = norow
    ScorePairs <- Scores
    MaxAttempts = 2
    UserSlots = {r1}
    JobSlots = {r1}
    KeyStores = {TRUE, FALSE}
    MaxOffers = 2
    MaxCrashes = 1
    Deadlines = {"invitation", "stake", "claim"}
INVARIANTS TypeOK RowMatchesLedger
CHECK_DEADLOCK FALSE
