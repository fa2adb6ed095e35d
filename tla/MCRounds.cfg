\* A round, two requests and a socket; ages as small as the order of the limits allows.
SPECIFICATION Spec
CONSTANTS
    RoundIds = {r1}
    Slots = {q1, q2}
    Sockets = {s1}
    Window = 2
    Timeout = 3
    Seen = 5
    Retention = 5
    MaxDelay = 1
    MaxClock = 7
    NoRound = noround
SYMMETRY Alike
INVARIANTS ScoredOnce GuessedRoundsKept AnnouncedIsClosed
CHECK_DEADLOCK FALSE
