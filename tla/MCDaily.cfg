SPECIFICATION Spec
CONSTANTS
  Lyrics = {l1, l2, l3}
  Requests = {q1, q2}
  Processes = {p1, p2}
  Size = 2
  Retention = 0
  StartActive <- OneDown
  MaxDays = 2
  MaxChanges = 1
  MaxCrashes = 1
SYMMETRY Alike
INVARIANTS DailySetShared AttemptsAreOfTheDay CompletionNotified
PROPERTY UnreadKept
