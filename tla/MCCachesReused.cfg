SPECIFICATION Spec
CONSTANTS
  Requests = {q1, q2}
  Processes = {p1, p2}
  LyricsTtl = 2
  BriefTtl = 2
  ChallengeTimeout = 2
  Grace = 2
  MaxWrites = 3
  MaxGames = 1
INVARIANT FreshLyric
CHECK_DEADLOCK FALSE
