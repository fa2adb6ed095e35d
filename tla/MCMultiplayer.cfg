SPECIFICATION Spec
CONSTANTS
  u1 = u1  u2 = u2  k1 = k1
  Users = {u1, u2}
  Rooms = {r1}
  Sessions = {s1}
  Sockets = {k1}
  Owner <- MCOwner
  Writers = {q1, q2}
  Codes = {c1, c2}
  TakenCodes = {c2}
  MaxAttempts = 2
  Scores = {0, 100}
  MaxPlayers = 1
  Instances = {i1}
  MaxCrashes = 1
  MaxRequests = 4
  NoUser = NoUser  NoRoom = NoRoom  NoRow = NoRow  NoOne = NoOne  NoSave = NoSave
INVARIANT RoomCapHeld
INVARIANT GuessScoredOnce
INVARIANT AnnouncedIsCommitted
PROPERTY EventsReachPlayers
PROPERTY ClosedRoomIsFinal
PROPERTY ExpiredRoomsClose
CHECK_DEADLOCK FALSE
