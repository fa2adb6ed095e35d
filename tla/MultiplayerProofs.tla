------------------------- MODULE MultiplayerProofs --------------------------
(***************************************************************************)
(* The safety properties of Multiplayer for any number of users, rooms,    *)
(* sessions, sockets, handlers and instances, and any cap.                 *)
(*                                                                         *)
(* Rooms.  A join past SELECT .. FOR UPDATE holds its room's row lock      *)
(* (Locked), and what it has counted stays true until it commits           *)
(* (PlaceKept).  A guess that won its claim is the only one at that row    *)
(* and has not been answered (Claimed, Sole).                              *)
(*                                                                         *)
(* Events.  What a query runner holds is the event of the row it writes    *)
(* (JoinPending, Saving), and is true once that row is committed           *)
(* (Truthful).  A save keeps the players it read, and nobody else saves a  *)
(* session that is not there yet.                                          *)
(***************************************************************************)
EXTENDS Multiplayer, FiniteSetTheorems, TLAPS

Request == {Idle} \cup
  [op : {"create", "join", "guess"},
   st : {"drawing", "checked", "absent", "adding", "inserted", "committed", "found", "claimed"},
   user : Users, room : Rooms, n : Nat]

RoomShape ==
  /\ room \in [Rooms -> RoomRows \cup {NoRoom}]
  /\ member \in [Rooms -> [Users -> RoomUserRows \cup {NoRow}]]
  /\ rowLock \in [Rooms -> Writers \cup {NoOne}]
  /\ req \in [Writers -> Request]
  /\ told \in [Rooms -> [Users -> Scores \cup {Untold}]]
  /\ wins \in [Rooms -> [Users -> Nat]]
  /\ job \in [Instances -> SUBSET Rooms]
  /\ \A i \in Instances : \A r \in job[i] : room[r] # NoRoom

Adding(r) == r.op = "join" /\ r.st \in {"adding", "inserted"}
Inserted(r) == r.op = "join" /\ r.st = "inserted"
Placed(r) == r.op = "join" /\ r.st = "committed"
Guessing(r) == r.op = "guess" /\ r.st \in {"found", "claimed"}
Claiming(r) == r.op = "guess" /\ r.st = "claimed"
Row(r) == member[r.room][r.user]

Locked == \A q \in Writers : Adding(req[q]) => rowLock[req[q].room] = q
Capped == \A r \in Rooms :
  IsFiniteSet(Members(r)) /\ Cardinality(Members(r)) <= MaxPlayers
PlaceKept == \A q \in Writers : Inserted(req[q]) =>
  Row(req[q]) = NoRow /\ Cardinality(Members(req[q].room)) < MaxPlayers
Claimed == \A q \in Writers :
  /\ Guessing(req[q]) => Row(req[q]) # NoRow
  /\ Claiming(req[q]) => /\ Row(req[q]).hasGuessed /\ req[q].n \in Scores
                         /\ wins[req[q].room][req[q].user] = 0
Sole == \A p, q \in Writers :
  Claiming(req[p]) /\ Claiming(req[q]) /\ req[p].room = req[q].room /\ req[p].user = req[q].user
    => p = q
Answered == \A r \in Rooms, u \in Users :
  /\ wins[r][u] <= 1
  /\ wins[r][u] = 0 => told[r][u] = Untold
  /\ wins[r][u] # 0 => member[r][u] # NoRow /\ member[r][u].hasGuessed
  /\ told[r][u] # Untold => member[r][u].score = told[r][u]

RoomsInv ==
  RoomShape /\ Locked /\ Capped /\ PlaceKept /\ Claimed /\ Sole /\ Answered

EventShape ==
  /\ sock \in [Sockets -> [st : {"verifying", "on", "off"}, chans : SUBSET Channels]]
  /\ pending \in [Writers -> SUBSET Events]
  /\ emitted \subseteq Events /\ repeated \subseteq Events
  /\ inbox \in [Sockets -> SUBSET Events]
  /\ session \in [Sessions -> SessionRows]
  /\ save \in [Writers -> Saves \cup {NoSave}]
  /\ reached \in [Sessions -> SUBSET {"in_progress", "completed"}]

Apart == \A p, q \in Writers : req[p] = Idle \/ save[q] = NoSave

\* What an event says of its room or session is committed.
Truthful(e) ==
  IF e.scope = "room" THEN \A u \in e.users : member[e.id][u] # NoRow
  ELSE /\ session[e.id].status # "none" /\ e.users \subseteq Players(session[e.id])
       /\ IF e.name = "completed"
          THEN "completed" \in reached[e.id] /\ Players(session[e.id]) \subseteq e.users
          ELSE \A u \in e.users : u = session[e.id].player \/ "in_progress" \in reached[e.id]

JoinOf(r) == Joined("room", r.room, r.user)
JoinPending == \A q \in Writers : save[q] = NoSave =>
  IF Inserted(req[q]) \/ Placed(req[q]) THEN pending[q] \subseteq {JoinOf(req[q])}
  ELSE pending[q] = {}
JoinOnce ==
  /\ \A q \in Writers : Placed(req[q]) => Row(req[q]) # NoRow /\ JoinOf(req[q]) \notin emitted
  /\ \A p, q \in Writers :
       Placed(req[p]) /\ Placed(req[q]) /\ req[p].room = req[q].room /\ req[p].user = req[q].user
         => p = q

\* A save on its way keeps the players of its row, or it is the only save of
\* a row that is not there yet.
Keeps(w, row) ==
  /\ w.entity.player = row.player /\ w.entity.playerTwoId = row.playerTwoId
  /\ w.before.status # "none"
Creates(q, w) ==
  /\ w.st # "read" /\ w.before.status = "none"
  /\ \A p \in Writers \ {q} : save[p] # NoSave => save[p].id # w.id
SavedBy(q, w) ==
  /\ w.entity.status # "none" /\ w.entity.player \in Users
  /\ w.st \in {"read", "select"} => pending[q] = {}
  /\ w.st = "write" => pending[q] \subseteq onSession(w.id, w.entity, w.before)
  /\ w.st = "committed" =>
       session[w.id].status # "none" /\ \A e \in pending[q] : e.scope = "session" /\ Truthful(e)
  /\ w.st # "committed" =>
       IF session[w.id].status = "none" THEN Creates(q, w) ELSE Keeps(w, session[w.id])
Saving == \A q \in Writers : \A w \in {save[q]} \ {NoSave} : SavedBy(q, w)

Sat == \A s \in Sessions :
  IF session[s].status = "none" THEN session[s].player = NoUser /\ session[s].playerTwoId = NoUser
  ELSE session[s].player \in Users

Emitted ==
  /\ \A e \in emitted : Truthful(e)
  /\ \A e \in repeated : e.scope = "session"

Listening == \A k \in Sockets : \A c \in sock[k].chans :
  /\ c.kind = "user" => c.id = Owner[k]
  /\ c.kind = "room" => isRoomMember(Owner[k], c.id)
  /\ c.kind = "session" => isSessionPlayer(Owner[k], c.id)

InboxFits == \A k \in Sockets : \A e \in inbox[k] :
  IF e.scope = "room" THEN isRoomMember(Owner[k], e.id) ELSE isSessionPlayer(Owner[k], e.id)

EventsInv ==
  /\ EventShape /\ Apart /\ JoinPending /\ JoinOnce /\ Saving /\ Sat
  /\ Emitted /\ Listening /\ InboxFits

-----------------------------------------------------------------------------
(* Requests and rows *)

LEMMA NoRoomIs == NoRoom \notin RoomRows
BY RoomsAssumption DEF RoomRows

LEMMA NoRowIs == NoRow \notin RoomUserRows
BY RoomsAssumption DEF RoomUserRows

LEMMA IdleIs == Idle \in Request /\ Idle.op = "idle" /\ Idle.st = "idle" /\ Idle.room = NoRoom
BY DEF Idle, Request

LEMMA BusyIs ==
    ASSUME NEW x \in Request, x.op # "idle"
    PROVE  /\ x # Idle /\ x.user \in Users /\ x.room \in Rooms /\ x.n \in Nat
           /\ x \in [op : {"create", "join", "guess"},
                st : {"drawing", "checked", "absent", "adding", "inserted", "committed", "found", "claimed"},
                user : Users, room : Rooms, n : Nat]
BY IdleIs DEF Request

LEMMA Moved ==
    ASSUME RoomShape, NEW q \in Writers, NEW x \in Request, req' = [req EXCEPT ![q] = x]
    PROVE  /\ req' \in [Writers -> Request]
           /\ req'[q] = x /\ \A p \in Writers \ {q} : req'[p] = req[p]
BY DEF RoomShape

LEMMA Rewritten ==
    ASSUME RoomShape, NEW r \in Rooms, NEW u \in Users, NEW row \in RoomUserRows,
           member' = [member EXCEPT ![r][u] = row]
    PROVE  /\ member' \in [Rooms -> [Users -> RoomUserRows \cup {NoRow}]]
           /\ member'[r][u] = row /\ row # NoRow
           /\ \A x \in Rooms, v \in Users : x # r \/ v # u => member'[x][v] = member[x][v]
           /\ \A x \in Rooms \ {r} : member'[x] = member[x]
<1>1. row # NoRow
  BY NoRowIs
<1>2. member' \in [Rooms -> [Users -> RoomUserRows \cup {NoRow}]]
  BY DEF RoomShape
<1> QED BY <1>1, <1>2 DEF RoomShape

(* A step that moves one request to where it neither adds a player nor has *)
(* a guess at a row, and touches no row of a member.                       *)
LEMMA HarmlessStep ==
    ASSUME RoomsInv, NEW q \in Writers, NEW x \in Request, req' = [req EXCEPT ![q] = x],
           ~Adding(x), ~Guessing(x),
           room' \in [Rooms -> RoomRows \cup {NoRoom}],
           \A r \in Rooms : room[r] # NoRoom => room'[r] # NoRoom,
           rowLock' \in [Rooms -> Writers \cup {NoOne}],
           \A p \in Writers \ {q} : Adding(req[p]) => rowLock'[req[p].room] = p,
           UNCHANGED <<member, told, wins, job>>
    PROVE  RoomsInv'
<1>1. /\ req' \in [Writers -> Request]
      /\ req'[q] = x /\ \A p \in Writers \ {q} : req'[p] = req[p]
  BY Moved DEF RoomsInv
<1>2. ~Inserted(x) /\ ~Claiming(x)
  BY DEF Adding, Inserted, Guessing, Claiming
<1>3. RoomShape'
  BY <1>1 DEF RoomsInv, RoomShape
<1>4. Locked'
  BY <1>1 DEF Locked, Adding
<1>5. Capped'
  BY DEF RoomsInv, Capped, Members
<1>6. PlaceKept'
  BY <1>1, <1>2 DEF RoomsInv, PlaceKept, Inserted, Row, Members
<1>7. Claimed'
  BY <1>1, <1>2 DEF RoomsInv, Claimed, Guessing, Claiming, Row
<1>8. Sole'
  BY <1>1, <1>2 DEF RoomsInv, Sole, Claiming
<1>9. Answered'
  BY DEF RoomsInv, Answered
<1> QED BY <1>3, <1>4, <1>5, <1>6, <1>7, <1>8, <1>9 DEF RoomsInv

LEMMA DoneStep ==
    ASSUME RoomsInv, NEW q \in Writers, Done(q),
           UNCHANGED <<room, rowLock, member, told, wins, job>>
    PROVE  RoomsInv'
<1>1. Idle \in Request /\ ~Adding(Idle) /\ ~Guessing(Idle)
  BY IdleIs DEF Adding, Guessing
<1>2. /\ rowLock \in [Rooms -> Writers \cup {NoOne}] /\ room \in [Rooms -> RoomRows \cup {NoRoom}]
      /\ \A p \in Writers : Adding(req[p]) => rowLock[req[p].room] = p
  BY DEF RoomsInv, RoomShape, Locked
<1> QED BY <1>1, <1>2, HarmlessStep DEF Done

(* A new request of any kind. *)
LEMMA NewRequest ==
    ASSUME RoomsInv, NEW q \in Writers, NEW x, x \in Request, ~Adding(x), ~Guessing(x),
           req' = [req EXCEPT ![q] = x], UNCHANGED <<room, rowLock, member, told, wins, job>>
    PROVE  RoomsInv'
<1>1. /\ rowLock \in [Rooms -> Writers \cup {NoOne}] /\ room \in [Rooms -> RoomRows \cup {NoRoom}]
      /\ \A p \in Writers : Adding(req[p]) => rowLock[req[p].room] = p
  BY DEF RoomsInv, RoomShape, Locked
<1> QED BY <1>1, HarmlessStep

LEMMA HandlerRooms ==
    ASSUME RoomsInv, NEW q \in Writers, NEW u \in Users, NEW r \in Rooms,
           create(q, u, r) \/ join(q, u, r) \/ submitGuess(q, u, r)
    PROVE  RoomsInv'
<1> DEFINE x(op, st) == [op |-> op, st |-> st, user |-> u, room |-> r, n |-> 0]
<1>1. UNCHANGED <<room, rowLock, member, told, wins, job>>
  BY DEF create, join, submitGuess
<1>2. CASE create(q, u, r)
  <2>1. /\ x("create", "drawing") \in Request /\ ~Adding(x("create", "drawing"))
        /\ ~Guessing(x("create", "drawing"))
    BY DEF Request, Adding, Guessing
  <2>2. req' = [req EXCEPT ![q] = x("create", "drawing")]
    BY <1>2 DEF create
  <2> HIDE DEF x
  <2> QED BY <1>1, <2>1, <2>2, NewRequest
<1>3. CASE join(q, u, r)
  <2>1. /\ x("join", "checked") \in Request /\ ~Adding(x("join", "checked"))
        /\ ~Guessing(x("join", "checked"))
    BY DEF Request, Adding, Guessing
  <2>2. req' = [req EXCEPT ![q] = x("join", "checked")]
    BY <1>3 DEF join
  <2> HIDE DEF x
  <2> QED BY <1>1, <2>1, <2>2, NewRequest
<1>4. CASE submitGuess(q, u, r)
  <2>1. /\ x("guess", "checked") \in Request /\ ~Adding(x("guess", "checked"))
        /\ ~Guessing(x("guess", "checked"))
    BY DEF Request, Adding, Guessing
  <2>2. req' = [req EXCEPT ![q] = x("guess", "checked")]
    BY <1>4 DEF submitGuess
  <2> HIDE DEF x
  <2> QED BY <1>1, <2>1, <2>2, NewRequest
<1> QED BY <1>2, <1>3, <1>4

LEMMA CreateSaveRooms ==
    ASSUME RoomsInv, NEW q \in Writers, NEW c \in Codes, createSave(q, c)
    PROVE  RoomsInv'
<1>1. req[q] \in Request /\ req[q].op = "create"
  BY DEF RoomsInv, RoomShape, createSave
<1>2. UNCHANGED <<rowLock, member, told, wins, job>>
  BY DEF createSave
<1>3. CASE UNCHANGED room /\ Done(q)
  BY <1>2, <1>3, DoneStep
<1>4. CASE UNCHANGED room /\ req' = [req EXCEPT ![q].n = @ + 1]
  <2> DEFINE x == [req[q] EXCEPT !.n = req[q].n + 1]
  <2>1. x \in Request /\ x.op = "create"
    BY <1>1, BusyIs DEF Request
  <2>2. req' = [req EXCEPT ![q] = x]
    BY <1>4 DEF RoomsInv, RoomShape
  <2> HIDE DEF x
  <2> QED BY <1>2, <1>4, <2>1, <2>2, NewRequest DEF Adding, Guessing
<1>5. CASE room' = [room EXCEPT ![req[q].room] = NewRoom(c)] /\ Done(q)
  <2>0. NewRoom(c) \in RoomRows
    BY DEF NewRoom, RoomRows
  <2>1. NewRoom(c) \in RoomRows /\ NewRoom(c) # NoRoom
    BY <2>0, NoRoomIs
  <2>2. /\ room' \in [Rooms -> RoomRows \cup {NoRoom}]
        /\ \A r \in Rooms : room[r] # NoRoom => room'[r] # NoRoom
    BY <1>5, <2>1 DEF RoomsInv, RoomShape
  <2>3. /\ rowLock' \in [Rooms -> Writers \cup {NoOne}]
        /\ \A p \in Writers : Adding(req[p]) => rowLock'[req[p].room] = p
    BY <1>2 DEF RoomsInv, RoomShape, Locked
  <2>4. Idle \in Request /\ ~Adding(Idle) /\ ~Guessing(Idle) /\ req' = [req EXCEPT ![q] = Idle]
    BY <1>5, IdleIs DEF Adding, Guessing, Done
  <2> QED BY <1>2, <2>2, <2>3, <2>4, HarmlessStep
<1> QED BY <1>3, <1>4, <1>5 DEF createSave

LEMMA JoinCheckRooms ==
    ASSUME RoomsInv, NEW q \in Writers, joinCheck(q)
    PROVE  RoomsInv'
<1>1. req[q] \in Request /\ req[q].op = "join"
  BY DEF RoomsInv, RoomShape, joinCheck
<1>2. UNCHANGED <<room, rowLock, member, told, wins, job>>
  BY DEF joinCheck
<1>3. CASE Done(q)
  BY <1>2, <1>3, DoneStep
<1>4. CASE Goto(q, "absent")
  <2> DEFINE x == [req[q] EXCEPT !.st = "absent"]
  <2>1. x \in Request /\ x.op = "join" /\ x.st = "absent"
    BY <1>1, BusyIs DEF Request
  <2>2. req' = [req EXCEPT ![q] = x]
    BY <1>4 DEF Goto, RoomsInv, RoomShape
  <2> HIDE DEF x
  <2> QED BY <1>2, <2>1, <2>2, NewRequest DEF Adding, Guessing
<1> QED BY <1>3, <1>4 DEF joinCheck

LEMMA PlacedRooms ==
    ASSUME RoomsInv, NEW q \in Writers, addPlayerCommitted(q)
    PROVE  RoomsInv'
BY DoneStep DEF addPlayerCommitted

LEMMA AbortRooms ==
    ASSUME RoomsInv, NEW q \in Writers, Abort(q)
    PROVE  RoomsInv'
<1>1. /\ req' = [req EXCEPT ![q] = Idle] /\ UNCHANGED <<room, member, told, wins, job>>
      /\ rowLock' = [r \in Rooms |-> IF rowLock[r] = q THEN NoOne ELSE rowLock[r]]
  BY DEF Abort, Done
<1>2. Idle \in Request /\ ~Adding(Idle) /\ ~Guessing(Idle)
  BY IdleIs DEF Adding, Guessing
<1>3. rowLock' \in [Rooms -> Writers \cup {NoOne}] /\ room' \in [Rooms -> RoomRows \cup {NoRoom}]
  BY <1>1 DEF RoomsInv, RoomShape
<1>4. ASSUME NEW p \in Writers \ {q}, Adding(req[p]) PROVE rowLock'[req[p].room] = p
  <2>1. req[p].room \in Rooms
    BY <1>4, BusyIs DEF RoomsInv, RoomShape, Adding
  <2>2. rowLock[req[p].room] = p
    BY <1>4 DEF RoomsInv, Locked
  <2> QED BY <1>1, <2>1, <2>2
<1> QED BY <1>1, <1>2, <1>3, <1>4, HarmlessStep

(* The row lock is taken, and while it is held the room gets no member.    *)
LEMMA AddPlayerLockRooms ==
    ASSUME RoomsInv, NEW q \in Writers, addPlayerLock(q)
    PROVE  RoomsInv'
<1> DEFINE x == [req[q] EXCEPT !.st = "adding"]
<1>0. PICK r : r = req[q].room
  OBVIOUS
<1>1. req[q] \in Request /\ req[q].op = "join" /\ req[q].st = "absent" /\ rowLock[r] = NoOne
  BY <1>0 DEF RoomsInv, RoomShape, addPlayerLock
<1>2. r \in Rooms
  BY <1>0, <1>1, BusyIs
<1>3. x \in Request /\ x.op = "join" /\ x.st = "adding" /\ x.room = r
  BY <1>0, <1>1, BusyIs DEF Request
<1>4. /\ req' = [req EXCEPT ![q] = x] /\ rowLock' = [rowLock EXCEPT ![r] = q]
      /\ UNCHANGED <<room, member, told, wins, job>>
  BY <1>0 DEF addPlayerLock, Goto, RoomsInv, RoomShape
<1> HIDE DEF x
<1>5. /\ req' \in [Writers -> Request]
      /\ req'[q] = x /\ \A p \in Writers \ {q} : req'[p] = req[p]
  BY <1>3, <1>4, Moved DEF RoomsInv
<1>6. /\ rowLock' \in [Rooms -> Writers \cup {NoOne}] /\ rowLock'[r] = q
      /\ \A y \in Rooms \ {r} : rowLock'[y] = rowLock[y]
  BY <1>2, <1>4 DEF RoomsInv, RoomShape
<1>7. RoomShape'
  BY <1>4, <1>5, <1>6 DEF RoomsInv, RoomShape
<1>8. Locked'
  <2> SUFFICES ASSUME NEW p \in Writers, Adding(req'[p]) PROVE rowLock'[req'[p].room] = p
    BY DEF Locked, Adding
  <2>1. CASE p = q
    BY <1>3, <1>5, <1>6, <2>1
  <2>2. CASE p # q
    <3>1. req'[p] = req[p] /\ Adding(req[p]) /\ rowLock[req[p].room] = p
      BY <1>5, <2>2 DEF RoomsInv, Locked
    <3>2. req[p].room \in Rooms
      BY <3>1, BusyIs DEF RoomsInv, RoomShape, Adding
    <3>3. NoOne # p
      BY RoomsAssumption
    <3> QED BY <1>1, <1>6, <3>1, <3>2, <3>3
  <2> QED BY <2>1, <2>2
<1>9. Capped' /\ Answered'
  BY <1>4 DEF RoomsInv, Capped, Members, Answered
<1>10. PlaceKept' /\ Claimed' /\ Sole'
  BY <1>3, <1>4, <1>5 DEF RoomsInv, PlaceKept, Claimed, Sole, Inserted, Guessing, Claiming, Row, Members
<1> QED BY <1>7, <1>8, <1>9, <1>10 DEF RoomsInv

LEMMA AddPlayerInsertRooms ==
    ASSUME RoomsInv, NEW q \in Writers, addPlayerInsert(q)
    PROVE  RoomsInv'
<1>0. PICK r, u : r = req[q].room /\ u = req[q].user
  OBVIOUS
<1>1. req[q] \in Request /\ req[q].op = "join" /\ req[q].st = "adding"
  BY DEF RoomsInv, RoomShape, addPlayerInsert
<1>2. r \in Rooms /\ u \in Users /\ rowLock[r] = q
  BY <1>0, <1>1, BusyIs DEF RoomsInv, Locked, Adding
<1>3. UNCHANGED <<room, member, told, wins, job>>
  BY DEF addPlayerInsert
<1>4. CASE IsFull(r) \/ member[r][u] # NoRow
  <2>1. req' = [req EXCEPT ![q] = Idle] /\ rowLock' = [rowLock EXCEPT ![r] = NoOne]
    BY <1>0, <1>4 DEF addPlayerInsert, Done
  <2>2. Idle \in Request /\ ~Adding(Idle) /\ ~Guessing(Idle)
    BY IdleIs DEF Adding, Guessing
  <2>3. rowLock' \in [Rooms -> Writers \cup {NoOne}] /\ room' \in [Rooms -> RoomRows \cup {NoRoom}]
    BY <1>3, <2>1 DEF RoomsInv, RoomShape
  <2>4. ASSUME NEW p \in Writers \ {q}, Adding(req[p]) PROVE rowLock'[req[p].room] = p
    <3>1. req[p].room \in Rooms /\ rowLock[req[p].room] = p
      BY <2>4, BusyIs DEF RoomsInv, RoomShape, Adding, Locked
    <3> QED BY <1>2, <2>1, <3>1 DEF RoomsInv, RoomShape
  <2> QED BY <1>3, <2>1, <2>2, <2>3, <2>4, HarmlessStep
<1>5. CASE ~IsFull(r) /\ member[r][u] = NoRow
  <2> DEFINE x == [req[q] EXCEPT !.st = "inserted"]
  <2>1. x \in Request /\ x.op = "join" /\ x.st = "inserted" /\ x.room = r /\ x.user = u
    BY <1>0, <1>1, BusyIs DEF Request
  <2>2. req' = [req EXCEPT ![q] = x] /\ UNCHANGED rowLock
    BY <1>0, <1>5 DEF addPlayerInsert, Goto, RoomsInv, RoomShape
  <2> HIDE DEF x
  <2>3. /\ req' \in [Writers -> Request]
        /\ req'[q] = x /\ \A p \in Writers \ {q} : req'[p] = req[p]
    BY <2>1, <2>2, Moved DEF RoomsInv
  <2>4. RoomShape'
    BY <1>3, <2>2, <2>3 DEF RoomsInv, RoomShape
  <2>5. Locked'
    BY <1>2, <2>1, <2>2, <2>3 DEF RoomsInv, Locked, Adding
  <2>6. Capped' /\ Answered'
    BY <1>3 DEF RoomsInv, Capped, Members, Answered
  <2>7. Cardinality(Members(r)) < MaxPlayers
    <3>1. Cardinality(Members(r)) \in Nat
      BY <1>2, FS_CardinalityType DEF RoomsInv, Capped
    <3> QED BY <1>5, <3>1, RoomsAssumption DEF IsFull
  <2>8. PlaceKept'
    <3> SUFFICES ASSUME NEW p \in Writers, Inserted(req'[p])
                 PROVE  member[req'[p].room][req'[p].user] = NoRow
                        /\ Cardinality(Members(req'[p].room)) < MaxPlayers
      BY <1>3 DEF PlaceKept, Inserted, Row, Members
    <3>1. CASE p = q
      BY <1>5, <2>1, <2>3, <2>7, <3>1
    <3>2. CASE p # q
      BY <2>3, <3>2 DEF RoomsInv, PlaceKept, Row
    <3> QED BY <3>1, <3>2
  <2>9. Claimed' /\ Sole'
    BY <1>3, <2>1, <2>3 DEF RoomsInv, Claimed, Sole, Guessing, Claiming, Row
  <2> QED BY <2>4, <2>5, <2>6, <2>8, <2>9 DEF RoomsInv
<1> QED BY <1>4, <1>5

(* COMMIT: the lock kept every other join out, so the count still holds.   *)
LEMMA AddPlayerCommitRooms ==
    ASSUME RoomsInv, NEW q \in Writers, addPlayerCommit(q)
    PROVE  RoomsInv'
<1> DEFINE x == [req[q] EXCEPT !.st = "committed"]
           row == [hasGuessed |-> FALSE, score |-> 0]
<1>0. PICK r, u : r = req[q].room /\ u = req[q].user
  OBVIOUS
<1>1. req[q] \in Request /\ req[q].op = "join" /\ req[q].st = "inserted"
  BY DEF RoomsInv, RoomShape, addPlayerCommit
<1>2. r \in Rooms /\ u \in Users /\ rowLock[r] = q
  BY <1>0, <1>1, BusyIs DEF RoomsInv, Locked, Adding
<1>3. member[r][u] = NoRow /\ Cardinality(Members(r)) < MaxPlayers
  BY <1>0, <1>1 DEF RoomsInv, PlaceKept, Inserted, Row
<1>4. x \in Request /\ x.op = "join" /\ x.st = "committed" /\ x.room = r /\ x.user = u
  BY <1>0, <1>1, BusyIs DEF Request
<1>5. row \in RoomUserRows /\ row.hasGuessed = FALSE
  BY RoomsAssumption DEF RoomUserRows
<1>6. /\ req' = [req EXCEPT ![q] = x] /\ member' = [member EXCEPT ![r][u] = row]
      /\ rowLock' = [rowLock EXCEPT ![r] = NoOne]
      /\ UNCHANGED <<room, told, wins, job>>
  BY <1>0 DEF addPlayerCommit, Goto, RoomsInv, RoomShape
<1> HIDE DEF x, row
<1>7. /\ req' \in [Writers -> Request]
      /\ req'[q] = x /\ \A p \in Writers \ {q} : req'[p] = req[p]
  BY <1>4, <1>6, Moved DEF RoomsInv
<1>8. /\ member' \in [Rooms -> [Users -> RoomUserRows \cup {NoRow}]]
      /\ member'[r][u] = row /\ row # NoRow
      /\ \A y \in Rooms, v \in Users : y # r \/ v # u => member'[y][v] = member[y][v]
      /\ \A y \in Rooms \ {r} : member'[y] = member[y]
  BY <1>2, <1>5, <1>6, Rewritten DEF RoomsInv
<1>9. /\ rowLock' \in [Rooms -> Writers \cup {NoOne}]
      /\ \A y \in Rooms \ {r} : rowLock'[y] = rowLock[y]
  BY <1>2, <1>6 DEF RoomsInv, RoomShape
<1>10. RoomShape'
  BY <1>6, <1>7, <1>8, <1>9 DEF RoomsInv, RoomShape
<1>11. ASSUME NEW p \in Writers \ {q}, Adding(req[p])
       PROVE  req[p].room \in Rooms \ {r} /\ rowLock[req[p].room] = p
  <2>1. req[p].room \in Rooms /\ rowLock[req[p].room] = p
    BY <1>11, BusyIs DEF RoomsInv, RoomShape, Adding, Locked
  <2> QED BY <1>2, <2>1
<1>12. Locked'
  <2> SUFFICES ASSUME NEW p \in Writers, Adding(req'[p]) PROVE rowLock'[req'[p].room] = p
    BY DEF Locked, Adding
  <2>1. p # q
    BY <1>4, <1>7 DEF Adding
  <2> QED BY <1>7, <1>9, <1>11, <2>1
<1>13. /\ Members(r)' = Members(r) \cup {u} /\ u \notin Members(r)
       /\ \A y \in Rooms \ {r} : Members(y)' = Members(y)
  BY <1>2, <1>3, <1>8 DEF Members
<1>14. Capped'
  <2>1. IsFiniteSet(Members(r)) /\ Cardinality(Members(r)) \in Nat
    BY <1>2, FS_CardinalityType DEF RoomsInv, Capped
  <2>2. /\ IsFiniteSet(Members(r) \cup {u})
        /\ Cardinality(Members(r) \cup {u}) = Cardinality(Members(r)) + 1
    BY <1>13, <2>1, FS_AddElement
  <2>3. IsFiniteSet(Members(r)') /\ Cardinality(Members(r)') <= MaxPlayers
    BY <1>3, <1>13, <2>1, <2>2, RoomsAssumption
  <2>4. \A y \in Rooms \ {r} : IsFiniteSet(Members(y)') /\ Cardinality(Members(y)') <= MaxPlayers
    BY <1>13 DEF RoomsInv, Capped
  <2> QED BY <2>3, <2>4 DEF Capped
<1>15. PlaceKept'
  <2> SUFFICES ASSUME NEW p \in Writers, Inserted(req'[p])
               PROVE  /\ member'[req'[p].room][req'[p].user] = NoRow
                      /\ Cardinality({v \in Users : member'[req'[p].room][v] # NoRow}) < MaxPlayers
    BY DEF PlaceKept, Inserted, Row, Members
  <2>1. p # q
    BY <1>4, <1>7 DEF Inserted
  <2>2. req'[p] = req[p] /\ req[p].room \in Rooms \ {r}
    BY <1>7, <1>11, <2>1 DEF Inserted, Adding
  <2>3. member[req[p].room][req[p].user] = NoRow /\ Cardinality(Members(req[p].room)) < MaxPlayers
    BY <2>2 DEF RoomsInv, PlaceKept, Row
  <2>4. member'[req[p].room] = member[req[p].room]
    BY <1>8, <2>2
  <2> QED BY <2>2, <2>3, <2>4 DEF Members
<1>16. Claimed'
  <2> SUFFICES ASSUME NEW p \in Writers, Guessing(req'[p])
               PROVE  /\ member'[req'[p].room][req'[p].user] # NoRow
                      /\ Claiming(req'[p]) =>
                           /\ member'[req'[p].room][req'[p].user].hasGuessed /\ req'[p].n \in Scores
                           /\ wins'[req'[p].room][req'[p].user] = 0
    BY DEF Claimed, Guessing, Claiming, Row
  <2>1. p # q
    BY <1>4, <1>7 DEF Guessing
  <2>2. req'[p] = req[p] /\ req[p].room \in Rooms /\ req[p].user \in Users
    BY <1>7, <2>1, BusyIs DEF Guessing, RoomsInv, RoomShape
  <2>3. member[req[p].room][req[p].user] # NoRow
    BY <2>2 DEF RoomsInv, Claimed, Row
  <2>4. member'[req[p].room][req[p].user] = member[req[p].room][req[p].user]
    BY <1>3, <1>8, <2>2, <2>3
  <2> QED BY <1>6, <2>2, <2>3, <2>4 DEF RoomsInv, Claimed, Row
<1>17. Sole'
  BY <1>4, <1>7 DEF RoomsInv, Sole, Claiming
<1>18. Answered'
  <2> SUFFICES ASSUME NEW y \in Rooms, NEW v \in Users
               PROVE  /\ wins[y][v] <= 1
                      /\ wins[y][v] = 0 => told[y][v] = Untold
                      /\ wins[y][v] # 0 => member'[y][v] # NoRow /\ member'[y][v].hasGuessed
                      /\ told[y][v] # Untold => member'[y][v].score = told[y][v]
    BY <1>6 DEF Answered
  <2>1. /\ wins[y][v] <= 1
        /\ wins[y][v] = 0 => told[y][v] = Untold
        /\ wins[y][v] # 0 => member[y][v] # NoRow /\ member[y][v].hasGuessed
        /\ told[y][v] # Untold => member[y][v].score = told[y][v]
    BY DEF RoomsInv, Answered
  <2>2. CASE y = r /\ v = u
    BY <1>3, <2>1, <2>2
  <2>3. CASE y # r \/ v # u
    BY <1>8, <2>1, <2>3
  <2> QED BY <2>2, <2>3
<1> QED BY <1>10, <1>12, <1>14, <1>15, <1>16, <1>17, <1>18 DEF RoomsInv

-----------------------------------------------------------------------------
(* Guesses *)

LEMMA GuessFindRooms ==
    ASSUME RoomsInv, NEW q \in Writers, guessFind(q)
    PROVE  RoomsInv'
<1> DEFINE x == [req[q] EXCEPT !.st = "found"]
<1>1. req[q] \in Request /\ req[q].op = "guess"
  BY DEF RoomsInv, RoomShape, guessFind
<1>2. UNCHANGED <<room, rowLock, member, told, wins, job>>
  BY DEF guessFind
<1>3. CASE Done(q)
  BY <1>2, <1>3, DoneStep
<1>4. CASE Goto(q, "found") /\ member[req[q].room][req[q].user] # NoRow
  <2>1. /\ x \in Request /\ x.op = "guess" /\ x.st = "found"
        /\ x.room = req[q].room /\ x.user = req[q].user
    BY <1>1, BusyIs DEF Request
  <2>2. req' = [req EXCEPT ![q] = x]
    BY <1>4 DEF Goto, RoomsInv, RoomShape
  <2> HIDE DEF x
  <2>3. /\ req' \in [Writers -> Request]
        /\ req'[q] = x /\ \A p \in Writers \ {q} : req'[p] = req[p]
    BY <2>1, <2>2, Moved DEF RoomsInv
  <2>4. RoomShape'
    BY <1>2, <2>3 DEF RoomsInv, RoomShape
  <2>5. Locked' /\ PlaceKept' /\ Sole'
    BY <1>2, <2>1, <2>3 DEF RoomsInv, Locked, PlaceKept, Sole, Adding, Inserted, Claiming, Row, Members
  <2>6. Capped' /\ Answered'
    BY <1>2 DEF RoomsInv, Capped, Members, Answered
  <2>7. Claimed'
    BY <1>2, <1>4, <2>1, <2>3 DEF RoomsInv, Claimed, Guessing, Claiming, Row
  <2> QED BY <2>4, <2>5, <2>6, <2>7 DEF RoomsInv
<1> QED BY <1>3, <1>4 DEF guessFind

(* A row of a member is updated; who is a member stays. *)
LEMMA Updated ==
    ASSUME RoomsInv, NEW q \in Writers, NEW x \in Request, req' = [req EXCEPT ![q] = x],
           NEW r \in Rooms, NEW u \in Users, member[r][u] # NoRow,
           NEW row \in RoomUserRows, member' = [member EXCEPT ![r][u] = row],
           x.op # "join", UNCHANGED rowLock
    PROVE  Locked' /\ PlaceKept' /\ Capped'
<1>1. /\ req' \in [Writers -> Request]
      /\ req'[q] = x /\ \A p \in Writers \ {q} : req'[p] = req[p]
  BY Moved DEF RoomsInv
<1>2. /\ member'[r][u] = row /\ row # NoRow
      /\ \A y \in Rooms, v \in Users : y # r \/ v # u => member'[y][v] = member[y][v]
  <2>1. member \in [Rooms -> [Users -> RoomUserRows \cup {NoRow}]] /\ row # NoRow
    BY NoRowIs DEF RoomsInv, RoomShape
  <2> QED BY <2>1
<1>3. ASSUME NEW y \in Rooms PROVE {v \in Users : member'[y][v] # NoRow} = Members(y)
  BY <1>2 DEF Members
<1>4. Locked'
  BY <1>1 DEF RoomsInv, Locked, Adding
<1>5. Capped'
  BY <1>3 DEF RoomsInv, Capped, Members
<1>6. PlaceKept'
  <2> SUFFICES ASSUME NEW p \in Writers, Inserted(req'[p])
               PROVE  /\ member'[req'[p].room][req'[p].user] = NoRow
                      /\ Cardinality({v \in Users : member'[req'[p].room][v] # NoRow}) < MaxPlayers
    BY DEF PlaceKept, Inserted, Row, Members
  <2>1. req'[p] = req[p]
    BY <1>1 DEF Inserted
  <2>2. req[p].room \in Rooms /\ req[p].user \in Users
    BY <2>1, BusyIs DEF Inserted, RoomsInv, RoomShape
  <2>3. member[req[p].room][req[p].user] = NoRow /\ Cardinality(Members(req[p].room)) < MaxPlayers
    BY <2>1 DEF RoomsInv, PlaceKept, Row
  <2>4. member'[req[p].room][req[p].user] = NoRow
    BY <1>2, <2>2, <2>3
  <2> QED BY <1>3, <2>1, <2>2, <2>3, <2>4
<1> QED BY <1>4, <1>5, <1>6

LEMMA GuessClaimRooms ==
    ASSUME RoomsInv, NEW q \in Writers, NEW score \in Scores, guessClaim(q, score)
    PROVE  RoomsInv'
<1>0. PICK r, u : r = req[q].room /\ u = req[q].user
  OBVIOUS
<1>1. req[q] \in Request /\ req[q].op = "guess" /\ req[q].st = "found"
  BY DEF RoomsInv, RoomShape, guessClaim
<1>2. r \in Rooms /\ u \in Users /\ member[r][u] # NoRow
  BY <1>0, <1>1, BusyIs DEF RoomsInv, Claimed, Guessing, Row
<1>3. UNCHANGED <<room, rowLock, told, wins, job>>
  BY DEF guessClaim
<1>4. CASE Done(q) /\ UNCHANGED member
  BY <1>3, <1>4, DoneStep
<1>5. CASE /\ Claimable(member[r][u])
           /\ member' = [member EXCEPT ![r][u].hasGuessed = TRUE]
           /\ req' = [req EXCEPT ![q].st = "claimed", ![q].n = score]
  <2> DEFINE x == [req[q] EXCEPT !.st = "claimed", !.n = score]
             row == [member[r][u] EXCEPT !.hasGuessed = TRUE]
  <2>1. score \in Nat
    BY RoomsAssumption
  <2>2. x \in Request /\ x.op = "guess" /\ x.st = "claimed" /\ x.room = r /\ x.user = u /\ x.n = score
    BY <1>0, <1>1, <2>1, BusyIs DEF Request
  <2>3. member[r][u] \in RoomUserRows /\ ~member[r][u].hasGuessed
    BY <1>2, <1>5 DEF RoomsInv, RoomShape, Claimable
  <2>4. row \in RoomUserRows /\ row.hasGuessed /\ row.score = member[r][u].score
    BY <2>3 DEF RoomUserRows
  <2>5. req' = [req EXCEPT ![q] = x] /\ member' = [member EXCEPT ![r][u] = row]
    BY <1>5 DEF RoomsInv, RoomShape
  <2> HIDE DEF x, row
  <2>6. /\ req' \in [Writers -> Request]
        /\ req'[q] = x /\ \A p \in Writers \ {q} : req'[p] = req[p]
    BY <2>2, <2>5, Moved DEF RoomsInv
  <2>7. /\ member' \in [Rooms -> [Users -> RoomUserRows \cup {NoRow}]]
        /\ member'[r][u] = row /\ row # NoRow
        /\ \A y \in Rooms, v \in Users : y # r \/ v # u => member'[y][v] = member[y][v]
    <3>1. member \in [Rooms -> [Users -> RoomUserRows \cup {NoRow}]] /\ row # NoRow
      BY <2>4, NoRowIs DEF RoomsInv, RoomShape
    <3> QED BY <1>2, <2>4, <2>5, <3>1
  <2>8. RoomShape'
    BY <1>3, <2>6, <2>7 DEF RoomsInv, RoomShape
  <2>9. Locked' /\ PlaceKept' /\ Capped'
    BY <1>2, <1>3, <2>2, <2>4, <2>5, Updated
  <2>10. wins[r][u] = 0
    BY <1>2, <2>3 DEF RoomsInv, Answered
  <2>11. ASSUME NEW p \in Writers \ {q}, Guessing(req[p])
         PROVE  /\ req[p].room \in Rooms /\ req[p].user \in Users
                /\ member[req[p].room][req[p].user] # NoRow
                /\ Claiming(req[p]) => req[p].room # r \/ req[p].user # u
    BY <2>3, <2>11, BusyIs DEF Guessing, RoomsInv, RoomShape, Claimed, Row
  <2>12. Claimed'
    <3> SUFFICES ASSUME NEW p \in Writers, Guessing(req'[p])
                 PROVE  /\ member'[req'[p].room][req'[p].user] # NoRow
                        /\ Claiming(req'[p]) =>
                             /\ member'[req'[p].room][req'[p].user].hasGuessed /\ req'[p].n \in Scores
                             /\ wins[req'[p].room][req'[p].user] = 0
      BY <1>3 DEF Claimed, Guessing, Claiming, Row
    <3>1. CASE p = q
      BY <2>2, <2>4, <2>6, <2>7, <2>10, <3>1
    <3>2. CASE p # q
      <4>1. /\ Guessing(req[p]) => member[req[p].room][req[p].user] # NoRow
            /\ Claiming(req[p]) => /\ member[req[p].room][req[p].user].hasGuessed /\ req[p].n \in Scores
                                   /\ wins[req[p].room][req[p].user] = 0
        BY DEF RoomsInv, Claimed, Row
      <4> QED BY <2>6, <2>7, <2>11, <3>2, <4>1
    <3> QED BY <3>1, <3>2
  <2>13. Sole'
    <3> SUFFICES ASSUME NEW p1 \in Writers, NEW p2 \in Writers, Claiming(req'[p1]), Claiming(req'[p2]),
                        req'[p1].room = req'[p2].room, req'[p1].user = req'[p2].user
                 PROVE  p1 = p2
      BY DEF Sole, Claiming
    <3>1. \A p \in Writers \ {q} : Claiming(req[p]) => req[p].room # r \/ req[p].user # u
      BY <2>11 DEF Claiming, Guessing
    <3> QED BY <2>2, <2>6, <3>1 DEF RoomsInv, Sole
  <2>14. Answered'
    <3> SUFFICES ASSUME NEW y \in Rooms, NEW v \in Users
                 PROVE  /\ wins[y][v] <= 1
                        /\ wins[y][v] = 0 => told[y][v] = Untold
                        /\ wins[y][v] # 0 => member'[y][v] # NoRow /\ member'[y][v].hasGuessed
                        /\ told[y][v] # Untold => member'[y][v].score = told[y][v]
      BY <1>3 DEF Answered
    <3>1. CASE y = r /\ v = u
      BY <2>4, <2>7, <3>1 DEF RoomsInv, Answered
    <3>2. CASE y # r \/ v # u
      BY <2>7, <3>2 DEF RoomsInv, Answered
    <3> QED BY <3>1, <3>2
  <2> QED BY <2>8, <2>9, <2>12, <2>13, <2>14 DEF RoomsInv
<1> QED BY <1>0, <1>4, <1>5 DEF guessClaim

LEMMA GuessScoreRooms ==
    ASSUME RoomsInv, NEW q \in Writers, guessScore(q)
    PROVE  RoomsInv'
<1>0. PICK r, u, n : r = req[q].room /\ u = req[q].user /\ n = req[q].n
  OBVIOUS
<1> DEFINE row == [member[r][u] EXCEPT !.score = n]
<1>1. req[q] \in Request /\ Claiming(req[q]) /\ Guessing(req[q])
  BY DEF RoomsInv, RoomShape, guessScore, Claiming, Guessing
<1>2. r \in Rooms /\ u \in Users /\ n \in Nat
  BY <1>0, <1>1, BusyIs DEF Claiming
<1>3. member[r][u] # NoRow /\ member[r][u].hasGuessed /\ n \in Scores /\ wins[r][u] = 0
  BY <1>0, <1>1 DEF RoomsInv, Claimed, Row
<1>4. row \in RoomUserRows /\ row.hasGuessed /\ row.score = n
  <2>1. member[r][u] \in RoomUserRows
    BY <1>2, <1>3 DEF RoomsInv, RoomShape
  <2> QED BY <1>3, <2>1 DEF RoomUserRows
<1>5. /\ req' = [req EXCEPT ![q] = Idle] /\ member' = [member EXCEPT ![r][u] = row]
      /\ told' = [told EXCEPT ![r][u] = n] /\ wins' = [wins EXCEPT ![r][u] = wins[r][u] + 1]
      /\ UNCHANGED <<room, rowLock, job>>
  BY <1>0 DEF guessScore, Done, RoomsInv, RoomShape
<1> HIDE DEF row
<1>6. /\ req' \in [Writers -> Request]
      /\ req'[q] = Idle /\ \A p \in Writers \ {q} : req'[p] = req[p]
  BY <1>5, IdleIs, Moved DEF RoomsInv
<1>7. /\ member' \in [Rooms -> [Users -> RoomUserRows \cup {NoRow}]]
      /\ member'[r][u] = row /\ row # NoRow
      /\ \A y \in Rooms, v \in Users : y # r \/ v # u => member'[y][v] = member[y][v]
  <2>1. member \in [Rooms -> [Users -> RoomUserRows \cup {NoRow}]] /\ row # NoRow
    BY <1>4, NoRowIs DEF RoomsInv, RoomShape
  <2> QED BY <1>2, <1>4, <1>5, <2>1
<1>8. /\ told' \in [Rooms -> [Users -> Scores \cup {Untold}]] /\ told'[r][u] = n
      /\ \A y \in Rooms, v \in Users : y # r \/ v # u => told'[y][v] = told[y][v]
  BY <1>2, <1>3, <1>5 DEF RoomsInv, RoomShape
<1>9. /\ wins' \in [Rooms -> [Users -> Nat]] /\ wins'[r][u] = 1
      /\ \A y \in Rooms, v \in Users : y # r \/ v # u => wins'[y][v] = wins[y][v]
  BY <1>2, <1>3, <1>5 DEF RoomsInv, RoomShape
<1>11. RoomShape'
  BY <1>5, <1>6, <1>7, <1>8, <1>9 DEF RoomsInv, RoomShape
<1>12. Locked' /\ PlaceKept' /\ Capped'
  BY <1>2, <1>3, <1>4, <1>5, IdleIs, Updated
<1>13. Claimed'
  <2> SUFFICES ASSUME NEW p \in Writers, Guessing(req'[p])
               PROVE  /\ member'[req'[p].room][req'[p].user] # NoRow
                      /\ Claiming(req'[p]) =>
                           /\ member'[req'[p].room][req'[p].user].hasGuessed /\ req'[p].n \in Scores
                           /\ wins'[req'[p].room][req'[p].user] = 0
    BY DEF Claimed, Guessing, Claiming, Row
  <2>1. p # q
    BY <1>6, IdleIs DEF Guessing
  <2>2. req'[p] = req[p] /\ req[p].room \in Rooms /\ req[p].user \in Users
    BY <1>6, <2>1, BusyIs DEF Guessing, RoomsInv, RoomShape
  <2>3. Claiming(req[p]) => req[p].room # r \/ req[p].user # u
    BY <1>0, <1>1, <2>1 DEF RoomsInv, Sole
  <2>4. /\ member[req[p].room][req[p].user] # NoRow
        /\ Claiming(req[p]) => /\ member[req[p].room][req[p].user].hasGuessed /\ req[p].n \in Scores
                               /\ wins[req[p].room][req[p].user] = 0
    BY <2>2 DEF RoomsInv, Claimed, Row
  <2> QED BY <1>7, <1>9, <2>2, <2>3, <2>4
<1>14. Sole'
  BY <1>6, IdleIs DEF RoomsInv, Sole, Claiming
<1>15. Answered'
  <2> SUFFICES ASSUME NEW y \in Rooms, NEW v \in Users
               PROVE  /\ wins'[y][v] <= 1
                      /\ wins'[y][v] = 0 => told'[y][v] = Untold
                      /\ wins'[y][v] # 0 => member'[y][v] # NoRow /\ member'[y][v].hasGuessed
                      /\ told'[y][v] # Untold => member'[y][v].score = told'[y][v]
    BY DEF Answered
  <2>1. CASE y = r /\ v = u
    BY <1>4, <1>7, <1>8, <1>9, <2>1
  <2>2. CASE y # r \/ v # u
    <3>1. /\ member'[y][v] = member[y][v] /\ told'[y][v] = told[y][v] /\ wins'[y][v] = wins[y][v]
      BY <1>7, <1>8, <1>9, <2>2
    <3>2. Answered
      BY DEF RoomsInv
    <3> QED BY <3>1, <3>2 DEF Answered
  <2> QED BY <2>1, <2>2
<1> QED BY <1>11, <1>12, <1>13, <1>14, <1>15 DEF RoomsInv

-----------------------------------------------------------------------------
(* start, time and the job *)

(* A step that changes only rows of rooms and the job. *)
LEMMA RoomRowStep ==
    ASSUME RoomsInv, UNCHANGED <<member, rowLock, req, told, wins>>,
           room' \in [Rooms -> RoomRows \cup {NoRoom}], job' \in [Instances -> SUBSET Rooms],
           \A i \in Instances : \A r \in job'[i] : room'[r] # NoRoom
    PROVE  RoomsInv'
<1>1. RoomShape'
  BY DEF RoomsInv, RoomShape
<1>2. Locked' /\ Capped' /\ PlaceKept'
  BY DEF RoomsInv, Locked, Capped, PlaceKept, Adding, Inserted, Row, Members
<1>3. Claimed' /\ Sole' /\ Answered'
  BY DEF RoomsInv, Claimed, Sole, Answered, Guessing, Claiming, Row
<1> QED BY <1>1, <1>2, <1>3 DEF RoomsInv

LEMMA RoomChangeRooms ==
    ASSUME RoomsInv, NEW r \in Rooms, room[r] # NoRoom, NEW row \in RoomRows,
           room' = [room EXCEPT ![r] = row], UNCHANGED <<member, rowLock, req, told, wins, job>>
    PROVE  RoomsInv'
<1>1. row # NoRoom
  BY NoRoomIs
<1>2. room' \in [Rooms -> RoomRows \cup {NoRoom}] /\ job' \in [Instances -> SUBSET Rooms]
  BY DEF RoomsInv, RoomShape
<1>3. \A i \in Instances : \A x \in job'[i] : room'[x] # NoRoom
  BY <1>1 DEF RoomsInv, RoomShape
<1> QED BY <1>2, <1>3, RoomRowStep

LEMMA StartRooms ==
    ASSUME RoomsInv, NEW r \in Rooms, NEW u \in Users, start(u, r)
    PROVE  RoomsInv'
<1> DEFINE row == [room[r] EXCEPT !.status = "in_progress"]
<1>1. room[r] # NoRoom /\ UNCHANGED <<member, rowLock, req, told, wins, job>>
  BY DEF start
<1>2. room[r] \in RoomRows
  BY <1>1 DEF RoomsInv, RoomShape
<1>3. row \in RoomRows
  BY <1>2 DEF RoomRows
<1>4. CASE mayStart(r, u)
  <2>1. room' = [room EXCEPT ![r] = row]
    BY <1>4 DEF start, RoomsInv, RoomShape
  <2> HIDE DEF row
  <2> QED BY <1>1, <1>3, <2>1, RoomChangeRooms
<1>5. CASE ~mayStart(r, u)
  <2>1. UNCHANGED room
    BY <1>5 DEF start
  <2> QED BY <1>1, <2>1, RoomRowStep DEF RoomsInv, RoomShape
<1> QED BY <1>4, <1>5

LEMMA ExpireRooms ==
    ASSUME RoomsInv, NEW r \in Rooms, Expire(r)
    PROVE  RoomsInv'
<1> DEFINE row == [room[r] EXCEPT !.expired = TRUE]
<1>1. room[r] # NoRoom /\ UNCHANGED <<member, rowLock, req, told, wins, job>>
  BY DEF Expire
<1>2. room[r] \in RoomRows
  BY <1>1 DEF RoomsInv, RoomShape
<1>3. row \in RoomRows
  BY <1>2 DEF RoomRows
<1>4. room' = [room EXCEPT ![r] = row]
  BY DEF Expire, RoomsInv, RoomShape
<1> HIDE DEF row
<1> QED BY <1>1, <1>3, <1>4, RoomChangeRooms

LEMMA JobRooms ==
    ASSUME RoomsInv, NEW i \in Instances, JobFind(i) \/ JobClose(i) \/ JobCrash(i)
    PROVE  RoomsInv'
<1>1. UNCHANGED <<member, rowLock, req, told, wins>>
  BY DEF JobFind, JobClose, JobCrash
<1>2. /\ room \in [Rooms -> RoomRows \cup {NoRoom}] /\ job \in [Instances -> SUBSET Rooms]
      /\ \A j \in Instances : \A r \in job[j] : room[r] # NoRoom
  BY DEF RoomsInv, RoomShape
<1>3. CASE JobFind(i)
  <2>1. UNCHANGED room /\ job' = [job EXCEPT ![i] = {r \in Rooms : Expired(r)}]
    BY <1>3 DEF JobFind
  <2> QED BY <1>1, <1>2, <2>1, RoomRowStep DEF Expired
<1>4. CASE JobClose(i)
  <2>1. /\ room' = [r \in Rooms |-> IF r \in job[i] THEN [room[r] EXCEPT !.isClosed = TRUE] ELSE room[r]]
        /\ job' = [job EXCEPT ![i] = {}]
    BY <1>4 DEF JobClose
  <2>2. ASSUME NEW r \in Rooms, room[r] # NoRoom
        PROVE  [room[r] EXCEPT !.isClosed = TRUE] \in RoomRows
    <3>1. room[r] \in RoomRows
      BY <1>2, <2>2
    <3> QED BY <3>1 DEF RoomRows
  <2>3. ASSUME NEW r \in Rooms
        PROVE  /\ room'[r] \in RoomRows \cup {NoRoom}
               /\ room[r] # NoRoom => room'[r] # NoRoom
    BY <1>2, <2>1, <2>2, NoRoomIs
  <2>4. room' \in [Rooms -> RoomRows \cup {NoRoom}]
    BY <2>1, <2>3
  <2>5. job' \in [Instances -> SUBSET Rooms] /\ \A j \in Instances : \A r \in job'[j] : room'[r] # NoRoom
    BY <1>2, <2>1, <2>3
  <2> QED BY <1>1, <2>4, <2>5, RoomRowStep
<1>5. CASE JobCrash(i)
  <2>1. UNCHANGED room /\ job' = [job EXCEPT ![i] = {}]
    BY <1>5 DEF JobCrash
  <2> QED BY <1>1, <1>2, <2>1, RoomRowStep
<1> QED BY <1>3, <1>4, <1>5

LEMMA OtherRooms ==
    ASSUME RoomsInv, UNCHANGED <<room, member, rowLock, req, told, wins, job>>
    PROVE  RoomsInv'
BY RoomRowStep DEF RoomsInv, RoomShape

LEMMA RoomsStart == Init => RoomsInv
<1> SUFFICES ASSUME Init PROVE RoomsInv
  OBVIOUS
<1>1. RoomsInit
  BY DEF Init
<1>2. RoomShape
  <2>1. \A c \in Codes : NewRoom(c) \in RoomRows
    BY DEF NewRoom, RoomRows
  <2>2. room \in [Rooms -> RoomRows \cup {NoRoom}]
    BY <1>1, <2>1 DEF RoomsInit
  <2> QED BY <1>1, <2>2, IdleIs DEF RoomsInit, RoomShape
<1>3. \A q \in Writers : req[q].op = "idle"
  BY <1>1, IdleIs DEF RoomsInit
<1>4. Locked /\ PlaceKept /\ Claimed /\ Sole
  BY <1>3 DEF Locked, PlaceKept, Claimed, Sole, Adding, Inserted, Guessing, Claiming
<1>5. Capped
  <2>1. \A r \in Rooms : Members(r) = {}
    BY <1>1 DEF RoomsInit, Members
  <2>2. IsFiniteSet({}) /\ Cardinality({}) = 0
    BY FS_EmptySet
  <2> QED BY <2>1, <2>2, RoomsAssumption DEF Capped
<1>6. Answered
  BY <1>1 DEF RoomsInit, Answered
<1> QED BY <1>2, <1>4, <1>5, <1>6 DEF RoomsInv

LEMMA ContinueRooms ==
    ASSUME RoomsInv, NEW q \in Writers, Continue(q)
    PROVE  RoomsInv'
BY CreateSaveRooms, JoinCheckRooms, AddPlayerLockRooms, AddPlayerInsertRooms, AddPlayerCommitRooms,
   PlacedRooms, GuessFindRooms, GuessScoreRooms, GuessClaimRooms DEF Continue

LEMMA RoomsStep == RoomsInv /\ [Next]_vars => RoomsInv'
<1> SUFFICES ASSUME RoomsInv, [Next]_vars PROVE RoomsInv'
  OBVIOUS
<1>1. ASSUME NEW q \in Writers, Handler(q) PROVE RoomsInv'
  <2>1. CASE \E u \in Users, r \in Rooms : create(q, u, r) \/ join(q, u, r) \/ submitGuess(q, u, r)
    BY <2>1, HandlerRooms
  <2>2. CASE \E u \in Users, c \in Codes : joinByCode(q, u, c)
    BY <2>2, HandlerRooms DEF joinByCode
  <2> QED BY <1>1, <2>1, <2>2 DEF Handler
<1>2. ASSUME NEW q \in Writers, Session(q) PROVE RoomsInv'
  <2>1. UNCHANGED roomVars
    BY <1>2 DEF Session, createSession, accept, abandonInvitation, updateScore, update, Load, saveSelect,
       saveWrite, saveCommit, saveCommitted, saveAbort
  <2> QED BY <2>1, OtherRooms DEF roomVars
<1>3. ASSUME NEW k \in Sockets, Gateway(k) PROVE RoomsInv'
  BY <1>3, OtherRooms DEF Gateway, roomVars
<1>4. ASSUME NEW r \in Rooms, Starts(r) PROVE RoomsInv'
  BY <1>4, StartRooms DEF Starts
<1>5. ASSUME NEW s \in Sessions, sweep(s) PROVE RoomsInv'
  BY <1>5, OtherRooms DEF sweep, roomVars
<1>6. CASE LockExpires
  BY <1>6, OtherRooms DEF LockExpires, JobLockExpires
<1>7. CASE UNCHANGED vars
  BY <1>7, OtherRooms DEF vars, roomVars
<1>8. ASSUME NEW i \in Instances, closeExpiredRooms(i) \/ Crash(i) PROVE RoomsInv'
  BY <1>8, JobRooms DEF closeExpiredRooms, Crash
<1>9. ASSUME NEW q \in Writers, Fails(q) PROVE RoomsInv'
  BY <1>9, AbortRooms DEF Fails
<1>10. ASSUME NEW r \in Rooms, Passes(r) PROVE RoomsInv'
  BY <1>10, ExpireRooms DEF Passes
<1> QED BY <1>1, <1>2, <1>3, <1>4, <1>5, <1>6, <1>7, <1>8, <1>9, <1>10, ContinueRooms DEF Next

LEMMA RoomsInductive == Spec => []RoomsInv
BY RoomsStart, RoomsStep, PTL DEF Spec

-----------------------------------------------------------------------------
(* Theorems about rooms *)

(* addPlayer: however joins overlap, by id or by code, a room never has    *)
(* more members than its cap, for any cap and any number of handlers.      *)
THEOREM RoomsCapped == Spec => []RoomCapHeld
<1>1. RoomsInv => RoomCapHeld
  BY DEF RoomsInv, Capped, RoomCapHeld
<1> QED BY <1>1, RoomsInductive, PTL

(* submitGuess: of any number of guesses a member sends at once, one is    *)
(* scored, and the row keeps the score that was answered.                  *)
THEOREM GuessesScoredOnce == Spec => []GuessScoredOnce
<1>1. RoomsInv => GuessScoredOnce
  BY DEF RoomsInv, Answered, GuessScoredOnce
<1> QED BY <1>1, RoomsInductive, PTL

LEMMA FinalMoved ==
    ASSUME RoomsInv, NEW r \in Rooms, Final(r), NEW q \in Writers, NEW x \in Request,
           req' = [req EXCEPT ![q] = x], x.room # r
    PROVE  \A p \in Writers : req'[p].room # r
BY Moved DEF RoomsInv, RoomShape, Final

LEMMA FinalContinue ==
    ASSUME RoomsInv, NEW r \in Rooms, Final(r), NEW q \in Writers, Continue(q)
    PROVE  /\ room'[r] = room[r] /\ member'[r] = member[r]
           /\ \A p \in Writers : req'[p].room # r
<1>1. req[q] \in Request /\ req[q].room # r
  BY DEF RoomsInv, RoomShape, Final
<1>2. Done(q) => \A p \in Writers : req'[p].room # r
  <2>1. Idle \in Request /\ Idle.room # r
    BY IdleIs, RoomsAssumption
  <2> QED BY <2>1, FinalMoved DEF Done
<1>3. ASSUME NEW st \in {"absent", "adding", "inserted", "committed", "found"},
             Goto(q, st), req[q].op # "idle"
      PROVE  \A p \in Writers : req'[p].room # r
  <2> DEFINE x == [req[q] EXCEPT !.st = st]
  <2>1. x \in Request /\ x.room = req[q].room
    BY <1>1, <1>3, BusyIs DEF Request
  <2>2. req' = [req EXCEPT ![q] = x]
    BY <1>3 DEF Goto, RoomsInv, RoomShape
  <2> HIDE DEF x
  <2> QED BY <1>1, <2>1, <2>2, FinalMoved
<1>4. ASSUME NEW c \in Codes, createSave(q, c)
      PROVE  /\ room'[r] = room[r] /\ member'[r] = member[r]
             /\ \A p \in Writers : req'[p].room # r
  <2>1. req[q].op = "create" /\ member' = member /\ room'[r] = room[r]
    BY <1>1, <1>4 DEF createSave, RoomsInv, RoomShape
  <2>2. CASE req' = [req EXCEPT ![q].n = @ + 1]
    <3> DEFINE x == [req[q] EXCEPT !.n = req[q].n + 1]
    <3>1. x \in Request /\ x.room = req[q].room
      BY <1>1, <2>1, BusyIs DEF Request
    <3>2. req' = [req EXCEPT ![q] = x]
      BY <2>2 DEF RoomsInv, RoomShape
    <3> HIDE DEF x
    <3> QED BY <1>1, <2>1, <3>1, <3>2, FinalMoved
  <2> QED BY <1>2, <1>4, <2>1, <2>2 DEF createSave
<1>5. CASE joinCheck(q)
  BY <1>2, <1>3, <1>5 DEF joinCheck
<1>6. CASE addPlayerLock(q)
  BY <1>3, <1>6 DEF addPlayerLock
<1>7. CASE addPlayerInsert(q)
  BY <1>2, <1>3, <1>7 DEF addPlayerInsert
<1>8. CASE addPlayerCommit(q)
  <2>1. member'[r] = member[r]
    BY <1>1, <1>8 DEF addPlayerCommit, RoomsInv, RoomShape
  <2> QED BY <1>3, <1>8, <2>1 DEF addPlayerCommit
<1>9. CASE addPlayerCommitted(q)
  BY <1>2, <1>9 DEF addPlayerCommitted
<1>10. CASE guessFind(q)
  BY <1>2, <1>3, <1>10 DEF guessFind
<1>11. CASE guessScore(q)
  <2>1. member'[r] = member[r]
    BY <1>1, <1>11 DEF guessScore, RoomsInv, RoomShape
  <2> QED BY <1>2, <1>11, <2>1 DEF guessScore
<1>12. ASSUME NEW score \in Scores, guessClaim(q, score)
       PROVE  /\ room'[r] = room[r] /\ member'[r] = member[r]
              /\ \A p \in Writers : req'[p].room # r
  <2>1. req[q].op = "guess" /\ room' = room /\ member'[r] = member[r]
    BY <1>1, <1>12 DEF guessClaim, RoomsInv, RoomShape
  <2>2. CASE req' = [req EXCEPT ![q].st = "claimed", ![q].n = score]
    <3> DEFINE x == [req[q] EXCEPT !.st = "claimed", !.n = score]
    <3>1. score \in Nat
      BY RoomsAssumption
    <3>2. x \in Request /\ x.room = req[q].room
      BY <1>1, <2>1, <3>1, BusyIs DEF Request
    <3>3. req' = [req EXCEPT ![q] = x]
      BY <2>2 DEF RoomsInv, RoomShape
    <3> HIDE DEF x
    <3> QED BY <1>1, <2>1, <3>2, <3>3, FinalMoved
  <2> QED BY <1>2, <1>12, <2>1, <2>2 DEF guessClaim
<1> QED BY <1>4, <1>5, <1>6, <1>7, <1>8, <1>9, <1>10, <1>11, <1>12 DEF Continue

(* closeExpiredRooms: the members and scores of a room that is closed and  *)
(* that no request has in hand never change again.                         *)
THEOREM ClosedRoomsFinal == Spec => ClosedRoomIsFinal
<1>1. ASSUME RoomsInv, [Next]_vars, NEW r \in Rooms, Final(r)
      PROVE  Final(r)' /\ member'[r] = member[r]
  <2>1. /\ room[r] # NoRoom /\ room[r].isClosed /\ room[r] \in RoomRows
        /\ \A q \in Writers : req[q].room # r
    BY <1>1 DEF RoomsInv, RoomShape, Final
  <2>2. ASSUME \A q \in Writers : req'[q].room # r, room'[r] = room[r], member'[r] = member[r]
        PROVE  Final(r)' /\ member'[r] = member[r]
    BY <2>1, <2>2 DEF Final
  <2>3. ASSUME UNCHANGED <<room, req, member>> PROVE Final(r)' /\ member'[r] = member[r]
    BY <2>1, <2>3 DEF Final
  <2>4. ASSUME NEW q \in Writers, Handler(q) PROVE Final(r)' /\ member'[r] = member[r]
    <3>1. ASSUME NEW u \in Users, NEW y \in Rooms,
                 create(q, u, y) \/ join(q, u, y) \/ submitGuess(q, u, y)
          PROVE  Final(r)' /\ member'[r] = member[r]
      <4>1. y # r /\ UNCHANGED <<room, member>>
        BY <2>1, <3>1 DEF create, join, submitGuess, Playable
      <4>2. \A p \in Writers : req'[p].room # r
        <5>1. req \in [Writers -> Request]
          BY <1>1 DEF RoomsInv, RoomShape
        <5>2. PICK op, st :
                req' = [req EXCEPT ![q] = [op |-> op, st |-> st, user |-> u, room |-> y, n |-> 0]]
          BY <3>1 DEF create, join, submitGuess
        <5> QED BY <2>1, <4>1, <5>1, <5>2
      <4> QED BY <2>2, <4>1, <4>2
    <3> QED BY <2>4, <3>1 DEF Handler, joinByCode
  <2>5. ASSUME NEW q \in Writers, Continue(q) PROVE Final(r)' /\ member'[r] = member[r]
    BY <1>1, <2>2, <2>5, FinalContinue
  <2>6. ASSUME NEW q \in Writers, Session(q) PROVE Final(r)' /\ member'[r] = member[r]
    <3>1. UNCHANGED roomVars
      BY <2>6 DEF Session, createSession, accept, abandonInvitation, updateScore, update, Load, saveSelect,
         saveWrite, saveCommit, saveCommitted, saveAbort
    <3> QED BY <2>3, <3>1 DEF roomVars
  <2>7. ASSUME NEW q \in Writers, Fails(q) PROVE Final(r)' /\ member'[r] = member[r]
    <3>1. req' = [req EXCEPT ![q] = Idle] /\ UNCHANGED <<room, member>>
      BY <2>7 DEF Fails, Abort, Done
    <3>2. Idle \in Request /\ Idle.room # r
      BY IdleIs, RoomsAssumption
    <3> QED BY <1>1, <2>2, <3>1, <3>2, FinalMoved
  <2>8. ASSUME NEW k \in Sockets, Gateway(k) PROVE Final(r)' /\ member'[r] = member[r]
    BY <2>3, <2>8 DEF Gateway, roomVars
  <2>9. ASSUME NEW y \in Rooms, Expire(y) \/ (\E u \in Users : start(u, y))
        PROVE  Final(r)' /\ member'[r] = member[r]
    <3>1. UNCHANGED <<req, member>>
      BY <2>9 DEF Expire, start
    <3>2. CASE room' = room
      BY <2>3, <3>1, <3>2
    <3>3. CASE room' = [room EXCEPT ![y].expired = TRUE]
      <4>1. room'[r] = room[r] \/ room'[r] = [room[r] EXCEPT !.expired = TRUE]
        BY <1>1, <3>3 DEF RoomsInv, RoomShape
      <4>2. /\ [room[r] EXCEPT !.expired = TRUE] \in RoomRows
            /\ [room[r] EXCEPT !.expired = TRUE].isClosed
        BY <2>1 DEF RoomRows
      <4>3. room'[r] # NoRoom /\ room'[r].isClosed
        BY <2>1, <4>1, <4>2, NoRoomIs
      <4> QED BY <2>1, <3>1, <4>3 DEF Final
    <3>4. CASE room' = [room EXCEPT ![y].status = "in_progress"]
      <4>1. room'[r] = room[r] \/ room'[r] = [room[r] EXCEPT !.status = "in_progress"]
        BY <1>1, <3>4 DEF RoomsInv, RoomShape
      <4>2. /\ [room[r] EXCEPT !.status = "in_progress"] \in RoomRows
            /\ [room[r] EXCEPT !.status = "in_progress"].isClosed
        BY <2>1 DEF RoomRows
      <4>3. room'[r] # NoRoom /\ room'[r].isClosed
        BY <2>1, <4>1, <4>2, NoRoomIs
      <4> QED BY <2>1, <3>1, <4>3 DEF Final
    <3> QED BY <2>9, <3>2, <3>3, <3>4 DEF Expire, start
  <2>10. ASSUME NEW y \in Rooms, Starts(y) PROVE Final(r)' /\ member'[r] = member[r]
    BY <2>9, <2>10 DEF Starts
  <2>11. ASSUME NEW s \in Sessions, sweep(s) PROVE Final(r)' /\ member'[r] = member[r]
    BY <2>3, <2>11 DEF sweep, roomVars
  <2>12. ASSUME NEW i \in Instances, closeExpiredRooms(i) \/ Crash(i)
         PROVE  Final(r)' /\ member'[r] = member[r]
    <3>1. CASE JobClose(i)
      <4>1. UNCHANGED <<req, member>> /\ (room'[r] = room[r] \/ room'[r] = [room[r] EXCEPT !.isClosed = TRUE])
        BY <3>1 DEF JobClose
      <4>2. /\ [room[r] EXCEPT !.isClosed = TRUE] \in RoomRows
            /\ [room[r] EXCEPT !.isClosed = TRUE].isClosed
        BY <2>1 DEF RoomRows
      <4>3. room'[r] # NoRoom /\ room'[r].isClosed
        BY <2>1, <4>1, <4>2, NoRoomIs
      <4> QED BY <2>1, <4>1, <4>3 DEF Final
    <3> QED BY <2>3, <2>12, <3>1 DEF closeExpiredRooms, Crash, JobFind, JobCrash
  <2>13. CASE LockExpires
    BY <2>3, <2>13 DEF LockExpires, JobLockExpires
  <2>14. CASE UNCHANGED vars
    BY <2>3, <2>14 DEF vars, roomVars
  <2>15. ASSUME NEW y \in Rooms, Passes(y) PROVE Final(r)' /\ member'[r] = member[r]
    BY <2>9, <2>15 DEF Passes
  <2> QED BY <1>1, <2>4, <2>5, <2>6, <2>7, <2>8, <2>10, <2>11, <2>12, <2>13, <2>14, <2>15 DEF Next
<1>2. RoomsInv /\ [Next]_vars => [\A r \in Rooms : Final(r) => Final(r)' /\ member'[r] = member[r]]_vars
  BY <1>1
<1> QED BY <1>2, RoomsInductive, PTL DEF Spec, ClosedRoomIsFinal

-----------------------------------------------------------------------------
(* What is committed stays *)

Stay ==
  /\ \A r \in Rooms, u \in Users : member[r][u] # NoRow => member'[r][u] # NoRow
  /\ \A s \in Sessions :
       /\ reached[s] \subseteq reached'[s]
       /\ session[s].status # "none" =>
            /\ session'[s].status # "none" /\ session'[s].player = session[s].player
            /\ session'[s].playerTwoId = session[s].playerTwoId

LEMMA EventIs ==
    ASSUME NEW e \in Events
    PROVE  /\ e.users \subseteq Users
           /\ e.scope = "room" => e.id \in Rooms
           /\ e.scope # "room" => e.id \in Sessions
BY DEF Events

LEMMA ChannelIs ==
    ASSUME NEW c \in Channels
    PROVE  /\ c.kind = "room" => c.id \in Rooms
           /\ c.kind = "session" => c.id \in Sessions
BY DEF Channels

LEMMA TruthStays ==
    ASSUME NEW e \in Events, Truthful(e), Stay
    PROVE  Truthful(e)'
<1>1. CASE e.scope = "room"
  BY <1>1, EventIs DEF Truthful, Stay
<1>2. CASE e.scope # "room"
  <2>1. e.id \in Sessions
    BY <1>2, EventIs
  <2>2. /\ session[e.id].status # "none" /\ e.users \subseteq Players(session[e.id])
        /\ IF e.name = "completed"
           THEN "completed" \in reached[e.id] /\ Players(session[e.id]) \subseteq e.users
           ELSE \A u \in e.users : u = session[e.id].player \/ "in_progress" \in reached[e.id]
    BY <1>2 DEF Truthful
  <2>3. /\ reached[e.id] \subseteq reached'[e.id]
        /\ session'[e.id].status # "none" /\ session'[e.id].player = session[e.id].player
        /\ session'[e.id].playerTwoId = session[e.id].playerTwoId
    BY <2>1, <2>2 DEF Stay
  <2> QED BY <1>2, <2>2, <2>3 DEF Truthful, Players
<1> QED BY <1>1, <1>2

LEMMA PlayersStay ==
    ASSUME Sat, Stay, NEW s \in Sessions, NEW u, isSessionPlayer(u, s)
    PROVE  isSessionPlayer(u, s)'
<1>1. session[s].status # "none"
  BY DEF Sat, isSessionPlayer, Players
<1> QED BY <1>1 DEF Stay, isSessionPlayer, Players

LEMMA StillReached ==
    ASSUME EventsInv, Stay, UNCHANGED <<sock, inbox>>
    PROVE  Listening' /\ InboxFits'
<1>1. \A k \in Sockets : Owner[k] \in Users
  BY RealtimeAssumption
<1>2. Listening'
  <2> SUFFICES ASSUME NEW k \in Sockets, NEW c \in sock[k].chans
               PROVE  /\ c.kind = "user" => c.id = Owner[k]
                      /\ c.kind = "room" => isRoomMember(Owner[k], c.id)'
                      /\ c.kind = "session" => isSessionPlayer(Owner[k], c.id)'
    BY DEF Listening
  <2>1. c \in Channels
    BY DEF EventsInv, EventShape
  <2>2. /\ c.kind = "user" => c.id = Owner[k]
        /\ c.kind = "room" => isRoomMember(Owner[k], c.id)
        /\ c.kind = "session" => isSessionPlayer(Owner[k], c.id)
    BY DEF EventsInv, Listening
  <2>3. c.kind = "room" => isRoomMember(Owner[k], c.id)'
    BY <1>1, <2>1, <2>2, ChannelIs DEF Stay, isRoomMember
  <2>4. c.kind = "session" => isSessionPlayer(Owner[k], c.id)'
    BY <2>1, <2>2, ChannelIs, PlayersStay DEF EventsInv
  <2> QED BY <2>2, <2>3, <2>4
<1>3. InboxFits'
  <2> SUFFICES ASSUME NEW k \in Sockets, NEW e \in inbox[k]
               PROVE  IF e.scope = "room" THEN isRoomMember(Owner[k], e.id)'
                      ELSE isSessionPlayer(Owner[k], e.id)'
    BY DEF InboxFits
  <2>1. e \in Events
    BY DEF EventsInv, EventShape
  <2>2. IF e.scope = "room" THEN isRoomMember(Owner[k], e.id) ELSE isSessionPlayer(Owner[k], e.id)
    BY DEF EventsInv, InboxFits
  <2>3. CASE e.scope = "room"
    BY <1>1, <2>1, <2>2, <2>3, EventIs DEF Stay, isRoomMember
  <2>4. CASE e.scope # "room"
    BY <2>1, <2>2, <2>4, EventIs, PlayersStay DEF EventsInv
  <2> QED BY <2>3, <2>4
<1> QED BY <1>2, <1>3

LEMMA StillEmitted ==
    ASSUME EventsInv, Stay, UNCHANGED <<emitted, repeated>>
    PROVE  Emitted'
BY TruthStays DEF EventsInv, EventShape, Emitted

(* A socket gets what is true of the rooms and sessions it listens to.     *)
LEMMA Delivered ==
    ASSUME EventsInv, NEW es \in SUBSET Events, \A e \in es : Truthful(e),
           UNCHANGED <<member, session, sock>>,
           inbox' = [k \in Sockets |-> {e \in es : sock[k].chans \cap onEvent(e) # {}}]
    PROVE  inbox' \in [Sockets -> SUBSET Events] /\ InboxFits'
<1> SUFFICES ASSUME NEW k \in Sockets, NEW e \in inbox'[k]
             PROVE  IF e.scope = "room" THEN isRoomMember(Owner[k], e.id)
                    ELSE isSessionPlayer(Owner[k], e.id)
  BY DEF InboxFits, isRoomMember, isSessionPlayer, Players
<1>1. e \in es /\ e \in Events /\ sock[k].chans \cap onEvent(e) # {} /\ Truthful(e)
  OBVIOUS
<1>2. PICK c : c \in sock[k].chans /\ c \in onEvent(e)
  BY <1>1
<1>3. /\ c.kind = "user" => c.id = Owner[k]
      /\ c.kind = "room" => isRoomMember(Owner[k], c.id)
      /\ c.kind = "session" => isSessionPlayer(Owner[k], c.id)
  BY <1>2 DEF EventsInv, Listening
<1>4. CASE c \in {userChan(u) : u \in e.users}
  <2>1. PICK u \in e.users : c = userChan(u)
    BY <1>4
  <2>2. Owner[k] \in e.users
    BY <1>3, <2>1 DEF userChan
  <2> QED BY <1>1, <2>2 DEF Truthful, isRoomMember, isSessionPlayer
<1>5. CASE c = (IF e.scope = "room" THEN roomChan(e.id) ELSE sessionChan(e.id))
  BY <1>3, <1>5 DEF roomChan, sessionChan
<1> QED BY <1>2, <1>4, <1>5 DEF onEvent

-----------------------------------------------------------------------------
(* Steps that raise nothing *)

LEMMA SameEvents ==
    ASSUME EventsInv, UNCHANGED <<req, member, pending, emitted, repeated, session, save, reached>>
    PROVE  /\ Apart' /\ JoinPending' /\ JoinOnce' /\ Saving' /\ Sat' /\ Emitted'
<1>1. Apart' /\ Sat'
  BY DEF EventsInv, Apart, Sat
<1>2. JoinPending' /\ JoinOnce'
  BY DEF EventsInv, JoinPending, JoinOnce, Inserted, Placed, JoinOf, Joined, Row
<1>3. Stay
  BY DEF Stay
<1>4. Emitted'
  BY <1>3, StillEmitted
<1>5. Saving'
  <2> SUFFICES ASSUME NEW q \in Writers, NEW w \in {save[q]} \ {NoSave} PROVE SavedBy(q, w)'
    BY DEF Saving
  <2>1. SavedBy(q, w)
    BY DEF EventsInv, Saving
  <2> QED BY <2>1 DEF SavedBy, Truthful, Creates, Keeps, Players
<1> QED BY <1>1, <1>2, <1>4, <1>5

LEMMA IdleEvents ==
    ASSUME EventsInv, UNCHANGED <<rtVars, req, member, session, save, reached>>
    PROVE  EventsInv'
<1>1. UNCHANGED <<sock, inbox, pending, emitted, repeated>>
  BY DEF rtVars
<1>2. /\ Apart' /\ JoinPending' /\ JoinOnce' /\ Saving' /\ Sat' /\ Emitted'
  BY <1>1, SameEvents
<1>3. Stay
  BY DEF Stay
<1>4. Listening' /\ InboxFits'
  BY <1>1, <1>3, StillReached
<1>5. EventShape'
  BY <1>1 DEF EventsInv, EventShape
<1> QED BY <1>2, <1>4, <1>5 DEF EventsInv

LEMMA SocketEvents ==
    ASSUME EventsInv, NEW k \in Sockets,
           UNCHANGED <<req, member, pending, emitted, repeated, session, save, reached>>,
           NEW x \in [st : {"verifying", "on", "off"}, chans : SUBSET Channels],
           sock' = [sock EXCEPT ![k] = x], inbox' = inbox \/ inbox' = [inbox EXCEPT ![k] = {}],
           \A c \in x.chans : /\ c.kind = "user" => c.id = Owner[k]
                              /\ c.kind = "room" => isRoomMember(Owner[k], c.id)
                              /\ c.kind = "session" => isSessionPlayer(Owner[k], c.id)
    PROVE  EventsInv'
<1>1. /\ Apart' /\ JoinPending' /\ JoinOnce' /\ Saving' /\ Sat' /\ Emitted'
  BY SameEvents
<1>2. /\ inbox' \in [Sockets -> SUBSET Events] /\ \A j \in Sockets : inbox'[j] \subseteq inbox[j]
  BY DEF EventsInv, EventShape
<1>3. sock' \in [Sockets -> [st : {"verifying", "on", "off"}, chans : SUBSET Channels]]
  BY DEF EventsInv, EventShape
<1>4. EventShape'
  BY <1>2, <1>3 DEF EventsInv, EventShape
<1>5. Listening'
  <2> SUFFICES ASSUME NEW j \in Sockets, NEW c \in sock'[j].chans
               PROVE  /\ c.kind = "user" => c.id = Owner[j]
                      /\ c.kind = "room" => isRoomMember(Owner[j], c.id)
                      /\ c.kind = "session" => isSessionPlayer(Owner[j], c.id)
    BY DEF Listening, isRoomMember, isSessionPlayer, Players
  <2>1. CASE j = k
    BY <2>1 DEF EventsInv, EventShape
  <2>2. CASE j # k
    BY <2>2 DEF EventsInv, EventShape, Listening
  <2> QED BY <2>1, <2>2
<1>6. InboxFits'
  BY <1>2 DEF EventsInv, InboxFits, isRoomMember, isSessionPlayer, Players
<1> QED BY <1>1, <1>4, <1>5, <1>6 DEF EventsInv

LEMMA GatewayEvents ==
    ASSUME EventsInv, NEW k \in Sockets, Gateway(k)
    PROVE  EventsInv'
<1>1. UNCHANGED <<req, member, session, save, reached>>
  BY DEF Gateway, roomVars
<1>2. /\ sock[k] \in [st : {"verifying", "on", "off"}, chans : SUBSET Channels] /\ Owner[k] \in Users
      /\ \A c \in sock[k].chans : /\ c.kind = "user" => c.id = Owner[k]
                                  /\ c.kind = "room" => isRoomMember(Owner[k], c.id)
                                  /\ c.kind = "session" => isSessionPlayer(Owner[k], c.id)
  BY RealtimeAssumption DEF EventsInv, EventShape, Listening
<1>3. CASE handleConnection(k)
  <2> DEFINE x == [st |-> "on", chans |-> {userChan(Owner[k])}]
  <2>1. x \in [st : {"verifying", "on", "off"}, chans : SUBSET Channels]
    BY <1>2 DEF userChan, Channels
  <2>2. \A c \in x.chans : c.kind = "user" /\ c.id = Owner[k]
    BY DEF userChan
  <2>3. UNCHANGED <<pending, emitted, repeated, inbox>> /\ sock' = [sock EXCEPT ![k] = x]
    BY <1>3 DEF handleConnection
  <2> HIDE DEF x
  <2> QED BY <1>1, <2>1, <2>2, <2>3, SocketEvents
<1>4. CASE handleDisconnect(k)
  <2> DEFINE x == [st |-> "off", chans |-> {}]
  <2>1. x \in [st : {"verifying", "on", "off"}, chans : SUBSET Channels] /\ x.chans = {}
    OBVIOUS
  <2>2. /\ UNCHANGED <<pending, emitted, repeated>> /\ inbox' = [inbox EXCEPT ![k] = {}]
        /\ sock' = [sock EXCEPT ![k] = x]
    BY <1>4 DEF handleDisconnect
  <2> HIDE DEF x
  <2> QED BY <1>1, <2>1, <2>2, SocketEvents
<1>5. ASSUME NEW c \in Channels, NEW allowed, allowed \in BOOLEAN, handleSubscribe(k, c, allowed),
             allowed => /\ c.kind = "user" => c.id = Owner[k]
                        /\ c.kind = "room" => isRoomMember(Owner[k], c.id)
                        /\ c.kind = "session" => isSessionPlayer(Owner[k], c.id)
      PROVE  EventsInv'
  <2> DEFINE x == [sock[k] EXCEPT !.chans = sock[k].chans \cup {c}]
  <2>1. x \in [st : {"verifying", "on", "off"}, chans : SUBSET Channels] /\ x.chans = sock[k].chans \cup {c}
    BY <1>2
  <2>2. UNCHANGED <<pending, emitted, repeated, inbox>> /\ sock' = [sock EXCEPT ![k] = x] /\ allowed
    BY <1>5 DEF handleSubscribe, EventsInv, EventShape
  <2> HIDE DEF x
  <2>3. \A d \in x.chans : /\ d.kind = "user" => d.id = Owner[k]
                           /\ d.kind = "room" => isRoomMember(Owner[k], d.id)
                           /\ d.kind = "session" => isSessionPlayer(Owner[k], d.id)
    BY <1>2, <1>5, <2>1, <2>2
  <2> QED BY <1>1, <2>1, <2>2, <2>3, SocketEvents
<1>6. ASSUME NEW r \in Rooms, handleSubscribe(k, roomChan(r), isRoomMember(Owner[k], r)) PROVE EventsInv'
  <2>1. roomChan(r) \in Channels /\ roomChan(r).kind = "room" /\ roomChan(r).id = r
    BY DEF roomChan, Channels
  <2>2. isRoomMember(Owner[k], r) \in BOOLEAN
    BY DEF isRoomMember
  <2> QED BY <1>5, <1>6, <2>1, <2>2
<1>7. ASSUME NEW s \in Sessions, handleSubscribe(k, sessionChan(s), isSessionPlayer(Owner[k], s))
      PROVE  EventsInv'
  <2>1. sessionChan(s) \in Channels /\ sessionChan(s).kind = "session" /\ sessionChan(s).id = s
    BY DEF sessionChan, Channels
  <2>2. isSessionPlayer(Owner[k], s) \in BOOLEAN
    BY DEF isSessionPlayer
  <2> QED BY <1>5, <1>7, <2>1, <2>2
<1>8. ASSUME NEW c \in sock[k].chans, handleUnsubscribe(k, c) PROVE EventsInv'
  <2> DEFINE x == [sock[k] EXCEPT !.chans = sock[k].chans \ {c}]
  <2>1. x \in [st : {"verifying", "on", "off"}, chans : SUBSET Channels] /\ x.chans \subseteq sock[k].chans
    BY <1>2
  <2>2. UNCHANGED <<pending, emitted, repeated, inbox>> /\ sock' = [sock EXCEPT ![k] = x]
    BY <1>8 DEF handleUnsubscribe, EventsInv, EventShape
  <2> HIDE DEF x
  <2> QED BY <1>1, <1>2, <2>1, <2>2, SocketEvents
<1> QED BY <1>3, <1>4, <1>6, <1>7, <1>8 DEF Gateway, Subscribe

-----------------------------------------------------------------------------
(* Steps of a request to a room *)

LEMMA NoSaves ==
    ASSUME EventsInv, OnlyRooms
    PROVE  \A q \in Writers : save[q] = NoSave
<1> SUFFICES ASSUME NEW q \in Writers, save[q] # NoSave PROVE FALSE
  OBVIOUS
<1>1. save[q].id \in Sessions
  BY DEF EventsInv, EventShape, Saves
<1> QED BY <1>1 DEF OnlyRooms

LEMMA RequestEvents ==
    ASSUME RoomsInv, EventsInv, Stay, NEW q \in Writers, NEW x \in Request, req' = [req EXCEPT ![q] = x],
           \A p \in Writers : save[p] = NoSave,
           UNCHANGED <<sock, emitted, repeated, inbox, session, save, reached>>,
           pending' \in [Writers -> SUBSET Events], \A p \in Writers \ {q} : pending'[p] = pending[p],
           IF Inserted(x) \/ Placed(x) THEN pending'[q] \subseteq {JoinOf(x)} ELSE pending'[q] = {},
           Placed(x) => /\ member'[x.room][x.user] # NoRow /\ JoinOf(x) \notin emitted
                        /\ \A p \in Writers \ {q} :
                             Placed(req[p]) => req[p].room # x.room \/ req[p].user # x.user
    PROVE  EventsInv'
<1>1. /\ req' \in [Writers -> Request]
      /\ req'[q] = x /\ \A p \in Writers \ {q} : req'[p] = req[p]
  BY Moved DEF RoomsInv
<1>2. EventShape' /\ Apart' /\ Sat' /\ Saving'
  BY DEF EventsInv, EventShape, Apart, Sat, Saving
<1>3. Emitted' /\ Listening' /\ InboxFits'
  BY StillEmitted, StillReached
<1>4. JoinPending'
  <2> SUFFICES ASSUME NEW p \in Writers
               PROVE  IF Inserted(req'[p]) \/ Placed(req'[p]) THEN pending'[p] \subseteq {JoinOf(req'[p])}
                      ELSE pending'[p] = {}
    BY DEF JoinPending, Inserted, Placed, JoinOf, Joined
  <2>1. CASE p = q
    BY <1>1, <2>1
  <2>2. CASE p # q
    BY <1>1, <2>2 DEF EventsInv, JoinPending
  <2> QED BY <2>1, <2>2
<1>5. ASSUME NEW p \in Writers, Placed(req'[p])
      PROVE  member'[req'[p].room][req'[p].user] # NoRow /\ JoinOf(req'[p]) \notin emitted
  <2>1. CASE p = q
    BY <1>1, <1>5, <2>1
  <2>2. CASE p # q
    <3>1. req'[p] = req[p] /\ Placed(req[p])
      BY <1>1, <1>5, <2>2
    <3>2. req[p].room \in Rooms /\ req[p].user \in Users
      BY <3>1, BusyIs DEF Placed, RoomsInv, RoomShape
    <3>3. member[req[p].room][req[p].user] # NoRow /\ JoinOf(req[p]) \notin emitted
      BY <3>1 DEF EventsInv, JoinOnce, Row
    <3> QED BY <3>1, <3>2, <3>3 DEF Stay
  <2> QED BY <2>1, <2>2
<1>6. ASSUME NEW p1 \in Writers, NEW p2 \in Writers, Placed(req'[p1]), Placed(req'[p2]),
             req'[p1].room = req'[p2].room, req'[p1].user = req'[p2].user
      PROVE  p1 = p2
  BY <1>1, <1>6 DEF EventsInv, JoinOnce
<1>7. JoinOnce'
  BY <1>5, <1>6 DEF JoinOnce, Placed, Row, JoinOf, Joined
<1> QED BY <1>2, <1>3, <1>4, <1>7 DEF EventsInv

LEMMA Unsaved ==
    ASSUME EventsInv, NEW q \in Writers, req[q].op # "idle"
    PROVE  \A p \in Writers : save[p] = NoSave
BY IdleIs DEF EventsInv, Apart

(* A request that raises nothing, neither before nor by this step.         *)
LEMMA QuietEvents ==
    ASSUME RoomsInv, EventsInv, Stay, NEW q \in Writers, NEW x \in Request, req' = [req EXCEPT ![q] = x],
           \A p \in Writers : save[p] = NoSave, UNCHANGED <<rtVars, session, save, reached>>,
           ~Inserted(req[q]), ~Placed(req[q]), ~Inserted(x), ~Placed(x)
    PROVE  EventsInv'
<1>1. pending[q] = {} /\ pending \in [Writers -> SUBSET Events]
  BY DEF EventsInv, JoinPending, EventShape
<1>2. UNCHANGED <<sock, emitted, repeated, inbox, pending>>
  BY DEF rtVars
<1> QED BY <1>1, <1>2, RequestEvents

LEMMA HandlerEvents ==
    ASSUME RoomsInv, EventsInv, NEW q \in Writers, Handler(q)
    PROVE  EventsInv'
<1>1. \A p \in Writers : save[p] = NoSave
  BY NoSaves DEF Handler
<1>2. UNCHANGED <<session, save, reached>>
  BY DEF Handler
<1>3. ASSUME NEW u \in Users, NEW r \in Rooms,
             create(q, u, r) \/ join(q, u, r) \/ submitGuess(q, u, r)
      PROVE  EventsInv'
  <2>1. req[q] = Idle /\ UNCHANGED <<member, rtVars>>
    BY <1>3 DEF create, join, submitGuess
  <2>2. PICK op \in {"create", "join", "guess"}, st \in {"drawing", "checked"} :
          req' = [req EXCEPT ![q] = [op |-> op, st |-> st, user |-> u, room |-> r, n |-> 0]]
    BY <1>3 DEF create, join, submitGuess
  <2> DEFINE x == [op |-> op, st |-> st, user |-> u, room |-> r, n |-> 0]
  <2>3. x \in Request /\ ~Inserted(x) /\ ~Placed(x)
    BY DEF Request, Inserted, Placed
  <2>4. ~Inserted(req[q]) /\ ~Placed(req[q])
    BY <2>1, IdleIs DEF Inserted, Placed
  <2>5. Stay
    BY <1>2, <2>1 DEF Stay
  <2>6. req' = [req EXCEPT ![q] = x]
    BY <2>2
  <2> HIDE DEF x
  <2> QED BY <1>1, <1>2, <2>1, <2>3, <2>4, <2>5, <2>6, QuietEvents
<1> QED BY <1>3 DEF Handler, joinByCode

LEMMA MembersStay ==
    ASSUME RoomsInv, NEW q \in Writers, Continue(q), NEW r \in Rooms, NEW u \in Users,
           member[r][u] # NoRow
    PROVE  member'[r][u] # NoRow
<1>1. member \in [Rooms -> [Users -> RoomUserRows \cup {NoRow}]]
  BY DEF RoomsInv, RoomShape
<1>2. CASE addPlayerCommit(q)
  <2>1. [hasGuessed |-> FALSE, score |-> 0] \in RoomUserRows
    BY RoomsAssumption DEF RoomUserRows
  <2> QED BY <1>1, <1>2, <2>1, NoRowIs DEF addPlayerCommit
<1>3. CASE guessScore(q)
  <2>1. req[q].n \in Scores
    BY <1>3 DEF guessScore, RoomsInv, Claimed, Claiming
  <2>2. [member[r][u] EXCEPT !.score = req[q].n] \in RoomUserRows
    <3>1. member[r][u] \in RoomUserRows
      BY <1>1
    <3> QED BY <2>1, <3>1 DEF RoomUserRows
  <2>3. member'[r][u] = member[r][u] \/ member'[r][u] = [member[r][u] EXCEPT !.score = req[q].n]
    BY <1>1, <1>3 DEF guessScore
  <2> QED BY <2>2, <2>3, NoRowIs
<1>4. ASSUME NEW score \in Scores, guessClaim(q, score) PROVE member'[r][u] # NoRow
  <2>1. [member[r][u] EXCEPT !.hasGuessed = TRUE] \in RoomUserRows
    <3>1. member[r][u] \in RoomUserRows
      BY <1>1
    <3> QED BY <3>1 DEF RoomUserRows
  <2>2. member'[r][u] = member[r][u] \/ member'[r][u] = [member[r][u] EXCEPT !.hasGuessed = TRUE]
    <3>1. CASE UNCHANGED member
      BY <3>1
    <3>2. CASE member' = [member EXCEPT ![req[q].room][req[q].user].hasGuessed = TRUE]
      <4>1. PICK y, v : y = req[q].room /\ v = req[q].user
        OBVIOUS
      <4>2. member' = [member EXCEPT ![y][v].hasGuessed = TRUE]
        BY <3>2, <4>1
      <4> QED BY <1>1, <4>2
    <3> QED BY <1>4, <3>1, <3>2 DEF guessClaim
  <2> QED BY <2>1, <2>2, NoRowIs
<1>5. CASE UNCHANGED member
  BY <1>5
<1> QED BY <1>2, <1>3, <1>4, <1>5 DEF Continue, createSave, joinCheck, addPlayerLock, addPlayerInsert,
     addPlayerCommitted, guessFind

LEMMA MoveQuietly ==
    ASSUME RoomsInv, EventsInv, Stay, NEW q \in Writers, req[q].op # "idle",
           ~Inserted(req[q]), ~Placed(req[q]), UNCHANGED <<rtVars, session, save, reached>>,
           Done(q) \/ (\E st \in {"absent", "adding", "found"} : Goto(q, st))
    PROVE  EventsInv'
<1>1. req[q] \in Request /\ \A p \in Writers : save[p] = NoSave
  BY Unsaved DEF RoomsInv, RoomShape
<1>2. CASE Done(q)
  <2>1. Idle \in Request /\ ~Inserted(Idle) /\ ~Placed(Idle) /\ req' = [req EXCEPT ![q] = Idle]
    BY <1>2, IdleIs DEF Inserted, Placed, Done
  <2> QED BY <1>1, <2>1, QuietEvents
<1>3. ASSUME NEW st \in {"absent", "adding", "found"}, Goto(q, st) PROVE EventsInv'
  <2> DEFINE x == [req[q] EXCEPT !.st = st]
  <2>1. x \in Request /\ x.st = st
    BY <1>1, BusyIs DEF Request
  <2>2. req' = [req EXCEPT ![q] = x]
    BY <1>3 DEF Goto, RoomsInv, RoomShape
  <2> HIDE DEF x
  <2>3. ~Inserted(x) /\ ~Placed(x)
    BY <2>1 DEF Inserted, Placed
  <2> QED BY <1>1, <2>1, <2>2, <2>3, QuietEvents
<1> QED BY <1>2, <1>3

LEMMA JoinIs ==
    ASSUME NEW r \in Rooms, NEW u \in Users
    PROVE  /\ Joined("room", r, u) \in Events /\ Joined("room", r, u).scope = "room"
           /\ Joined("room", r, u).id = r /\ Joined("room", r, u).users = {u}
BY DEF Joined, Events

LEMMA AddPlayerInsertEvents ==
    ASSUME RoomsInv, EventsInv, NEW q \in Writers, addPlayerInsert(q),
           UNCHANGED <<session, save, reached>>
    PROVE  EventsInv'
<1>1. req[q] \in Request /\ req[q].op = "join" /\ req[q].st = "adding"
  BY DEF RoomsInv, RoomShape, addPlayerInsert
<1>2. /\ \A p \in Writers : save[p] = NoSave
      /\ pending[q] = {} /\ pending \in [Writers -> SUBSET Events]
  BY <1>1, Unsaved DEF EventsInv, JoinPending, EventShape, Inserted, Placed
<1>3. Stay
  BY DEF addPlayerInsert, Stay
<1>4. CASE Done(q) /\ afterTransactionRollback(q)
  <2>1. Idle \in Request /\ ~Inserted(Idle) /\ ~Placed(Idle) /\ req' = [req EXCEPT ![q] = Idle]
    BY <1>4, IdleIs DEF Inserted, Placed, Done
  <2>2. UNCHANGED <<sock, emitted, repeated, inbox>> /\ pending' = [pending EXCEPT ![q] = {}]
    BY <1>4 DEF afterTransactionRollback
  <2>3. /\ pending' \in [Writers -> SUBSET Events] /\ pending'[q] = {}
        /\ \A p \in Writers \ {q} : pending'[p] = pending[p]
    BY <1>2, <2>2
  <2> QED BY <1>2, <1>3, <2>1, <2>2, <2>3, RequestEvents
<1>5. CASE raise(q, {Joined("room", req[q].room, req[q].user)}) /\ Goto(q, "inserted")
  <2> DEFINE x == [req[q] EXCEPT !.st = "inserted"]
  <2>1. x \in Request /\ x.st = "inserted" /\ x.room = req[q].room /\ x.user = req[q].user /\ x.op = "join"
    BY <1>1, BusyIs DEF Request
  <2>2. req' = [req EXCEPT ![q] = x]
    BY <1>5 DEF Goto, RoomsInv, RoomShape
  <2> HIDE DEF x
  <2>3. /\ UNCHANGED <<sock, emitted, repeated, inbox>>
        /\ pending' = [pending EXCEPT ![q] = pending[q] \cup {JoinOf(x)}]
    BY <1>5, <2>1 DEF raise, JoinOf
  <2>4. JoinOf(x) \in Events
    BY <1>1, <2>1, BusyIs, JoinIs DEF JoinOf
  <2>5. /\ pending' \in [Writers -> SUBSET Events] /\ pending'[q] = {JoinOf(x)}
        /\ \A p \in Writers \ {q} : pending'[p] = pending[p]
    BY <1>2, <2>3, <2>4
  <2>6. Inserted(x) /\ ~Placed(x)
    BY <2>1 DEF Inserted, Placed
  <2> QED BY <1>2, <1>3, <2>1, <2>2, <2>3, <2>5, <2>6, RequestEvents
<1> QED BY <1>4, <1>5 DEF addPlayerInsert

LEMMA AddPlayerCommitEvents ==
    ASSUME RoomsInv, EventsInv, Stay, NEW q \in Writers, addPlayerCommit(q),
           UNCHANGED <<session, save, reached>>
    PROVE  EventsInv'
<1> DEFINE x == [req[q] EXCEPT !.st = "committed"]
           row == [hasGuessed |-> FALSE, score |-> 0]
<1>1. req[q] \in Request /\ req[q].op = "join" /\ req[q].st = "inserted"
  BY DEF RoomsInv, RoomShape, addPlayerCommit
<1>2. /\ \A p \in Writers : save[p] = NoSave
      /\ pending[q] \subseteq {JoinOf(req[q])} /\ pending \in [Writers -> SUBSET Events]
  BY <1>1, Unsaved DEF EventsInv, JoinPending, EventShape, Inserted
<1>3. x \in Request /\ x.st = "committed" /\ x.room = req[q].room /\ x.user = req[q].user /\ x.op = "join"
  BY <1>1, BusyIs DEF Request
<1>4. /\ req' = [req EXCEPT ![q] = x] /\ member' = [member EXCEPT ![x.room][x.user] = row]
      /\ UNCHANGED <<sock, emitted, repeated, inbox, pending>>
  BY <1>3 DEF addPlayerCommit, Goto, rtVars, RoomsInv, RoomShape
<1>5. row \in RoomUserRows
  BY RoomsAssumption DEF RoomUserRows
<1>6. x.room \in Rooms /\ x.user \in Users
  BY <1>1, <1>3, BusyIs
<1> HIDE DEF x, row
<1>7. member'[x.room][x.user] # NoRow
  <2>1. PICK r \in Rooms, u \in Users : r = x.room /\ u = x.user
    BY <1>6
  <2>2. member' = [member EXCEPT ![r][u] = row] /\ RoomShape
    BY <1>4, <2>1 DEF RoomsInv
  <2>3. member'[r][u] # NoRow
    BY <1>5, <2>2, Rewritten
  <2> QED BY <2>1, <2>3
<1>8. member[x.room][x.user] = NoRow
  BY <1>1, <1>3 DEF RoomsInv, PlaceKept, Inserted, Row
<1>9. JoinOf(x) \notin emitted
  <2> SUFFICES ASSUME JoinOf(x) \in emitted PROVE FALSE
    OBVIOUS
  <2>1. Truthful(JoinOf(x))
    BY DEF EventsInv, Emitted
  <2> QED BY <1>6, <1>8, <2>1, JoinIs DEF Truthful, JoinOf
<1>10. \A p \in Writers \ {q} : Placed(req[p]) => req[p].room # x.room \/ req[p].user # x.user
  BY <1>8 DEF EventsInv, JoinOnce, Row
<1>11. Placed(x) /\ JoinOf(x) = JoinOf(req[q])
  BY <1>3 DEF Placed, JoinOf
<1> QED BY <1>2, <1>3, <1>4, <1>7, <1>9, <1>10, <1>11, RequestEvents

(* The join is announced: once, and to nobody before its row is there.     *)
LEMMA AddPlayerCommittedEvents ==
    ASSUME RoomsInv, EventsInv, NEW q \in Writers, addPlayerCommitted(q),
           UNCHANGED <<session, save, reached>>
    PROVE  EventsInv'
<1> DEFINE e == JoinOf(req[q])
<1>1. req[q] \in Request /\ req[q].op = "join" /\ Placed(req[q])
  BY DEF RoomsInv, RoomShape, addPlayerCommitted, Placed
<1>2. /\ \A p \in Writers : save[p] = NoSave
      /\ pending[q] \subseteq {e} /\ pending \in [Writers -> SUBSET Events]
  BY <1>1, Unsaved DEF EventsInv, JoinPending, EventShape
<1>3. member[req[q].room][req[q].user] # NoRow /\ e \notin emitted
  BY <1>1 DEF EventsInv, JoinOnce, Row
<1>4. /\ e \in Events /\ e.scope = "room" /\ e.id = req[q].room /\ e.users = {req[q].user}
  BY <1>1, BusyIs, JoinIs DEF JoinOf
<1>5. /\ req' = [req EXCEPT ![q] = Idle] /\ UNCHANGED <<member, sock>>
      /\ pending' = [pending EXCEPT ![q] = {}]
      /\ emitted' = emitted \cup pending[q] /\ repeated' = repeated \cup (pending[q] \cap emitted)
      /\ inbox' = [k \in Sockets |-> {y \in pending[q] : sock[k].chans \cap onEvent(y) # {}}]
  BY DEF addPlayerCommitted, afterTransactionCommit, emit, Done
<1>6. Truthful(e)
  BY <1>3, <1>4 DEF Truthful
<1> HIDE DEF e
<1>7. repeated' = repeated /\ emitted' \subseteq emitted \cup {e}
  BY <1>2, <1>3, <1>5
<1>8. inbox' \in [Sockets -> SUBSET Events] /\ InboxFits'
  BY <1>2, <1>4, <1>5, <1>6, Delivered
<1>9. Stay
  BY <1>5 DEF Stay
<1>10. Emitted'
  <2>1. \A y \in emitted' : y \in Events /\ Truthful(y)
    BY <1>4, <1>6, <1>7 DEF EventsInv, EventShape, Emitted
  <2>2. \A y \in emitted' : Truthful(y)'
    BY <1>9, <2>1, TruthStays
  <2> QED BY <1>7, <2>2 DEF EventsInv, Emitted
<1>11. /\ req' \in [Writers -> Request]
       /\ req'[q] = Idle /\ \A p \in Writers \ {q} : req'[p] = req[p]
  BY <1>5, IdleIs, Moved DEF RoomsInv
<1>12. /\ pending' \in [Writers -> SUBSET Events] /\ pending'[q] = {}
       /\ \A p \in Writers \ {q} : pending'[p] = pending[p]
  BY <1>2, <1>5
<1>13. EventShape'
  BY <1>4, <1>5, <1>7, <1>8, <1>12 DEF EventsInv, EventShape
<1>14. Apart' /\ Sat' /\ Saving'
  BY <1>2 DEF EventsInv, Apart, Sat, Saving
<1>15. Listening'
  BY <1>5 DEF EventsInv, Listening, isRoomMember, isSessionPlayer, Players
<1>16. JoinPending'
  <2> SUFFICES ASSUME NEW p \in Writers
               PROVE  IF Inserted(req'[p]) \/ Placed(req'[p]) THEN pending'[p] \subseteq {JoinOf(req'[p])}
                      ELSE pending'[p] = {}
    BY DEF JoinPending, Inserted, Placed, JoinOf, Joined
  <2>1. CASE p = q
    BY <1>11, <1>12, <2>1, IdleIs DEF Inserted, Placed
  <2>2. CASE p # q
    BY <1>2, <1>11, <1>12, <2>2 DEF EventsInv, JoinPending
  <2> QED BY <2>1, <2>2
<1>17. ASSUME NEW p \in Writers, Placed(req'[p])
       PROVE  member'[req'[p].room][req'[p].user] # NoRow /\ JoinOf(req'[p]) \notin emitted'
  <2>1. p # q
    BY <1>11, <1>17, IdleIs DEF Placed
  <2>2. req'[p] = req[p] /\ Placed(req[p])
    BY <1>11, <1>17, <2>1
  <2>3. member[req[p].room][req[p].user] # NoRow /\ JoinOf(req[p]) \notin emitted
    BY <2>2 DEF EventsInv, JoinOnce, Row
  <2>4. req[p].room # req[q].room \/ req[p].user # req[q].user
    BY <1>1, <2>1, <2>2 DEF EventsInv, JoinOnce
  <2>5. JoinOf(req[p]) # e
    <3>1. JoinOf(req[p]).id = req[p].room /\ JoinOf(req[p]).users = {req[p].user}
      BY DEF JoinOf, Joined
    <3> QED BY <1>4, <2>4, <3>1
  <2> QED BY <1>5, <1>7, <2>2, <2>3, <2>5
<1>18. ASSUME NEW p1 \in Writers, NEW p2 \in Writers, Placed(req'[p1]), Placed(req'[p2]),
              req'[p1].room = req'[p2].room, req'[p1].user = req'[p2].user
       PROVE  p1 = p2
  BY <1>11, <1>18, IdleIs DEF EventsInv, JoinOnce, Placed
<1>19. JoinOnce'
  BY <1>17, <1>18 DEF JoinOnce, Placed, Row, JoinOf, Joined
<1> QED BY <1>8, <1>10, <1>13, <1>14, <1>15, <1>16, <1>19 DEF EventsInv

LEMMA ContinueEvents ==
    ASSUME RoomsInv, EventsInv, NEW q \in Writers, Continue(q)
    PROVE  EventsInv'
<1>1. UNCHANGED <<session, save, reached>>
  BY DEF Continue
<1>2. Stay
  BY <1>1, MembersStay DEF Stay
<1>3. req[q] \in Request
  BY DEF RoomsInv, RoomShape
<1>4. ASSUME NEW c \in Codes, createSave(q, c) PROVE EventsInv'
  <2>1. req[q].op = "create" /\ UNCHANGED rtVars /\ ~Inserted(req[q]) /\ ~Placed(req[q])
    BY <1>4 DEF createSave, Inserted, Placed
  <2>2. CASE Done(q)
    BY <1>1, <1>2, <2>1, <2>2, MoveQuietly
  <2>3. CASE req' = [req EXCEPT ![q].n = @ + 1]
    <3> DEFINE x == [req[q] EXCEPT !.n = req[q].n + 1]
    <3>1. x \in Request /\ x.op = "create"
      BY <1>3, <2>1, BusyIs DEF Request
    <3>2. req' = [req EXCEPT ![q] = x]
      BY <2>3 DEF RoomsInv, RoomShape
    <3> HIDE DEF x
    <3>3. ~Inserted(x) /\ ~Placed(x)
      BY <3>1 DEF Inserted, Placed
    <3> QED BY <1>1, <1>2, <2>1, <3>1, <3>2, <3>3, Unsaved, QuietEvents
  <2> QED BY <1>4, <2>2, <2>3 DEF createSave
<1>5. CASE joinCheck(q) \/ addPlayerLock(q) \/ guessFind(q) \/ guessScore(q)
  <2>1. req[q].op # "idle" /\ UNCHANGED rtVars /\ ~Inserted(req[q]) /\ ~Placed(req[q])
    BY <1>5 DEF joinCheck, addPlayerLock, guessFind, guessScore, Inserted, Placed
  <2>2. Done(q) \/ (\E st \in {"absent", "adding", "found"} : Goto(q, st))
    BY <1>5 DEF joinCheck, addPlayerLock, guessFind, guessScore
  <2> QED BY <1>1, <1>2, <2>1, <2>2, MoveQuietly
<1>6. ASSUME NEW score \in Scores, guessClaim(q, score) PROVE EventsInv'
  <2>1. req[q].op = "guess" /\ UNCHANGED rtVars /\ ~Inserted(req[q]) /\ ~Placed(req[q])
    BY <1>6 DEF guessClaim, Inserted, Placed
  <2>2. CASE Done(q)
    BY <1>1, <1>2, <2>1, <2>2, MoveQuietly
  <2>3. CASE req' = [req EXCEPT ![q].st = "claimed", ![q].n = score]
    <3> DEFINE x == [req[q] EXCEPT !.st = "claimed", !.n = score]
    <3>1. score \in Nat
      BY RoomsAssumption
    <3>2. x \in Request /\ x.op = "guess"
      BY <1>3, <2>1, <3>1, BusyIs DEF Request
    <3>3. req' = [req EXCEPT ![q] = x]
      BY <2>3 DEF RoomsInv, RoomShape
    <3> HIDE DEF x
    <3>4. ~Inserted(x) /\ ~Placed(x)
      BY <3>2 DEF Inserted, Placed
    <3> QED BY <1>1, <1>2, <2>1, <3>2, <3>3, <3>4, Unsaved, QuietEvents
  <2> QED BY <1>6, <2>2, <2>3 DEF guessClaim
<1> QED BY <1>1, <1>2, <1>4, <1>5, <1>6, AddPlayerInsertEvents, AddPlayerCommitEvents,
     AddPlayerCommittedEvents DEF Continue

LEMMA FailsEvents ==
    ASSUME RoomsInv, EventsInv, NEW q \in Writers, Fails(q)
    PROVE  EventsInv'
<1>1. /\ UNCHANGED <<session, save, reached, member, sock, emitted, repeated, inbox>>
      /\ pending' = [pending EXCEPT ![q] = {}] /\ req' = [req EXCEPT ![q] = Idle] /\ req[q] # Idle
  BY DEF Fails, Abort, afterTransactionRollback, Done
<1>2. \A p \in Writers : save[p] = NoSave
  BY <1>1 DEF EventsInv, Apart
<1>3. Stay
  BY <1>1 DEF Stay
<1>4. Idle \in Request /\ ~Inserted(Idle) /\ ~Placed(Idle)
  BY IdleIs DEF Inserted, Placed
<1>5. /\ pending' \in [Writers -> SUBSET Events] /\ pending'[q] = {}
      /\ \A p \in Writers \ {q} : pending'[p] = pending[p]
  BY <1>1 DEF EventsInv, EventShape
<1> QED BY <1>1, <1>2, <1>3, <1>4, <1>5, RequestEvents

-----------------------------------------------------------------------------
(* Steps of a save *)

LEMMA AllIdle ==
    ASSUME RoomsInv, OnlySessions
    PROVE  \A p \in Writers : req[p] = Idle
<1> SUFFICES ASSUME NEW p \in Writers, req[p] # Idle PROVE FALSE
  OBVIOUS
<1>1. req[p].room \in Rooms
  BY DEF RoomsInv, RoomShape, Request
<1> QED BY <1>1 DEF OnlySessions

LEMMA SavedStays ==
    ASSUME EventsInv, Stay, NEW p \in Writers, NEW v \in Saves, SavedBy(p, v), pending'[p] = pending[p],
           session[v.id].status = "none" =>
             /\ session'[v.id].status = "none"
             /\ \A x \in Writers \ {p} : save'[x] # NoSave => save'[x].id # v.id
    PROVE  SavedBy(p, v)'
<1>1. v.id \in Sessions
  BY DEF Saves
<1>2. ASSUME v.st = "committed"
      PROVE  session'[v.id].status # "none" /\ \A e \in pending[p] : e.scope = "session" /\ Truthful(e)'
  <2>1. session[v.id].status # "none" /\ \A e \in pending[p] : e.scope = "session" /\ Truthful(e)
    BY <1>2 DEF SavedBy
  <2>2. pending[p] \subseteq Events
    BY DEF EventsInv, EventShape
  <2>3. session'[v.id].status # "none"
    BY <1>1, <2>1 DEF Stay
  <2> QED BY <2>1, <2>2, <2>3, TruthStays
<1>3. ASSUME v.st # "committed"
      PROVE  IF session'[v.id].status = "none" THEN Creates(p, v)' ELSE Keeps(v, session'[v.id])
  <2>1. IF session[v.id].status = "none" THEN Creates(p, v) ELSE Keeps(v, session[v.id])
    BY <1>3 DEF SavedBy
  <2>2. CASE session[v.id].status = "none"
    BY <2>1, <2>2 DEF Creates
  <2>3. CASE session[v.id].status # "none"
    BY <1>1, <2>1, <2>3 DEF Stay, Keeps
  <2> QED BY <2>2, <2>3
<1>4. /\ v.entity.status # "none" /\ v.entity.player \in Users
      /\ v.st \in {"read", "select"} => pending[p] = {}
      /\ v.st = "write" => pending[p] \subseteq onSession(v.id, v.entity, v.before)
  BY DEF SavedBy
<1> QED BY <1>2, <1>3, <1>4 DEF SavedBy, Keeps

LEMMA SaveEvents ==
    ASSUME RoomsInv, EventsInv, Stay, NEW q \in Writers, \A p \in Writers : req[p] = Idle,
           UNCHANGED <<req, member>>, NEW w \in Saves \cup {NoSave}, save' = [save EXCEPT ![q] = w],
           \A p \in Writers \ {q} : pending'[p] = pending[p],
           w = NoSave => pending'[q] = {}, w # NoSave => SavedBy(q, w)',
           \A p \in Writers \ {q} : \A v \in {save[p]} \ {NoSave} : session[v.id].status = "none" =>
             session'[v.id].status = "none" /\ (w # NoSave => w.id # v.id),
           EventShape', Sat', Emitted', Listening', InboxFits'
    PROVE  EventsInv'
<1>1. /\ save'[q] = w /\ \A p \in Writers \ {q} : save'[p] = save[p]
  BY DEF EventsInv, EventShape
<1>2. Apart'
  BY DEF Apart
<1>3. \A p \in Writers : ~Inserted(req[p]) /\ ~Placed(req[p])
  BY IdleIs DEF Inserted, Placed
<1>4. JoinOnce'
  BY <1>3 DEF JoinOnce, Placed
<1>5. JoinPending'
  <2> SUFFICES ASSUME NEW p \in Writers, save'[p] = NoSave PROVE pending'[p] = {}
    BY <1>3 DEF JoinPending, Inserted, Placed
  <2>1. CASE p = q
    BY <1>1, <2>1
  <2>2. CASE p # q
    BY <1>1, <1>3, <2>2 DEF EventsInv, JoinPending
  <2> QED BY <2>1, <2>2
<1>6. Saving'
  <2> SUFFICES ASSUME NEW p \in Writers, NEW v \in {save'[p]} \ {NoSave} PROVE SavedBy(p, v)'
    BY DEF Saving
  <2>1. CASE p = q
    BY <1>1, <2>1
  <2>2. CASE p # q
    <3>1. v = save[p] /\ v # NoSave /\ v \in Saves /\ SavedBy(p, v)
      BY <1>1, <2>2 DEF EventsInv, EventShape, Saving
    <3>2. ASSUME session[v.id].status = "none"
          PROVE  /\ session'[v.id].status = "none"
                 /\ \A x \in Writers \ {p} : save'[x] # NoSave => save'[x].id # v.id
      <4>1. session'[v.id].status = "none" /\ (w # NoSave => w.id # v.id)
        BY <2>2, <3>1, <3>2
      <4>2. v.st # "committed"
        BY <3>1, <3>2 DEF SavedBy
      <4>3. \A x \in Writers \ {p} : save[x] # NoSave => save[x].id # v.id
        BY <3>1, <3>2, <4>2 DEF SavedBy, Creates
      <4> QED BY <1>1, <4>1, <4>3
    <3> QED BY <2>2, <3>1, <3>2, SavedStays
  <2> QED BY <2>1, <2>2
<1> QED BY <1>2, <1>4, <1>5, <1>6 DEF EventsInv

(* A step of a save that neither commits nor announces. *)
LEMMA QuietSave ==
    ASSUME RoomsInv, EventsInv, NEW q \in Writers, \A p \in Writers : req[p] = Idle,
           UNCHANGED <<roomVars, session, reached, sock, emitted, repeated, inbox>>,
           NEW w \in Saves \cup {NoSave}, save' = [save EXCEPT ![q] = w],
           pending' \in [Writers -> SUBSET Events], \A p \in Writers \ {q} : pending'[p] = pending[p],
           w = NoSave => pending'[q] = {}, w # NoSave => SavedBy(q, w)',
           \/ w = NoSave \/ (save[q] # NoSave /\ w.id = save[q].id) \/ session[w.id].status # "none"
           \/ \A p \in Writers : save[p] # NoSave => save[p].id # w.id
    PROVE  EventsInv'
<1>1. UNCHANGED <<req, member>>
  BY DEF roomVars
<1>2. Stay
  BY <1>1 DEF Stay
<1>3. save' \in [Writers -> Saves \cup {NoSave}]
  BY DEF EventsInv, EventShape
<1>4. EventShape' /\ Sat'
  BY <1>3 DEF EventsInv, EventShape, Sat
<1>5. Emitted' /\ Listening' /\ InboxFits'
  BY <1>2, StillEmitted, StillReached
<1>6. ASSUME NEW p \in Writers \ {q}, NEW v \in {save[p]} \ {NoSave}, session[v.id].status = "none"
      PROVE  session'[v.id].status = "none" /\ (w # NoSave => w.id # v.id)
  <2>1. SavedBy(p, v) /\ v = save[p] /\ v # NoSave
    BY DEF EventsInv, Saving
  <2>2. Creates(p, v)
    BY <1>6, <2>1 DEF SavedBy
  <2>3. \A x \in Writers \ {p} : save[x] # NoSave => save[x].id # v.id
    BY <2>2 DEF Creates
  <2> QED BY <1>6, <2>1, <2>3
<1> QED BY <1>1, <1>2, <1>4, <1>5, <1>6, SaveEvents

LEMMA SaveIs ==
    ASSUME EventsInv, NEW q \in Writers, save[q] # NoSave
    PROVE  /\ save[q] \in Saves /\ save[q].id \in Sessions /\ SavedBy(q, save[q])
           /\ \A p \in Writers : req[p] = Idle
           /\ session[save[q].id] \in SessionRows
<1>1. save[q] \in Saves
  BY DEF EventsInv, EventShape
<1>2. save[q].id \in Sessions
  BY <1>1 DEF Saves
<1> QED BY <1>1, <1>2 DEF EventsInv, EventShape, Saving, Apart

LEMMA OnSessionIs ==
    ASSUME NEW w \in Saves, w.entity.player \in Users
    PROVE  /\ onSession(w.id, w.entity, w.before) \subseteq Events
           /\ \A e \in onSession(w.id, w.entity, w.before) : e.scope = "session" /\ e.id = w.id
<1>1. w.id \in Sessions /\ w.entity \in SessionRows
  BY DEF Saves
<1>2. w.entity.playerTwoId \in Users \cup {NoUser}
  BY <1>1 DEF SessionRows
<1>3. Players(w.entity) \subseteq Users
  BY <1>2 DEF Players
<1>4. ASSUME NEW e \in onSession(w.id, w.entity, w.before)
      PROVE  e \in Events /\ e.scope = "session" /\ e.id = w.id
  <2>1. \/ e = Joined("session", w.id, w.entity.player)
        \/ e = Joined("session", w.id, w.entity.playerTwoId) /\ w.entity.playerTwoId # NoUser
        \/ e = Completed(w.id, Players(w.entity))
    BY <1>4 DEF onSession
  <2> QED BY <1>1, <1>2, <1>3, <2>1 DEF Events, Joined, Completed
<1> QED BY <1>4

LEMMA CreateSessionEvents ==
    ASSUME RoomsInv, EventsInv, NEW q \in Writers, NEW s \in Sessions, NEW u \in Users,
           NEW v \in Users \cup {NoUser}, createSession(q, s, u, v)
    PROVE  EventsInv'
<1> DEFINE row == [status |-> IF v = NoUser THEN "in_progress" ELSE "waiting",
                   player |-> u, playerTwoId |-> v]
<1>0. PICK w : w = [st |-> "select", id |-> s, entity |-> row, before |-> session[s]]
  OBVIOUS
<1>1. \A p \in Writers : req[p] = Idle
  BY AllIdle DEF createSession, Free
<1>2. /\ UNCHANGED <<roomVars, session, reached, sock, emitted, repeated, inbox, pending>>
      /\ session[s].status = "none" /\ save[q] = NoSave
      /\ \A p \in Writers : save[p] # NoSave => save[p].id # s
      /\ save' = [save EXCEPT ![q] = w]
  BY <1>0 DEF createSession, Free, rtVars
<1>3. pending[q] = {} /\ pending \in [Writers -> SUBSET Events]
  BY <1>1, <1>2, IdleIs DEF EventsInv, JoinPending, EventShape, Inserted, Placed
<1>4. w \in Saves
  BY <1>0 DEF EventsInv, EventShape, Saves, SessionRows, Statuses
<1>5. /\ w.id = s /\ w.st = "select" /\ w.before.status = "none" /\ w.entity.status # "none"
      /\ w.entity.player \in Users
  BY <1>0, <1>2
<1>6. Creates(q, w)'
  <2>1. \A p \in Writers \ {q} : save'[p] = save[p]
    BY <1>2 DEF EventsInv, EventShape
  <2> QED BY <1>2, <1>5, <2>1 DEF Creates
<1>7. SavedBy(q, w)'
  BY <1>2, <1>3, <1>5, <1>6 DEF SavedBy
<1> QED BY <1>1, <1>2, <1>3, <1>4, <1>5, <1>7, QuietSave

LEMMA LoadEvents ==
    ASSUME RoomsInv, EventsInv, NEW q \in Writers, NEW s \in Sessions, NEW next \in Statuses \ {"none"},
           Load(q, s, next)
    PROVE  EventsInv'
<1>0. PICK w : w = [st |-> "read", id |-> s, entity |-> [session[s] EXCEPT !.status = next],
                    before |-> session[s]]
  OBVIOUS
<1>1. \A p \in Writers : req[p] = Idle
  BY AllIdle DEF Load, Free
<1>2. /\ UNCHANGED <<roomVars, session, reached, sock, emitted, repeated, inbox, pending>>
      /\ session[s].status # "none" /\ save[q] = NoSave
      /\ save' = [save EXCEPT ![q] = w]
  BY <1>0 DEF Load, Free, rtVars
<1>3. pending[q] = {} /\ pending \in [Writers -> SUBSET Events]
  BY <1>1, <1>2, IdleIs DEF EventsInv, JoinPending, EventShape, Inserted, Placed
<1>4. session[s] \in SessionRows /\ session[s].player \in Users
  BY <1>2 DEF EventsInv, EventShape, Sat
<1>5. w \in Saves
  BY <1>0, <1>4 DEF Saves, SessionRows
<1>6. /\ w.id = s /\ w.st = "read" /\ w.before = session[s] /\ w.entity.status = next
      /\ w.entity.player = session[s].player /\ w.entity.playerTwoId = session[s].playerTwoId
  BY <1>0, <1>4 DEF SessionRows
<1>7. Keeps(w, session[s])
  BY <1>2, <1>6 DEF Keeps
<1>8. SavedBy(q, w)'
  BY <1>2, <1>3, <1>4, <1>6, <1>7 DEF SavedBy, Keeps
<1> QED BY <1>1, <1>2, <1>3, <1>5, <1>6, <1>8, QuietSave

LEMMA SaveSelectEvents ==
    ASSUME RoomsInv, EventsInv, NEW q \in Writers, saveSelect(q)
    PROVE  EventsInv'
<1> DEFINE v == save[q]
           s == save[q].id
<1>0. PICK w : w = [save[q] EXCEPT !.st = "select", !.before = session[s]]
  OBVIOUS
<1>1. /\ v # NoSave /\ v.st = "read"
      /\ UNCHANGED <<roomVars, session, reached, sock, emitted, repeated, inbox, pending>>
  BY DEF saveSelect, rtVars
<1>2. save' = [save EXCEPT ![q] = w]
  BY <1>0 DEF saveSelect, EventsInv, EventShape
<1>3. /\ v \in Saves /\ s \in Sessions /\ SavedBy(q, v) /\ \A p \in Writers : req[p] = Idle
      /\ session[s] \in SessionRows
  BY <1>1, SaveIs
<1>4. /\ w \in Saves /\ w.id = s /\ w.st = "select" /\ w.before = session[s]
      /\ w.entity = v.entity
  BY <1>0, <1>3 DEF Saves
<1>5. pending \in [Writers -> SUBSET Events]
  BY DEF EventsInv, EventShape
<1>6. session[s].status # "none" /\ Keeps(v, session[s])
  BY <1>1, <1>3 DEF SavedBy, Creates
<1>7. SavedBy(q, w)'
  BY <1>1, <1>3, <1>4, <1>6 DEF SavedBy, Keeps
<1>8. pending[q] = {}
  BY <1>1, <1>3 DEF SavedBy
<1> QED BY <1>1, <1>2, <1>3, <1>4, <1>5, <1>7, <1>8, QuietSave

LEMMA SaveWriteEvents ==
    ASSUME RoomsInv, EventsInv, NEW q \in Writers, saveWrite(q)
    PROVE  EventsInv'
<1> DEFINE v == save[q]
           s == save[q].id
<1>0. PICK w : w = [save[q] EXCEPT !.st = "write"]
  OBVIOUS
<1>1. /\ v # NoSave /\ v.st = "select"
      /\ UNCHANGED <<roomVars, session, reached, sock, emitted, repeated, inbox>>
      /\ pending' = [pending EXCEPT ![q] = @ \cup onSession(s, v.entity, v.before)]
  BY DEF saveWrite, raise
<1>2. save' = [save EXCEPT ![q] = w]
  BY <1>0 DEF saveWrite, EventsInv, EventShape
<1>3. /\ v \in Saves /\ s \in Sessions /\ SavedBy(q, v) /\ \A p \in Writers : req[p] = Idle
  BY <1>1, SaveIs
<1>4. /\ w \in Saves /\ w.id = s /\ w.st = "write" /\ w.before = v.before /\ w.entity = v.entity
  BY <1>0, <1>3 DEF Saves
<1>5. /\ v.entity.player \in Users /\ v.entity.status # "none" /\ pending[q] = {}
      /\ IF session[s].status = "none" THEN Creates(q, v) ELSE Keeps(v, session[s])
  BY <1>1, <1>3 DEF SavedBy
<1>6. onSession(s, v.entity, v.before) \subseteq Events
  BY <1>3, <1>5, OnSessionIs
<1>7. /\ pending' \in [Writers -> SUBSET Events] /\ \A p \in Writers \ {q} : pending'[p] = pending[p]
      /\ pending'[q] = onSession(s, v.entity, v.before)
  BY <1>1, <1>5, <1>6 DEF EventsInv, EventShape
<1>8. w # NoSave
  BY <1>4, MultiplayerAssumption
<1>9. \A p \in Writers \ {q} : save'[p] = save[p]
  BY <1>2 DEF EventsInv, EventShape
<1>10. IF session'[s].status = "none" THEN Creates(q, w)' ELSE Keeps(w, session'[s])
  <2>1. CASE session[s].status = "none"
    BY <1>1, <1>4, <1>5, <1>9, <2>1 DEF Creates
  <2>2. CASE session[s].status # "none"
    BY <1>1, <1>4, <1>5, <2>2 DEF Keeps
  <2> QED BY <1>1, <2>1, <2>2
<1>11. SavedBy(q, w)'
  BY <1>4, <1>5, <1>7, <1>10 DEF SavedBy, Keeps
<1> QED BY <1>1, <1>2, <1>3, <1>4, <1>7, <1>8, <1>11, QuietSave

LEMMA SaveAbortEvents ==
    ASSUME RoomsInv, EventsInv, NEW q \in Writers, saveAbort(q)
    PROVE  EventsInv'
<1>1. /\ UNCHANGED <<roomVars, session, reached, sock, emitted, repeated, inbox>>
      /\ save[q] # NoSave /\ save' = [save EXCEPT ![q] = NoSave]
      /\ pending' = [pending EXCEPT ![q] = {}]
  BY DEF saveAbort, afterTransactionRollback
<1>2. /\ pending' \in [Writers -> SUBSET Events] /\ \A p \in Writers \ {q} : pending'[p] = pending[p]
      /\ pending'[q] = {}
  BY <1>1 DEF EventsInv, EventShape
<1>3. \A p \in Writers : req[p] = Idle
  BY <1>1, SaveIs
<1> QED BY <1>1, <1>2, <1>3, QuietSave

(* The row a save leaves: the entity's players, and a status that is there. *)
LEMMA CommittedRow ==
    ASSUME EventsInv, NEW q \in Writers, saveCommit(q)
    PROVE  LET v == save[q]  s == save[q].id  IN
           /\ session' \in [Sessions -> SessionRows] /\ reached' \in [Sessions -> SUBSET {"in_progress", "completed"}]
           /\ \A x \in Sessions \ {s} : session'[x] = session[x] /\ reached'[x] = reached[x]
           /\ session'[s].status # "none"
           /\ session'[s].player = v.entity.player /\ session'[s].playerTwoId = v.entity.playerTwoId
           /\ v.entity.status # v.before.status => session'[s].status = v.entity.status
           /\ reached[s] \subseteq reached'[s]
           /\ session'[s].status \in {"in_progress", "completed"} => session'[s].status \in reached'[s]
<1> DEFINE v == save[q]
           s == save[q].id
           row == [status |-> IF v.entity.status # v.before.status THEN v.entity.status
                             ELSE session[s].status,
                   player |-> v.entity.player, playerTwoId |-> v.entity.playerTwoId]
<1>1. v # NoSave /\ v.st = "write"
  BY DEF saveCommit
<1>2. v \in Saves /\ s \in Sessions /\ SavedBy(q, v) /\ session[s] \in SessionRows
  BY <1>1, SaveIs
<1>3. session \in [Sessions -> SessionRows] /\ reached \in [Sessions -> SUBSET {"in_progress", "completed"}]
  BY DEF EventsInv, EventShape
<1>4. session' = [session EXCEPT ![s] = row]
  BY DEF saveCommit
<1>5. v.entity \in SessionRows
  BY <1>2 DEF Saves
<1>6. row \in SessionRows
  BY <1>2, <1>5 DEF SessionRows
<1>7. /\ row.player = v.entity.player /\ row.playerTwoId = v.entity.playerTwoId
      /\ row.status = IF v.entity.status # v.before.status THEN v.entity.status ELSE session[s].status
  BY <1>2 DEF SessionRows
<1>8. row.status # "none"
  <2>1. v.entity.status # "none"
    BY <1>2 DEF SavedBy
  <2>2. session[s].status = "none" => v.before.status = "none"
    BY <1>1, <1>2 DEF SavedBy, Creates
  <2> QED BY <1>7, <2>1, <2>2
<1> HIDE DEF row
<1>9. /\ session' \in [Sessions -> SessionRows] /\ session'[s] = row
      /\ \A x \in Sessions \ {s} : session'[x] = session[x]
  BY <1>2, <1>3, <1>4, <1>6
<1>10. reached' = [reached EXCEPT ![s] = reached[s] \cup ({row.status} \cap {"in_progress", "completed"})]
  BY <1>2, <1>3, <1>9 DEF saveCommit
<1>11. /\ reached' \in [Sessions -> SUBSET {"in_progress", "completed"}]
       /\ reached'[s] = reached[s] \cup ({row.status} \cap {"in_progress", "completed"})
       /\ \A x \in Sessions \ {s} : reached'[x] = reached[x]
  BY <1>2, <1>3, <1>10
<1> QED BY <1>7, <1>8, <1>9, <1>11

(* What the subscriber queued is true of the row the commit leaves. *)
LEMMA CommittedEvents ==
    ASSUME EventsInv, NEW q \in Writers, saveCommit(q),
           NEW e \in onSession(save[q].id, save[q].entity, save[q].before)
    PROVE  Truthful(e)'
<1> DEFINE v == save[q]
           s == save[q].id
<1>1. v # NoSave
  BY DEF saveCommit
<1>2. v \in Saves /\ s \in Sessions /\ v.entity.player \in Users /\ v.entity \in SessionRows
  BY <1>1, SaveIs DEF SavedBy, Saves
<1>3. /\ session'[s].status # "none"
      /\ session'[s].player = v.entity.player /\ session'[s].playerTwoId = v.entity.playerTwoId
      /\ v.entity.status # v.before.status => session'[s].status = v.entity.status
      /\ session'[s].status \in {"in_progress", "completed"} => session'[s].status \in reached'[s]
  BY CommittedRow
<1>4. Players(session'[s]) = Players(v.entity)
  BY <1>3 DEF Players
<1>5. v.entity.player \in Players(v.entity)
  BY <1>2, RoomsAssumption DEF Players
<1>6. e.scope = "session" /\ e.id = s
  BY <1>2, OnSessionIs
<1>7. CASE e = Joined("session", s, v.entity.player)
  <2>1. e.users = {v.entity.player} /\ e.name = "player_joined"
    BY <1>7 DEF Joined
  <2> QED BY <1>3, <1>4, <1>5, <1>6, <2>1 DEF Truthful, Players
<1>8. CASE /\ e = Joined("session", s, v.entity.playerTwoId) /\ v.entity.playerTwoId # NoUser
           /\ v.entity.status = "in_progress" /\ v.before.status = "waiting"
  <2>1. e.users = {v.entity.playerTwoId} /\ e.name = "player_joined"
    BY <1>8 DEF Joined
  <2>2. "in_progress" \in reached'[s]
    BY <1>3, <1>8
  <2> QED BY <1>3, <1>6, <1>8, <2>1, <2>2 DEF Truthful, Players
<1>9. CASE /\ e = Completed(s, Players(v.entity))
           /\ v.entity.status = "completed" /\ v.before.status # "completed"
  <2>1. e.users = Players(v.entity) /\ e.name = "completed"
    BY <1>9 DEF Completed
  <2>2. "completed" \in reached'[s]
    BY <1>3, <1>9
  <2> QED BY <1>3, <1>6, <2>1, <2>2 DEF Truthful, Players
<1> QED BY <1>7, <1>8, <1>9 DEF onSession

LEMMA SaveCommitEvents ==
    ASSUME RoomsInv, EventsInv, NEW q \in Writers, saveCommit(q)
    PROVE  EventsInv'
<1> DEFINE v == save[q]
           s == save[q].id
<1>0. PICK w : w = [save[q] EXCEPT !.st = "committed"]
  OBVIOUS
<1>1. /\ v # NoSave /\ v.st = "write"
      /\ UNCHANGED <<req, member, sock, emitted, repeated, inbox, pending>>
  BY DEF saveCommit, roomVars, rtVars
<1>2. save' = [save EXCEPT ![q] = w]
  BY <1>0 DEF saveCommit, EventsInv, EventShape
<1>3. v \in Saves /\ s \in Sessions /\ SavedBy(q, v) /\ \A p \in Writers : req[p] = Idle
  BY <1>1, SaveIs
<1>4. /\ w \in Saves /\ w.id = s /\ w.st = "committed" /\ w.entity = v.entity
  BY <1>0, <1>3 DEF Saves
<1>5. /\ session' \in [Sessions -> SessionRows] /\ reached' \in [Sessions -> SUBSET {"in_progress", "completed"}]
      /\ \A x \in Sessions \ {s} : session'[x] = session[x] /\ reached'[x] = reached[x]
      /\ session'[s].status # "none"
      /\ session'[s].player = v.entity.player /\ session'[s].playerTwoId = v.entity.playerTwoId
      /\ reached[s] \subseteq reached'[s]
  BY CommittedRow
<1>6. /\ v.entity.player \in Users /\ v.entity.status # "none"
      /\ pending[q] \subseteq onSession(s, v.entity, v.before)
      /\ IF session[s].status = "none" THEN Creates(q, v) ELSE Keeps(v, session[s])
  BY <1>1, <1>3 DEF SavedBy
<1>7. Stay
  <2>1. session[s].status # "none" =>
          session'[s].player = session[s].player /\ session'[s].playerTwoId = session[s].playerTwoId
    BY <1>5, <1>6 DEF Keeps
  <2>2. ASSUME NEW x \in Sessions
        PROVE  /\ reached[x] \subseteq reached'[x]
               /\ session[x].status # "none" =>
                    /\ session'[x].status # "none" /\ session'[x].player = session[x].player
                    /\ session'[x].playerTwoId = session[x].playerTwoId
    BY <1>5, <2>1
  <2> QED BY <1>1, <2>2 DEF Stay
<1>8. Sat'
  BY <1>5, <1>6 DEF EventsInv, Sat
<1>9. save' \in [Writers -> Saves \cup {NoSave}]
  BY <1>2, <1>4 DEF EventsInv, EventShape
<1>10. EventShape'
  BY <1>1, <1>5, <1>9 DEF EventsInv, EventShape
<1>11. Emitted' /\ Listening' /\ InboxFits'
  BY <1>1, <1>7, StillEmitted, StillReached
<1>12. SavedBy(q, w)'
  <2>1. \A e \in pending[q] : e.scope = "session" /\ Truthful(e)'
    BY <1>3, <1>6, CommittedEvents, OnSessionIs
  <2> QED BY <1>1, <1>4, <1>5, <1>6, <2>1 DEF SavedBy
<1>13. ASSUME NEW p \in Writers \ {q}, NEW y \in {save[p]} \ {NoSave}, session[y.id].status = "none"
       PROVE  session'[y.id].status = "none" /\ w.id # y.id
  <2>1. y.id \in Sessions
    BY SaveIs
  <2>2. y.id # s
    BY <1>6, <1>13 DEF Creates
  <2> QED BY <1>4, <1>5, <1>13, <2>1, <2>2
<1>14. w # NoSave
  BY <1>4, MultiplayerAssumption
<1>15. \A p \in Writers \ {q} : \A y \in {save[p]} \ {NoSave} : session[y.id].status = "none" =>
         session'[y.id].status = "none" /\ (w # NoSave => w.id # y.id)
  BY <1>13
<1>16. /\ UNCHANGED <<req, member>> /\ \A p \in Writers \ {q} : pending'[p] = pending[p]
       /\ w \in Saves \cup {NoSave} /\ \A p \in Writers : req[p] = Idle
  BY <1>1, <1>3, <1>4
<1> HIDE DEF v, s
<1>17. (w = NoSave => pending'[q] = {}) /\ (w # NoSave => SavedBy(q, w)')
  BY <1>12, <1>14
<1> QED BY <1>2, <1>7, <1>8, <1>10, <1>11, <1>15, <1>16, <1>17, SaveEvents, ZenonT(60)

LEMMA SaveCommittedEvents ==
    ASSUME RoomsInv, EventsInv, NEW q \in Writers, saveCommitted(q)
    PROVE  EventsInv'
<1>1. /\ save[q] # NoSave /\ save[q].st = "committed" /\ save' = [save EXCEPT ![q] = NoSave]
      /\ UNCHANGED <<req, member, sock, session, reached>>
      /\ pending' = [pending EXCEPT ![q] = {}]
      /\ emitted' = emitted \cup pending[q] /\ repeated' = repeated \cup (pending[q] \cap emitted)
      /\ inbox' = [k \in Sockets |-> {y \in pending[q] : sock[k].chans \cap onEvent(y) # {}}]
  BY DEF saveCommitted, afterTransactionCommit, emit, roomVars
<1>2. SavedBy(q, save[q]) /\ \A p \in Writers : req[p] = Idle
  BY <1>1, SaveIs
<1>3. \A e \in pending[q] : e.scope = "session" /\ Truthful(e)
  BY <1>1, <1>2 DEF SavedBy
<1>4. pending \in [Writers -> SUBSET Events] /\ emitted \subseteq Events /\ repeated \subseteq Events
  BY DEF EventsInv, EventShape
<1>5. inbox' \in [Sockets -> SUBSET Events] /\ InboxFits'
  BY <1>1, <1>3, <1>4, Delivered
<1>6. Stay
  BY <1>1 DEF Stay
<1>7. Emitted'
  <2>1. \A y \in emitted' : y \in Events /\ Truthful(y)
    BY <1>1, <1>3, <1>4 DEF EventsInv, Emitted
  <2>2. \A y \in emitted' : Truthful(y)'
    BY <1>6, <2>1, TruthStays
  <2>3. \A y \in repeated' : y.scope = "session"
    BY <1>1, <1>3 DEF EventsInv, Emitted
  <2> QED BY <2>2, <2>3 DEF Emitted
<1>8. /\ pending' \in [Writers -> SUBSET Events] /\ pending'[q] = {}
      /\ \A p \in Writers \ {q} : pending'[p] = pending[p]
  BY <1>1, <1>4
<1>9. save' \in [Writers -> Saves \cup {NoSave}]
  BY <1>1 DEF EventsInv, EventShape
<1>10. EventShape'
  BY <1>1, <1>4, <1>5, <1>8, <1>9 DEF EventsInv, EventShape
<1>11. Sat'
  BY <1>1 DEF EventsInv, Sat
<1>12. Listening'
  BY <1>1 DEF EventsInv, Listening, isRoomMember, isSessionPlayer, Players
<1> QED BY <1>1, <1>2, <1>5, <1>6, <1>7, <1>8, <1>10, <1>11, <1>12, SaveEvents

LEMMA SessionEvents ==
    ASSUME RoomsInv, EventsInv, NEW q \in Writers, Session(q)
    PROVE  EventsInv'
<1>1. ASSUME NEW s \in Sessions, accept(q, s) \/ abandonInvitation(q, s) \/ updateScore(q, s) \/ update(q, s)
      PROVE  EventsInv'
  <2>1. PICK next : Load(q, s, next) /\ next \in {"in_progress", "abandoned", "completed", session[s].status}
    BY <1>1 DEF accept, abandonInvitation, updateScore, update
  <2>2. next \in Statuses \ {"none"}
    BY <2>1 DEF Load, Statuses, EventsInv, EventShape, SessionRows
  <2> QED BY <2>1, <2>2, LoadEvents
<1>2. ASSUME NEW s \in Sessions, NEW u \in Users, NEW v \in Users \cup {NoUser}, createSession(q, s, u, v)
      PROVE  EventsInv'
  BY <1>2, CreateSessionEvents
<1> QED BY <1>1, <1>2, SaveSelectEvents, SaveWriteEvents, SaveCommitEvents, SaveCommittedEvents,
     SaveAbortEvents DEF Session

LEMMA SweepEvents ==
    ASSUME RoomsInv, EventsInv, NEW s \in Sessions, sweep(s)
    PROVE  EventsInv'
<1>1. /\ session[s].status # "none" /\ session' = [session EXCEPT ![s].status = "abandoned"]
      /\ UNCHANGED <<save, reached, req, member, sock, pending, emitted, repeated, inbox>>
  BY DEF sweep, roomVars, rtVars
<1>2. session \in [Sessions -> SessionRows]
  BY DEF EventsInv, EventShape
<1>3. /\ session' \in [Sessions -> SessionRows]
      /\ session'[s].status = "abandoned" /\ session'[s].player = session[s].player
      /\ session'[s].playerTwoId = session[s].playerTwoId
      /\ \A x \in Sessions \ {s} : session'[x] = session[x]
  BY <1>1, <1>2 DEF SessionRows, Statuses
<1>4. Stay
  BY <1>1, <1>3 DEF Stay
<1>5. Sat'
  BY <1>1, <1>3 DEF EventsInv, Sat
<1>6. EventShape' /\ Apart'
  BY <1>1, <1>3 DEF EventsInv, EventShape, Apart
<1>7. JoinPending' /\ JoinOnce'
  BY <1>1 DEF EventsInv, JoinPending, JoinOnce, Inserted, Placed, JoinOf, Joined, Row
<1>8. Emitted' /\ Listening' /\ InboxFits'
  BY <1>1, <1>4, StillEmitted, StillReached
<1>9. Saving'
  <2> SUFFICES ASSUME NEW p \in Writers, NEW v \in {save[p]} \ {NoSave} PROVE SavedBy(p, v)'
    BY <1>1 DEF Saving
  <2>1. v = save[p] /\ v \in Saves /\ v.id \in Sessions /\ SavedBy(p, v)
    BY SaveIs
  <2>2. ASSUME session[v.id].status = "none"
        PROVE  /\ session'[v.id].status = "none"
               /\ \A x \in Writers \ {p} : save'[x] # NoSave => save'[x].id # v.id
    <3>1. Creates(p, v)
      BY <2>1, <2>2 DEF SavedBy
    <3> QED BY <1>1, <1>3, <2>1, <2>2, <3>1 DEF Creates
  <2> QED BY <1>1, <1>4, <2>1, <2>2, SavedStays
<1> QED BY <1>5, <1>6, <1>7, <1>8, <1>9 DEF EventsInv

-----------------------------------------------------------------------------
(* Events *)

LEMMA EventsStart == Init => EventsInv
<1> SUFFICES ASSUME Init PROVE EventsInv
  OBVIOUS
<1> USE DEF Init, RealtimeInit, RoomsInit
<1>1. EventShape
  BY DEF EventShape, SessionRows, Statuses
<1>2. Apart /\ Sat /\ Emitted /\ Listening /\ InboxFits
  BY DEF Apart, Sat, Emitted, Listening, InboxFits
<1>3. \A q \in Writers : ~Inserted(req[q]) /\ ~Placed(req[q])
  BY IdleIs DEF Inserted, Placed
<1>4. JoinPending /\ JoinOnce /\ Saving
  BY <1>3 DEF JoinPending, JoinOnce, Saving
<1> QED BY <1>1, <1>2, <1>4 DEF EventsInv

LEMMA EventsStep == RoomsInv /\ EventsInv /\ [Next]_vars => EventsInv'
<1> SUFFICES ASSUME RoomsInv, EventsInv, [Next]_vars PROVE EventsInv'
  OBVIOUS
<1>1. CASE LockExpires
  <2>1. UNCHANGED <<rtVars, req, member, session, save, reached>>
    BY <1>1 DEF LockExpires, JobLockExpires
  <2> QED BY <2>1, IdleEvents
<1>2. ASSUME NEW r \in Rooms, Starts(r) \/ Passes(r) PROVE EventsInv'
  <2>1. UNCHANGED <<rtVars, req, member, session, save, reached>>
    BY <1>2 DEF Starts, Passes, start, Expire
  <2> QED BY <2>1, IdleEvents
<1>3. ASSUME NEW i \in Instances, closeExpiredRooms(i) \/ Crash(i) PROVE EventsInv'
  <2>1. UNCHANGED <<rtVars, req, member, session, save, reached>>
    BY <1>3 DEF closeExpiredRooms, Crash, JobFind, JobClose, JobCrash
  <2> QED BY <2>1, IdleEvents
<1>4. CASE UNCHANGED vars
  <2>1. UNCHANGED <<rtVars, req, member, session, save, reached>>
    BY <1>4 DEF vars, roomVars
  <2> QED BY <2>1, IdleEvents
<1>5. ASSUME NEW q \in Writers, Handler(q) \/ Continue(q) \/ Session(q) \/ Fails(q) PROVE EventsInv'
  BY <1>5, HandlerEvents, ContinueEvents, SessionEvents, FailsEvents
<1> QED BY <1>1, <1>2, <1>3, <1>4, <1>5, GatewayEvents, SweepEvents DEF Next

LEMMA EventsInductive == Spec => []EventsInv
<1>1. Init => EventsInv
  BY EventsStart
<1>2. RoomsInv /\ EventsInv /\ [Next]_vars => EventsInv'
  BY EventsStep
<1> QED BY <1>1, <1>2, RoomsInductive, PTL DEF Spec

(* AnnouncedIsCommitted: an event raised after a commit tells of a row that *)
(* is there, whichever handlers wrote since, so a client that fetches the   *)
(* row finds the change; and a place in a room is announced once.           *)
THEOREM EventsAreCommitted == Spec => []AnnouncedIsCommitted
<1>1. EventsInv => AnnouncedIsCommitted
  BY DEF EventsInv, Emitted, Truthful, AnnouncedIsCommitted
<1> QED BY <1>1, EventsInductive, PTL

(* A connected socket is in its user's own channel. *)
Connected == \A k \in Sockets : sock[k].st = "on" => userChan(Owner[k]) \in sock[k].chans

LEMMA OnlyTheGateway ==
    ASSUME [Next]_vars
    PROVE  sock' = sock \/ \E k \in Sockets : Gateway(k)
<1> USE DEF rtVars, roomVars, raise, afterTransactionCommit, afterTransactionRollback
<1>1. ASSUME NEW q \in Writers, Handler(q) PROVE sock' = sock
  BY <1>1 DEF Handler, create, join, joinByCode, submitGuess
<1>2. ASSUME NEW q \in Writers, Continue(q) PROVE sock' = sock
  BY <1>2 DEF Continue, createSave, joinCheck, addPlayerLock, addPlayerInsert, addPlayerCommit,
     addPlayerCommitted, guessFind, guessScore, guessClaim
<1>3. ASSUME NEW q \in Writers, Session(q) PROVE sock' = sock
  BY <1>3 DEF Session, createSession, accept, abandonInvitation, updateScore, update, Load, saveSelect,
     saveWrite, saveCommit, saveCommitted, saveAbort
<1>4. ASSUME NEW q \in Writers, Fails(q) PROVE sock' = sock
  BY <1>4 DEF Fails, Abort
<1>5. ASSUME NEW r \in Rooms, Starts(r) \/ Passes(r) PROVE sock' = sock
  BY <1>5 DEF Starts, Passes, start, Expire
<1>6. ASSUME NEW i \in Instances, closeExpiredRooms(i) \/ Crash(i) PROVE sock' = sock
  BY <1>6 DEF closeExpiredRooms, Crash, JobFind, JobClose, JobCrash
<1>7. ASSUME NEW s \in Sessions, sweep(s) PROVE sock' = sock
  BY <1>7 DEF sweep
<1>8. CASE LockExpires \/ UNCHANGED vars
  BY <1>8 DEF LockExpires, JobLockExpires, vars
<1> QED BY <1>1, <1>2, <1>3, <1>4, <1>5, <1>6, <1>7, <1>8 DEF Next

LEMMA ConnectedStep ==
    ASSUME EventShape, Connected, [Next]_vars
    PROVE  Connected'
<1>1. CASE sock' = sock
  BY <1>1 DEF Connected
<1>2. ASSUME NEW k \in Sockets, Gateway(k) PROVE Connected'
  <2>1. sock[k] \in [st : {"verifying", "on", "off"}, chans : SUBSET Channels]
    BY DEF EventShape
  <2>2. PICK x : /\ sock' = [sock EXCEPT ![k] = x]
                 /\ x.st = "on" => userChan(Owner[k]) \in x.chans
    <3>1. CASE handleConnection(k)
      <4>1. sock' = [sock EXCEPT ![k] = [st |-> "on", chans |-> {userChan(Owner[k])}]]
        BY <3>1 DEF handleConnection
      <4>2. userChan(Owner[k]) \in [st |-> "on", chans |-> {userChan(Owner[k])}].chans
        OBVIOUS
      <4> QED BY <4>1, <4>2, Zenon
    <3>2. CASE handleDisconnect(k)
      <4>1. sock' = [sock EXCEPT ![k] = [st |-> "off", chans |-> {}]]
        BY <3>2 DEF handleDisconnect
      <4>2. [st |-> "off", chans |-> {}].st # "on"
        OBVIOUS
      <4> QED BY <4>1, <4>2, Zenon
    <3>3. ASSUME NEW c, NEW allowed, handleSubscribe(k, c, allowed)
          PROVE  \E x : /\ sock' = [sock EXCEPT ![k] = x]
                        /\ x.st = "on" => userChan(Owner[k]) \in x.chans
      <4>1. sock' = [sock EXCEPT ![k] = [sock[k] EXCEPT !.chans = sock[k].chans \cup {c}]]
        BY <3>3 DEF handleSubscribe, EventShape
      <4>2. [sock[k] EXCEPT !.chans = sock[k].chans \cup {c}].chans = sock[k].chans \cup {c}
        BY <2>1
      <4>3. userChan(Owner[k]) \in sock[k].chans
        BY <3>3 DEF handleSubscribe, Connected
      <4> QED BY <4>1, <4>2, <4>3
    <3>4. ASSUME NEW c, handleUnsubscribe(k, c)
          PROVE  \E x : /\ sock' = [sock EXCEPT ![k] = x]
                        /\ x.st = "on" => userChan(Owner[k]) \in x.chans
      <4>1. sock' = [sock EXCEPT ![k] = [sock[k] EXCEPT !.chans = sock[k].chans \ {c}]]
        BY <3>4 DEF handleUnsubscribe, EventShape
      <4>2. [sock[k] EXCEPT !.chans = sock[k].chans \ {c}].chans = sock[k].chans \ {c}
        BY <2>1
      <4>3. userChan(Owner[k]) \in sock[k].chans /\ userChan(Owner[k]) # c
        BY <3>4 DEF handleUnsubscribe, Connected, userChan
      <4> QED BY <4>1, <4>2, <4>3
    <3> QED BY <1>2, <3>1, <3>2, <3>3, <3>4 DEF Gateway, Subscribe
  <2>3. sock'[k] = x /\ \A j \in Sockets \ {k} : sock'[j] = sock[j]
    BY <2>2 DEF EventShape
  <2> QED BY <2>2, <2>3 DEF Connected
<1> QED BY <1>1, <1>2, OnlyTheGateway

LEMMA ConnectedInductive == Spec => []Connected
<1>1. Init => Connected
  BY DEF Init, RealtimeInit, Connected
<1>2. EventsInv /\ Connected /\ [Next]_vars => Connected'
  BY ConnectedStep DEF EventsInv
<1> QED BY <1>1, <1>2, EventsInductive, PTL DEF Spec

(* Only the end of a transaction raises events: true ones, to the sockets  *)
(* that are in one of their channels.                                      *)
LEMMA RaisedIs ==
    ASSUME RoomsInv, EventsInv, [Next]_vars
    PROVE  \/ emitted' = emitted
           \/ \E q \in Writers :
                /\ emitted' = emitted \cup pending[q] /\ UNCHANGED <<member, session>>
                /\ inbox' = [k \in Sockets |-> {e \in pending[q] : sock[k].chans \cap onEvent(e) # {}}]
                /\ \A e \in pending[q] : e \in Events /\ Truthful(e)
<1>1. pending \in [Writers -> SUBSET Events]
  BY DEF EventsInv, EventShape
<1>2. ASSUME NEW q \in Writers, saveCommitted(q)
      PROVE  /\ emitted' = emitted \cup pending[q] /\ UNCHANGED <<member, session>>
             /\ inbox' = [k \in Sockets |-> {e \in pending[q] : sock[k].chans \cap onEvent(e) # {}}]
             /\ \A e \in pending[q] : e \in Events /\ Truthful(e)
  <2>1. save[q] # NoSave /\ save[q].st = "committed"
    BY <1>2 DEF saveCommitted
  <2>2. SavedBy(q, save[q])
    BY <2>1, SaveIs
  <2>3. \A e \in pending[q] : Truthful(e)
    BY <2>1, <2>2 DEF SavedBy
  <2> QED BY <1>1, <1>2, <2>3 DEF saveCommitted, afterTransactionCommit, emit, roomVars
<1>3. ASSUME NEW q \in Writers, addPlayerCommitted(q), UNCHANGED session
      PROVE  /\ emitted' = emitted \cup pending[q] /\ UNCHANGED <<member, session>>
             /\ inbox' = [k \in Sockets |-> {e \in pending[q] : sock[k].chans \cap onEvent(e) # {}}]
             /\ \A e \in pending[q] : e \in Events /\ Truthful(e)
  <2>1. req[q] \in Request /\ req[q].op = "join" /\ Placed(req[q])
    BY <1>3 DEF RoomsInv, RoomShape, addPlayerCommitted, Placed
  <2>2. pending[q] \subseteq {JoinOf(req[q])} /\ member[req[q].room][req[q].user] # NoRow
    BY <2>1, Unsaved DEF EventsInv, JoinPending, JoinOnce, Row
  <2>3. Truthful(JoinOf(req[q]))
    BY <2>1, <2>2, BusyIs, JoinIs DEF JoinOf, Truthful
  <2> QED BY <1>1, <1>3, <2>2, <2>3 DEF addPlayerCommitted, afterTransactionCommit, emit
<1> USE DEF rtVars, roomVars, raise, afterTransactionRollback
<1>4. ASSUME NEW q \in Writers, Handler(q) PROVE emitted' = emitted
  BY <1>4 DEF Handler, create, join, joinByCode, submitGuess
<1>5. ASSUME NEW q \in Writers, Continue(q) PROVE emitted' = emitted \/ addPlayerCommitted(q)
  BY <1>5 DEF Continue, createSave, joinCheck, addPlayerLock, addPlayerInsert, addPlayerCommit,
     guessFind, guessScore, guessClaim
<1>6. ASSUME NEW q \in Writers, Session(q) PROVE emitted' = emitted \/ saveCommitted(q)
  BY <1>6 DEF Session, createSession, accept, abandonInvitation, updateScore, update, Load, saveSelect,
     saveWrite, saveCommit, saveAbort
<1>7. ASSUME NEW q \in Writers, Fails(q) PROVE emitted' = emitted
  BY <1>7 DEF Fails, Abort
<1>8. ASSUME NEW r \in Rooms, Starts(r) \/ Passes(r) PROVE emitted' = emitted
  BY <1>8 DEF Starts, Passes, start, Expire
<1>9. ASSUME NEW i \in Instances, closeExpiredRooms(i) \/ Crash(i) PROVE emitted' = emitted
  BY <1>9 DEF closeExpiredRooms, Crash, JobFind, JobClose, JobCrash
<1>10. ASSUME NEW s \in Sessions, sweep(s) PROVE emitted' = emitted
  BY <1>10 DEF sweep
<1>11. CASE LockExpires \/ UNCHANGED vars
  BY <1>11 DEF LockExpires, JobLockExpires, vars
<1>12. ASSUME NEW k \in Sockets, Gateway(k) PROVE emitted' = emitted
  BY <1>12 DEF Gateway, Subscribe, handleConnection, handleDisconnect, handleSubscribe, handleUnsubscribe
<1>13. ASSUME NEW q \in Writers, Continue(q) PROVE UNCHANGED session
  BY <1>13 DEF Continue
<1> QED BY <1>2, <1>3, <1>4, <1>5, <1>6, <1>7, <1>8, <1>9, <1>10, <1>11, <1>12, <1>13 DEF Next

(* EventsReachPlayers: an event that is raised reaches the sockets of those *)
(* it concerns and the subscribers, and no socket gets one of a room its    *)
(* user is not in or of a session its user does not play, however           *)
(* subscriptions, joins and saves overlap.                                  *)
THEOREM PlayersAreReached == Spec => EventsReachPlayers
<1>1. ASSUME RoomsInv, EventsInv, Connected, [Next]_vars, InboxFits', NEW k \in Sockets
      PROVE  /\ \A e \in inbox'[k] : Plays(Owner[k], e)'
             /\ \A e \in emitted' \ emitted :
                  (sock[k].st = "on" /\ Concerned(Owner[k], e)') \/ Subscribed(k, e) => e \in inbox'[k]
  <2>1. \A e \in inbox'[k] : Plays(Owner[k], e)'
    BY <1>1 DEF InboxFits, Plays, isRoomMember, isSessionPlayer
  <2>2. ASSUME NEW e \in emitted' \ emitted,
               (sock[k].st = "on" /\ Concerned(Owner[k], e)') \/ Subscribed(k, e)
        PROVE  e \in inbox'[k]
    <3>1. PICK q \in Writers :
            /\ emitted' = emitted \cup pending[q] /\ UNCHANGED <<member, session>>
            /\ inbox' = [j \in Sockets |-> {y \in pending[q] : sock[j].chans \cap onEvent(y) # {}}]
            /\ \A y \in pending[q] : y \in Events /\ Truthful(y)
      BY <1>1, <2>2, RaisedIs
    <3>2. e \in pending[q] /\ e \in Events /\ Truthful(e)
      BY <2>2, <3>1
    <3>3. CASE Subscribed(k, e)
      BY <3>1, <3>2, <3>3 DEF Subscribed, onEvent
    <3>4. CASE sock[k].st = "on" /\ Concerned(Owner[k], e)'
      <4>1. Concerned(Owner[k], e)
        BY <3>1, <3>4 DEF Concerned, isSessionPlayer, Players
      <4>2. Owner[k] \in e.users
        BY <3>2, <4>1 DEF Concerned, Truthful, isSessionPlayer, Events
      <4>3. userChan(Owner[k]) \in sock[k].chans
        BY <1>1, <3>4 DEF Connected
      <4>4. userChan(Owner[k]) \in onEvent(e)
        BY <4>2 DEF onEvent
      <4> QED BY <3>1, <3>2, <4>3, <4>4
    <3> QED BY <2>2, <3>3, <3>4
  <2> QED BY <2>1, <2>2
<1>2. RoomsInv /\ EventsInv /\ Connected /\ [Next]_vars /\ EventsInv' =>
        [\A k \in Sockets :
           /\ \A e \in inbox'[k] : Plays(Owner[k], e)'
           /\ \A e \in emitted' \ emitted :
                (sock[k].st = "on" /\ Concerned(Owner[k], e)') \/ Subscribed(k, e) => e \in inbox'[k]]_vars
  BY <1>1 DEF EventsInv
<1> QED BY <1>2, RoomsInductive, EventsInductive, ConnectedInductive, PTL DEF Spec, EventsReachPlayers
=============================================================================
