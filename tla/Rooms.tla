------------------------------- MODULE Rooms -------------------------------
(***************************************************************************)
(* RoomsService: rooms around one lyric for 24 hours, joined by id or by   *)
(* code up to a cap, one scored guess per member, and the hourly job that  *)
(* closes the expired ones.  Every await of a handler is a step; a room's  *)
(* row lock is held from SELECT .. FOR UPDATE to the end of the            *)
(* transaction.  PLAYER_JOINED goes through the subscriber of Realtime.    *)
(***************************************************************************)
EXTENDS Realtime

CONSTANTS
  Codes,        \* the room codes the generator can draw
  TakenCodes,   \* those of rooms the instance does not follow
  MaxAttempts,  \* ROOM_CODE_MAX_ATTEMPTS
  Scores,       \* what calculateScore can give: 0, 50 or 100
  MaxPlayers,   \* the column default of rooms.maxPlayers, 8
  Instances,    \* the processes whose cron runs closeExpiredRooms
  MaxCrashes,   \* bound on crashes of the job
  NoUser, NoRoom, NoRow, NoOne

ASSUME RoomsAssumption ==
  /\ Scores \subseteq {0, 50, 100} /\ 0 \in Scores /\ TakenCodes \subseteq Codes
  /\ MaxAttempts \in Nat \ {0} /\ MaxPlayers \in Nat \ {0} /\ MaxCrashes \in Nat
  /\ NoUser \notin Users /\ NoRoom \notin Rooms /\ NoOne \notin Writers \cup Instances
  /\ NoRoom \notin [code : Codes, host : Users \cup {NoUser},
                    status : {"lobby", "in_progress"}, isClosed : BOOLEAN, expired : BOOLEAN]
  /\ NoRow \notin [hasGuessed : BOOLEAN, score : Scores]

VARIABLES
  room,      \* the rooms table, or NoRoom
  member,    \* the room_users table, by room and user, or NoRow
  rowLock,   \* the transaction that holds each room's row lock
  req,       \* what each request handler is doing
  told,      \* the score each member was answered, Untold before
  wins,      \* how many guesses of each member were answered
  jobLock,   \* the holder of 'rooms:close-expired'
  job,       \* the rooms each instance's closeExpiredRooms found
  crashes

roomVars == <<room, member, rowLock, req, told, wins, jobLock, job, crashes>>

Untold == 101
RoomRows == [code : Codes, host : Users \cup {NoUser}, status : {"lobby", "in_progress"},
             isClosed : BOOLEAN, expired : BOOLEAN]
RoomUserRows == [hasGuessed : BOOLEAN, score : Scores]
Idle == [op |-> "idle", st |-> "idle", user |-> NoUser, room |-> NoRoom, n |-> 0]
ReqTypes ==
  {Idle} \cup [op : {"create", "join", "guess"},
               st : {"drawing", "checked", "absent", "adding", "inserted", "committed", "found", "claimed"},
               user : Users, room : Rooms, n : 0..(MaxAttempts - 1) \cup Scores]

RoomsTypeOK ==
  /\ room \in [Rooms -> RoomRows \cup {NoRoom}]
  /\ member \in [Rooms -> [Users -> RoomUserRows \cup {NoRow}]]
  /\ rowLock \in [Rooms -> Writers \cup {NoOne}]
  /\ req \in [Writers -> ReqTypes]
  /\ told \in [Rooms -> [Users -> Scores \cup {Untold}]]
  /\ wins \in [Rooms -> [Users -> Nat]]
  /\ jobLock \in Instances \cup {NoOne}
  /\ job \in [Instances -> SUBSET Rooms]
  /\ crashes \in 0..MaxCrashes

\* The row create saves has neither host nor cap: the columns' defaults apply.
NewRoom(c) == [code |-> c, host |-> NoUser, status |-> "lobby", isClosed |-> FALSE, expired |-> FALSE]

RoomsInit ==
  /\ room \in [Rooms -> {NoRoom} \cup {NewRoom(c) : c \in Codes \ TakenCodes}]
  /\ \A r, x \in Rooms : r # x /\ room[r] # NoRoom /\ room[x] # NoRoom => room[r].code # room[x].code
  /\ member = [r \in Rooms |-> [u \in Users |-> NoRow]]
  /\ rowLock = [r \in Rooms |-> NoOne]
  /\ req = [q \in Writers |-> Idle]
  /\ told = [r \in Rooms |-> [u \in Users |-> Untold]]
  /\ wins = [r \in Rooms |-> [u \in Users |-> 0]]
  /\ jobLock = NoOne
  /\ job = [i \in Instances |-> {}]
  /\ crashes = 0

Goto(q, st) == req' = [req EXCEPT ![q].st = st]
Done(q) == req' = [req EXCEPT ![q] = Idle]

Members(r) == {u \in Users : member[r][u] # NoRow}
\* Mutant: a join or a guess without assertPlayable.
PlayableAny(r) == room[r] # NoRoom
Playable(r) == room[r] # NoRoom /\ ~room[r].isClosed /\ ~room[r].expired

---------------------------------------------------------------------------
(* create *)

\* The lyric was found; the first code is drawn.
create(q, u, r) ==
  /\ req[q] = Idle /\ room[r] = NoRoom
  /\ \A p \in Writers : req[p].op = "create" => req[p].room # r
  /\ req' = [req EXCEPT ![q] = [op |-> "create", st |-> "drawing", user |-> u, room |-> r, n |-> 0]]
  /\ UNCHANGED <<room, member, rowLock, told, wins, jobLock, job, crashes, rtVars>>

LastAttempt(n) == n + 1 = MaxAttempts

\* save(room): a code in use violates the unique index and is drawn again, at
\* most ROOM_CODE_MAX_ATTEMPTS times.
createSave(q, c) ==
  LET r == req[q].room IN
  /\ req[q].op = "create"
  /\ IF c \in TakenCodes \/ \E x \in Rooms : room[x] # NoRoom /\ room[x].code = c
     THEN /\ IF LastAttempt(req[q].n) THEN Done(q)
             ELSE req' = [req EXCEPT ![q].n = @ + 1]
          /\ UNCHANGED room
     ELSE /\ room' = [room EXCEPT ![r] = NewRoom(c)]
          /\ Done(q)
  /\ UNCHANGED <<member, rowLock, told, wins, jobLock, job, crashes, rtVars>>

---------------------------------------------------------------------------
(* join and joinByCode *)

\* The room is read and must be playable.
join(q, u, r) ==
  /\ req[q] = Idle /\ Playable(r)
  /\ req' = [req EXCEPT ![q] = [op |-> "join", st |-> "checked", user |-> u, room |-> r, n |-> 0]]
  /\ UNCHANGED <<room, member, rowLock, told, wins, jobLock, job, crashes, rtVars>>
joinByCode(q, u, c) == \E r \in Rooms : room[r] # NoRoom /\ room[r].code = c /\ join(q, u, r)

\* The caller must not be a member yet.
joinCheck(q) ==
  /\ req[q].op = "join" /\ req[q].st = "checked"
  /\ IF member[req[q].room][req[q].user] # NoRow THEN Done(q) ELSE Goto(q, "absent")
  /\ UNCHANGED <<room, member, rowLock, told, wins, jobLock, job, crashes, rtVars>>

\* Mutant: the room is read without its lock.
addPlayerRead(q) ==
  /\ req[q].op = "join" /\ req[q].st = "absent"
  /\ Goto(q, "adding")
  /\ UNCHANGED <<room, member, rowLock, told, wins, jobLock, job, crashes, rtVars>>
\* addPlayer: SELECT .. FOR UPDATE of the room.
addPlayerLock(q) ==
  LET r == req[q].room IN
  /\ req[q].op = "join" /\ req[q].st = "absent" /\ rowLock[r] = NoOne
  /\ rowLock' = [rowLock EXCEPT ![r] = q]
  /\ Goto(q, "adding")
  /\ UNCHANGED <<room, member, told, wins, jobLock, job, crashes, rtVars>>

IsFull(r) == Cardinality(Members(r)) >= MaxPlayers

\* The count and the insert, then the subscriber's afterInsert.  A full room,
\* or a second row for the user, rolls the transaction back.
addPlayerInsert(q) ==
  LET r == req[q].room  u == req[q].user IN
  /\ req[q].op = "join" /\ req[q].st = "adding"
  /\ IF IsFull(r) \/ member[r][u] # NoRow
     THEN /\ rowLock' = [rowLock EXCEPT ![r] = NoOne] /\ Done(q)
          /\ afterTransactionRollback(q)
     ELSE /\ raise(q, {Joined("room", r, u)})
          /\ Goto(q, "inserted") /\ UNCHANGED rowLock
  /\ UNCHANGED <<room, member, told, wins, jobLock, job, crashes>>

\* COMMIT: the row is there and the lock is free.
addPlayerCommit(q) ==
  LET r == req[q].room  u == req[q].user IN
  /\ req[q].op = "join" /\ req[q].st = "inserted"
  /\ member' = [member EXCEPT ![r][u] = [hasGuessed |-> FALSE, score |-> 0]]
  /\ rowLock' = [rowLock EXCEPT ![r] = NoOne]
  /\ Goto(q, "committed")
  /\ UNCHANGED <<room, told, wins, jobLock, job, crashes, rtVars>>

addPlayerCommitted(q) ==
  /\ req[q].op = "join" /\ req[q].st = "committed"
  /\ afterTransactionCommit(q) /\ Done(q)
  /\ UNCHANGED <<room, member, rowLock, told, wins, jobLock, job, crashes>>

---------------------------------------------------------------------------
(* submitGuess *)

submitGuess(q, u, r) ==
  /\ req[q] = Idle /\ Playable(r)
  /\ req' = [req EXCEPT ![q] = [op |-> "guess", st |-> "checked", user |-> u, room |-> r, n |-> 0]]
  /\ UNCHANGED <<room, member, rowLock, told, wins, jobLock, job, crashes, rtVars>>

guessFind(q) ==
  /\ req[q].op = "guess" /\ req[q].st = "checked"
  /\ IF member[req[q].room][req[q].user] = NoRow THEN Done(q) ELSE Goto(q, "found")
  /\ UNCHANGED <<room, member, rowLock, told, wins, jobLock, job, crashes, rtVars>>

\* Mutant: the update without its hasGuessed = false.
ClaimableAlways(row) == TRUE
Claimable(row) == ~row.hasGuessed

\* UPDATE .. SET hasGuessed = true WHERE hasGuessed = false; the loser gets a
\* conflict and no answer.  calculateScore: a title is worth 100, an artist 50.
guessClaim(q, score) ==
  LET r == req[q].room  u == req[q].user IN
  /\ req[q].op = "guess" /\ req[q].st = "found"
  /\ IF Claimable(member[r][u])
     THEN /\ member' = [member EXCEPT ![r][u].hasGuessed = TRUE]
          /\ req' = [req EXCEPT ![q].st = "claimed", ![q].n = score]
     ELSE /\ Done(q) /\ UNCHANGED member
  /\ UNCHANGED <<room, rowLock, told, wins, jobLock, job, crashes, rtVars>>

\* The score is stored and answered, with the song.
guessScore(q) ==
  LET r == req[q].room  u == req[q].user IN
  /\ req[q].op = "guess" /\ req[q].st = "claimed"
  /\ member' = [member EXCEPT ![r][u].score = req[q].n]
  /\ told' = [told EXCEPT ![r][u] = req[q].n]
  /\ wins' = [wins EXCEPT ![r][u] = @ + 1]
  /\ Done(q)
  /\ UNCHANGED <<room, rowLock, jobLock, job, crashes, rtVars>>

---------------------------------------------------------------------------
(* start *)

\* The checks of start, on the row it read.
mayStart(r, u) == Playable(r) /\ room[r].host = u /\ room[r].status = "lobby"

\* A refusal changes nothing.  No row this revision's create saves has a host,
\* so every call is refused; the update after the checks is one step here.
start(u, r) ==
  /\ room[r] # NoRoom
  /\ room' = IF mayStart(r, u) THEN [room EXCEPT ![r].status = "in_progress"] ELSE room
  /\ UNCHANGED <<member, rowLock, req, told, wins, jobLock, job, crashes, rtVars>>

---------------------------------------------------------------------------
(* Time, failures, closeExpiredRooms *)

\* 24 hours after its creation.
Expire(r) ==
  /\ room[r] # NoRoom /\ ~room[r].expired
  /\ room' = [room EXCEPT ![r].expired = TRUE]
  /\ UNCHANGED <<member, rowLock, req, told, wins, jobLock, job, crashes, rtVars>>

\* The handler's process or connection dies, or its commit fails: what was not
\* committed is rolled back and what it had not said is not said.
Abort(q) ==
  /\ req[q] # Idle
  /\ Done(q)
  /\ rowLock' = [r \in Rooms |-> IF rowLock[r] = q THEN NoOne ELSE rowLock[r]]
  /\ afterTransactionRollback(q)
  /\ UNCHANGED <<room, member, told, wins, jobLock, job, crashes>>

\* Mutant: only rooms nobody is in.
ExpiredEmpty(r) == room[r] # NoRoom /\ ~room[r].isClosed /\ room[r].expired /\ Members(r) = {}
Expired(r) == room[r] # NoRoom /\ ~room[r].isClosed /\ room[r].expired

\* The lock is acquired and the expired rooms are read.  A run that finds none
\* releases the lock again and has changed nothing.
JobFind(i) ==
  /\ job[i] = {} /\ jobLock = NoOne
  /\ \E r \in Rooms : Expired(r)
  /\ jobLock' = i
  /\ job' = [job EXCEPT ![i] = {r \in Rooms : Expired(r)}]
  /\ UNCHANGED <<room, member, rowLock, req, told, wins, crashes, rtVars>>

\* UPDATE .. WHERE id IN (..), which waits for the rows' locks; the lock is
\* released if it is still held.
JobClose(i) ==
  /\ job[i] # {} /\ \A r \in job[i] : rowLock[r] = NoOne
  /\ room' = [r \in Rooms |-> IF r \in job[i] THEN [room[r] EXCEPT !.isClosed = TRUE] ELSE room[r]]
  /\ job' = [job EXCEPT ![i] = {}]
  /\ jobLock' = IF jobLock = i THEN NoOne ELSE jobLock
  /\ UNCHANGED <<member, rowLock, req, told, wins, crashes, rtVars>>

\* The instance dies in the job; the lock stays until its 60 seconds are over.
JobCrash(i) ==
  /\ job[i] # {} /\ crashes < MaxCrashes
  /\ job' = [job EXCEPT ![i] = {}]
  /\ crashes' = crashes + 1
  /\ UNCHANGED <<room, member, rowLock, req, told, wins, jobLock, rtVars>>

\* The lock's time to live ends, whether or not its holder is still at work.
JobLockExpires ==
  /\ jobLock # NoOne
  /\ jobLock' = NoOne
  /\ UNCHANGED <<room, member, rowLock, req, told, wins, job, crashes, rtVars>>
============================================================================
