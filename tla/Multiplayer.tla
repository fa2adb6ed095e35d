---------------------------- MODULE Multiplayer ----------------------------
(***************************************************************************)
(* Rooms, game sessions without a wager and the realtime gateway together: *)
(* every row they save goes through the subscriber, and the sockets see    *)
(* what it raises.  A session is saved as TypeORM's save does it: the row  *)
(* is read again inside the transaction, the columns that differ from it   *)
(* are written, and the subscriber compares the two.                       *)
(***************************************************************************)
EXTENDS Rooms

CONSTANTS
  MaxRequests,  \* bound on the requests served
  NoSave

VARIABLES
  session,  \* the game_sessions table: [status, player, playerTwoId]
  save,     \* the save each handler is in
  reached,  \* which of in progress and completed each session has been
  served    \* how many requests have come in

vars == <<rtVars, roomVars, session, save, reached, served>>

Statuses == {"none", "waiting", "in_progress", "completed", "abandoned"}
SessionRows == [status : Statuses, player : Users \cup {NoUser}, playerTwoId : Users \cup {NoUser}]
Saves == [st : {"read", "select", "write", "committed"}, id : Sessions,
          entity : SessionRows, before : SessionRows]

ASSUME MultiplayerAssumption == MaxRequests \in Nat /\ NoSave \notin Saves

TypeOK ==
  /\ RealtimeTypeOK /\ RoomsTypeOK
  /\ session \in [Sessions -> SessionRows]
  /\ save \in [Writers -> Saves \cup {NoSave}]
  /\ reached \in [Sessions -> SUBSET {"in_progress", "completed"}]
  /\ served \in 0..MaxRequests

Init ==
  /\ RealtimeInit /\ RoomsInit
  /\ session = [s \in Sessions |-> [status |-> "none", player |-> NoUser, playerTwoId |-> NoUser]]
  /\ save = [q \in Writers |-> NoSave]
  /\ reached = [s \in Sessions |-> {}]
  /\ served = 0

\* Bounds: MaxRequests; and a behaviour serves rooms or sessions, not both:
\* they share no row, and an event concerns one of them.
Serve == served < MaxRequests /\ served' = served + 1
OnlyRooms == \A s \in Sessions : session[s].status = "none" /\ \A q \in Writers : save[q] = NoSave
OnlySessions == \A r \in Rooms : room[r] = NoRoom /\ \A q \in Writers : req[q] = Idle
Free(q) == OnlySessions /\ save[q] = NoSave
Players(row) == {row.player, row.playerTwoId} \ {NoUser}

---------------------------------------------------------------------------
(* The handlers that save a session *)

\* create: a new row, waiting for the invited player or, in a single game, in
\* progress; a single game that names a second player is left out.
createSession(q, s, u, v) ==
  /\ Serve /\ Free(q) /\ session[s].status = "none" /\ u # v
  /\ \A p \in Writers : save[p] # NoSave => save[p].id # s
  /\ LET row == [status |-> IF v = NoUser THEN "in_progress" ELSE "waiting",
                 player |-> u, playerTwoId |-> v]
     IN save' = [save EXCEPT ![q] = [st |-> "select", id |-> s, entity |-> row, before |-> session[s]]]
  /\ UNCHANGED <<session, reached, roomVars, rtVars>>

\* A handler has read the row, set its status and calls save.
Load(q, s, next) ==
  /\ Serve /\ Free(q) /\ session[s].status # "none"
  /\ save' = [save EXCEPT ![q] =
       [st |-> "read", id |-> s, entity |-> [session[s] EXCEPT !.status = next], before |-> session[s]]]
  /\ UNCHANGED <<session, reached, roomVars, rtVars>>

\* requireInvitation: the invitation must be open.
accept(q, s) == session[s].status = "waiting" /\ Load(q, s, "in_progress")
\* decline, an expired invitation on accept, and expireInvitations.
abandonInvitation(q, s) == session[s].status = "waiting" /\ Load(q, s, "abandoned")
\* A score above zero completes the session, whatever its status.
updateScore(q, s) == Load(q, s, "completed")
\* Sets the category and saves the row with the status it read.
update(q, s) == Load(q, s, session[s].status)

\* save: the row as the transaction finds it, the event's databaseEntity.
saveSelect(q) ==
  /\ save[q] # NoSave /\ save[q].st = "read"
  /\ save' = [save EXCEPT ![q].st = "select", ![q].before = session[save[q].id]]
  /\ UNCHANGED <<session, reached, roomVars, rtVars, served>>

\* onSessionUpdate, and afterInsert for a new row.
onSession(s, row, before) ==
  (IF before.status = "none" THEN {Joined("session", s, row.player)} ELSE {})
  \cup (IF row.status = "in_progress" /\ before.status = "waiting" /\ row.playerTwoId # NoUser
        THEN {Joined("session", s, row.playerTwoId)} ELSE {})
  \cup (IF row.status = "completed" /\ before.status \notin {"none", "completed"}
        THEN {Completed(s, Players(row))} ELSE {})

\* The INSERT or UPDATE, which waits for another's row lock; the subscriber
\* queues the events.  Without a column to write there is no update, no event.
saveWrite(q) ==
  LET w == save[q] IN
  /\ w # NoSave /\ w.st = "select"
  /\ \A p \in Writers : save[p] # NoSave /\ save[p].st = "write" => save[p].id # w.id
  /\ save' = [save EXCEPT ![q].st = "write"]
  /\ raise(q, onSession(w.id, w.entity, w.before))
  /\ UNCHANGED <<session, reached, roomVars, served>>

saveCommit(q) ==
  LET w == save[q] IN
  /\ w # NoSave /\ w.st = "write"
  /\ session' = [session EXCEPT ![w.id] =
       [status |-> IF w.entity.status # w.before.status THEN w.entity.status ELSE @.status,
        player |-> w.entity.player, playerTwoId |-> w.entity.playerTwoId]]
  /\ reached' = [reached EXCEPT ![w.id] = @ \cup ({session'[w.id].status} \cap {"in_progress", "completed"})]
  /\ save' = [save EXCEPT ![q].st = "committed"]
  /\ UNCHANGED <<roomVars, rtVars, served>>

saveCommitted(q) ==
  /\ save[q] # NoSave /\ save[q].st = "committed"
  /\ afterTransactionCommit(q)
  /\ save' = [save EXCEPT ![q] = NoSave]
  /\ UNCHANGED <<session, reached, roomVars, served>>

saveAbort(q) ==
  /\ save[q] # NoSave
  /\ afterTransactionRollback(q)
  /\ save' = [save EXCEPT ![q] = NoSave]
  /\ UNCHANGED <<session, reached, roomVars, served>>

\* SessionExpiryService.sweep: an update by criteria, which waits for a row
\* being written and raises no event.
sweep(s) ==
  /\ session[s].status \in {"waiting", "in_progress"}
  /\ \A q \in Writers : save[q] # NoSave /\ save[q].st = "write" => save[q].id # s
  /\ session' = [session EXCEPT ![s].status = "abandoned"]
  /\ UNCHANGED <<save, reached, roomVars, rtVars, served>>

---------------------------------------------------------------------------
(* The gateway's membership checks, on what is committed. *)

isRoomMember(u, r) == member[r][u] # NoRow
isSessionPlayer(u, s) == u \in Players(session[s])

Subscribe(k) ==
  \/ \E r \in Rooms : handleSubscribe(k, roomChan(r), isRoomMember(Owner[k], r))
  \/ \E s \in Sessions : handleSubscribe(k, sessionChan(s), isSessionPlayer(Owner[k], s))

Gateway(k) ==
  /\ \/ handleConnection(k) \/ handleDisconnect(k)
     \/ Subscribe(k)
     \/ \E c \in sock[k].chans : handleUnsubscribe(k, c)
  /\ UNCHANGED <<roomVars, session, save, reached, served>>

Handler(q) ==
  /\ Serve /\ OnlyRooms
  /\ \/ \E u \in Users, r \in Rooms : create(q, u, r) \/ join(q, u, r) \/ submitGuess(q, u, r)
     \/ \E u \in Users, c \in Codes : joinByCode(q, u, c)
  /\ UNCHANGED <<session, save, reached>>

\* The next step of a handler in flight.
Continue(q) ==
  /\ \/ \E c \in Codes : createSave(q, c)
     \/ joinCheck(q) \/ addPlayerLock(q) \/ addPlayerInsert(q) \/ addPlayerCommit(q)
     \/ addPlayerCommitted(q)
     \/ guessFind(q) \/ guessScore(q)
     \/ \E score \in Scores : guessClaim(q, score)
  /\ UNCHANGED <<session, save, reached, served>>

Session(q) ==
  \/ \E s \in Sessions, u \in Users, v \in Users \cup {NoUser} : createSession(q, s, u, v)
  \/ \E s \in Sessions : accept(q, s) \/ abandonInvitation(q, s) \/ updateScore(q, s) \/ update(q, s)
  \/ saveSelect(q) \/ saveWrite(q) \/ saveCommit(q) \/ saveCommitted(q) \/ saveAbort(q)

Starts(r) == (\E u \in Users : start(u, r)) /\ UNCHANGED <<session, save, reached, served>>
Fails(q) == Abort(q) /\ UNCHANGED <<session, save, reached, served>>
Passes(r) == Expire(r) /\ UNCHANGED <<session, save, reached, served>>

closeExpiredRooms(i) ==
  (JobFind(i) \/ JobClose(i)) /\ UNCHANGED <<session, save, reached, served>>
Crash(i) == JobCrash(i) /\ UNCHANGED <<session, save, reached, served>>
LockExpires == JobLockExpires /\ UNCHANGED <<session, save, reached, served>>

Next ==
  \/ \E k \in Sockets : Gateway(k)
  \/ \E q \in Writers : Handler(q) \/ Continue(q) \/ Session(q) \/ Fails(q)
  \/ \E r \in Rooms : Starts(r) \/ Passes(r)
  \/ \E s \in Sessions : sweep(s)
  \/ \E i \in Instances : closeExpiredRooms(i) \/ Crash(i)
  \/ LockExpires

\* A handler in flight goes on, the cron fires on every instance and its job
\* goes on, and a lock left behind runs out.
Fairness ==
  /\ \A q \in Writers : WF_vars(Continue(q))
  /\ \A i \in Instances : WF_vars(closeExpiredRooms(i))
  /\ WF_vars(LockExpires)

Spec == Init /\ [][Next]_vars /\ Fairness

---------------------------------------------------------------------------

\* However the joins of a room overlap, by id or by code, on one instance or
\* several, it never has more members than its cap.
RoomCapHeld == \A r \in Rooms : Cardinality(Members(r)) <= MaxPlayers

\* Of a member's guesses sent at once, one is answered with a score, and the
\* stored score is the one the player was told.
GuessScoredOnce ==
  \A r \in Rooms, u \in Users :
    /\ wins[r][u] <= 1
    /\ told[r][u] # Untold => member[r][u].score = told[r][u]

\* "A client that reacts by fetching the row never reads the state from before
\* the change": what an event announces has been committed, and a place in a
\* room is announced once.
AnnouncedIsCommitted ==
  /\ \A e \in emitted :
       IF e.scope = "room" THEN \A u \in e.users : member[e.id][u] # NoRow
       ELSE IF e.name = "completed" THEN "completed" \in reached[e.id]
       ELSE \A u \in e.users : u = session[e.id].player \/ "in_progress" \in reached[e.id]
  /\ \A e \in repeated : e.scope = "session"

Plays(u, e) == IF e.scope = "room" THEN isRoomMember(u, e.id) ELSE isSessionPlayer(u, e.id)
\* Who must hear of an event without having subscribed: the player who joined,
\* and both players of a session that is completed.
Concerned(u, e) == IF e.name = "completed" THEN isSessionPlayer(u, e.id) ELSE u \in e.users
Subscribed(k, e) == (IF e.scope = "room" THEN roomChan(e.id) ELSE sessionChan(e.id)) \in sock[k].chans

\* An event that is raised for the first time reaches every connected socket of
\* those it concerns ("The joining player may not have subscribed yet") and
\* every subscriber; and no socket ever gets an event of a room its user is not
\* in or of a session its user does not play, whoever subscribes meanwhile.
EventsReachPlayers ==
  [][\A k \in Sockets :
       /\ \A e \in inbox'[k] : Plays(Owner[k], e)'
       /\ \A e \in emitted' \ emitted :
            (sock[k].st = "on" /\ Concerned(Owner[k], e)') \/ Subscribed(k, e) => e \in inbox'[k]]_vars

\* Once a room is closed and every handler that saw it open has ended, its
\* members and their scores are final.
Final(r) == room[r] # NoRoom /\ room[r].isClosed /\ \A q \in Writers : req[q].room # r
ClosedRoomIsFinal == [][\A r \in Rooms : Final(r) => Final(r)' /\ member'[r] = member[r]]_vars

\* A room past its 24 hours is eventually closed, although the job may die
\* holding its lock.
ExpiredRoomsClose ==
  \A r \in Rooms : (room[r] # NoRoom /\ room[r].expired) ~> (room[r] # NoRoom /\ room[r].isClosed)
============================================================================
