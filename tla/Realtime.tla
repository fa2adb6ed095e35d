------------------------------ MODULE Realtime ------------------------------
(***************************************************************************)
(* The /realtime gateway and the subscriber that turns row changes into    *)
(* events: sockets, the channels they join, the events a transaction has   *)
(* raised and holds until it commits, and their delivery.                  *)
(***************************************************************************)
EXTENDS Naturals, FiniteSets

CONSTANTS
  Users, Rooms, Sessions,
  Sockets,         \* socket connections; an id is used once
  Owner,           \* the user whose token each socket presents
  Writers          \* the request handlers, each with its own query runner

ASSUME RealtimeAssumption ==
  /\ Owner \in [Sockets -> Users]
  /\ Rooms \cap Sessions = {}

VARIABLES
  sock,      \* [st, chans] of each socket
  pending,   \* the events each query runner holds
  emitted,   \* the events raised on the bus
  repeated,  \* the events raised more than once
  inbox      \* what each socket received of the last events raised

rtVars == <<sock, pending, emitted, repeated, inbox>>

---------------------------------------------------------------------------

\* realtimeRooms.user, .session, .room
Channels == [kind : {"user"}, id : Users] \cup [kind : {"session"}, id : Sessions]
            \cup [kind : {"room"}, id : Rooms]
userChan(u) == [kind |-> "user", id |-> u]
sessionChan(s) == [kind |-> "session", id |-> s]
roomChan(r) == [kind |-> "room", id |-> r]

\* Only the fields that address an event are kept of its payload.
Joined(scope, id, u) == [name |-> "player_joined", scope |-> scope, id |-> id, users |-> {u}]
Completed(s, us) == [name |-> "completed", scope |-> "session", id |-> s, users |-> us]
Events == [name : {"player_joined", "completed"}, scope : {"session"}, id : Sessions, users : SUBSET Users]
          \cup [name : {"player_joined"}, scope : {"room"}, id : Rooms, users : SUBSET Users]

RealtimeTypeOK ==
  /\ sock \in [Sockets -> [st : {"verifying", "on", "off"}, chans : SUBSET Channels]]
  /\ pending \in [Writers -> SUBSET Events]
  /\ emitted \in SUBSET Events /\ repeated \in SUBSET emitted
  /\ inbox \in [Sockets -> SUBSET Events]

RealtimeInit ==
  /\ sock = [k \in Sockets |-> [st |-> "verifying", chans |-> {}]]
  /\ pending = [q \in Writers |-> {}]
  /\ emitted = {} /\ repeated = {}
  /\ inbox = [k \in Sockets |-> {}]

---------------------------------------------------------------------------
(* Sockets                                                                 *)

\* The end of the await in handleConnection: the token is good and the user is
\* below the connection limit, and the socket joins the user's own channel ..
handleConnection(k) ==
  /\ sock[k].st = "verifying"
  /\ sock' = [sock EXCEPT ![k] = [st |-> "on", chans |-> {userChan(Owner[k])}]]
  /\ UNCHANGED <<pending, emitted, repeated, inbox>>

\* .. or it is disconnected.  It may also leave by itself, at any time.
handleDisconnect(k) ==
  /\ sock[k].st # "off"
  /\ sock' = [sock EXCEPT ![k] = [st |-> "off", chans |-> {}]]
  /\ inbox' = [inbox EXCEPT ![k] = {}]
  /\ UNCHANGED <<pending, emitted, repeated>>

\* Mutant: subscribe without asking for membership.
subscribeAnyone(k, chan, allowed) ==
  /\ sock[k].st = "on" /\ chan \notin sock[k].chans
  /\ sock' = [sock EXCEPT ![k].chans = @ \cup {chan}]
  /\ UNCHANGED <<pending, emitted, repeated, inbox>>
\* The caller passes isSessionPlayer or isRoomMember as allowed.
handleSubscribe(k, chan, allowed) ==
  /\ sock[k].st = "on" /\ chan \notin sock[k].chans
  /\ allowed
  /\ sock' = [sock EXCEPT ![k].chans = @ \cup {chan}]
  /\ UNCHANGED <<pending, emitted, repeated, inbox>>

handleUnsubscribe(k, chan) ==
  /\ sock[k].st = "on" /\ chan \in sock[k].chans /\ chan.kind # "user"
  /\ sock' = [sock EXCEPT ![k].chans = @ \ {chan}]
  /\ UNCHANGED <<pending, emitted, repeated, inbox>>

---------------------------------------------------------------------------
(* Events                                                                  *)

\* onPlayerJoined and onSessionCompleted: the channels an event goes to.
onEvent(e) ==
  {userChan(u) : u \in e.users}
  \cup {IF e.scope = "room" THEN roomChan(e.id) ELSE sessionChan(e.id)}

\* EventEmitter2.emit and, in the same turn, the gateway's deliver.
emit(es) ==
  /\ emitted' = emitted \cup es
  /\ repeated' = repeated \cup (es \cap emitted)
  /\ inbox' = [k \in Sockets |->
       {e \in es : sock[k].chans \cap onEvent(e) # {}}]

\* Mutant: raised at once, also inside a transaction.
raiseNow(q, es) == emit(es) /\ UNCHANGED <<sock, pending>>
\* raise inside a transaction: held in pending until it commits.
raise(q, es) ==
  /\ pending' = [pending EXCEPT ![q] = @ \cup es]
  /\ UNCHANGED <<sock, emitted, repeated, inbox>>

afterTransactionCommit(q) ==
  /\ emit(pending[q])
  /\ pending' = [pending EXCEPT ![q] = {}]
  /\ UNCHANGED sock

afterTransactionRollback(q) ==
  /\ pending' = [pending EXCEPT ![q] = {}]
  /\ UNCHANGED <<sock, emitted, repeated, inbox>>
============================================================================
