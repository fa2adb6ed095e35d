------------------------------- MODULE Daily --------------------------------
(***************************************************************************)
(* The daily challenge of one player: choosing the day's lyrics once for   *)
(* all instances, the single attempt at each, the notification that the    *)
(* challenge is complete, and reading and purging notifications.  Requests *)
(* run at once on several processes and across midnight, lyrics are taken  *)
(* down and restored meanwhile, and processes die.  Every await is a step. *)
(* The points an attempt earns are a column of the row Accounts models.    *)
(***************************************************************************)
EXTENDS Integers, FiniteSets

CONSTANTS
  Lyrics,      \* the lyrics of the catalogue
  Requests,    \* the requests in flight at once
  Processes,   \* the instances of the server
  Size,        \* LIMITS.DAILY_CHALLENGE_SIZE
  Retention,   \* RETENTION_DAYS of a read notification
  StartActive, \* the lyrics that may be active at first
  MaxDays,     \* bound on the days that pass
  MaxChanges,  \* bound on the lyrics taken down or restored
  MaxCrashes   \* bound on the processes that die

ASSUME DailyAssumption ==
  /\ Size \in Nat \ {0} /\ Retention \in Nat
  /\ StartActive \subseteq SUBSET Lyrics
  /\ MaxDays \in Nat \ {0} /\ MaxChanges \in Nat /\ MaxCrashes \in Nat

VARIABLES
  day,        \* utcDay()
  active,     \* the lyrics that are active
  challenge,  \* daily_challenges: the lyrics of each day, none before it is stored
  cached,     \* each process's copy of a day's lyrics
  attempts,   \* daily_challenge_attempts of the player
  notes,      \* the player's notifications: [id, made, readAt], readAt 0 if unread
  req,        \* what each request is doing
  changes, crashes,
  owed,       \* the days whose challenge the player has completed by an attempt
  announced   \* how often each day's completion was stored

world == <<day, active, changes, crashes>>
daily == <<challenge, cached, attempts, owed>>
inbox == <<notes, announced>>
vars == <<world, daily, inbox, req>>

Days == 1..MaxDays
Nobody == "none"
Idle == [st |-> "idle", proc |-> Nobody, date |-> 0, lyric |-> Nobody, ids |-> {}, seen |-> {},
         right |-> FALSE, note |-> <<0, 0>>]

TypeOK ==
  /\ day \in Days /\ active \subseteq Lyrics
  /\ changes \in 0..MaxChanges /\ crashes \in 0..MaxCrashes
  /\ challenge \in [Days -> {S \in SUBSET Lyrics : Cardinality(S) <= Size}]
  /\ cached \in [Processes -> [date : 0..MaxDays, ids : SUBSET Lyrics]]
  /\ attempts \in [Days -> SUBSET Lyrics] /\ owed \in [Days -> BOOLEAN]
  /\ announced \in [Days -> Nat]
  /\ \A n \in notes : n.id \in Days \X Nat /\ n.made \in Days /\ n.readAt \in 0..MaxDays
  /\ \A q \in Requests :
       req[q] # Idle => /\ req[q].proc \in Processes /\ req[q].date \in Days
                        /\ req[q].ids \subseteq Lyrics /\ req[q].seen \subseteq Lyrics

Init ==
  /\ day = 1 /\ active \in StartActive /\ changes = 0 /\ crashes = 0
  /\ challenge = [d \in Days |-> {}]
  /\ cached = [p \in Processes |-> [date |-> 0, ids |-> {}]]
  /\ attempts = [d \in Days |-> {}] /\ owed = [d \in Days |-> FALSE]
  /\ notes = {} /\ announced = [d \in Days |-> 0]
  /\ req = [q \in Requests |-> Idle]

Begin(q, p, st) == [Idle EXCEPT !.st = st, !.proc = p, !.date = day]
Goto(q, st) == req' = [req EXCEPT ![q].st = st]
Done(q) == req' = [req EXCEPT ![q] = Idle]

---------------------------------------------------------------------------
(* The day's lyrics *)

\* guess, or getDaily when no lyric is named: the date is taken once; a
\* process that has the day's lyrics does not look further.  Bound: only
\* getDaily comes in on the last day, only guesses before it (one at a lyric
\* that is not of the day goes as far as getDaily).
guess(q, p, l) ==
  LET r == [Begin(q, p, "lookup") EXCEPT !.lyric = l] IN
  /\ req[q] = Idle /\ (l = Nobody <=> day = MaxDays)
  /\ req' = [req EXCEPT ![q] =
       IF cached[p].date = day THEN [r EXCEPT !.st = "ids", !.ids = cached[p].ids] ELSE r]
  /\ UNCHANGED <<world, daily, inbox>>

\* The stored row, if there is one, is what the process keeps.
lookup(q) ==
  LET d == req[q].date IN
  /\ req[q].st = "lookup"
  /\ IF challenge[d] = {} THEN Goto(q, "pool") /\ UNCHANGED cached
     ELSE /\ cached' = [cached EXCEPT ![req[q].proc] = [date |-> d, ids |-> challenge[d]]]
          /\ req' = [req EXCEPT ![q].st = "ids", ![q].ids = challenge[d]]
  /\ UNCHANGED <<world, challenge, attempts, owed, inbox>>

\* pickDeterministic: which ones depends on a salt that a process may have
\* made up for itself.
picks(pool) == {S \in SUBSET pool : Cardinality(S) = IF Cardinality(pool) < Size THEN Cardinality(pool) ELSE Size}

pool(q) ==
  /\ req[q].st = "pool"
  /\ IF active = {} THEN Done(q)
     ELSE \E ids \in picks(active) : req' = [req EXCEPT ![q].st = "store", ![q].ids = ids]
  /\ UNCHANGED <<world, daily, inbox>>

\* Mutant: the process keeps its own choice, whichever row won.
storeOwn(q) ==
  LET d == req[q].date IN
  /\ req[q].st = "store"
  /\ challenge' = [challenge EXCEPT ![d] = IF @ = {} THEN req[q].ids ELSE @]
  /\ cached' = [cached EXCEPT ![req[q].proc] = [date |-> d, ids |-> req[q].ids]]
  /\ Goto(q, "ids")
  /\ UNCHANGED <<world, attempts, owed, inbox>>
\* Insert or ignore, and read back whichever row won.
store(q) ==
  LET d == req[q].date IN
  /\ req[q].st = "store"
  /\ challenge' = [challenge EXCEPT ![d] = IF @ = {} THEN req[q].ids ELSE @]
  /\ Goto(q, "lookup")
  /\ UNCHANGED <<world, cached, attempts, owed, inbox>>

---------------------------------------------------------------------------
(* The attempt *)

\* The client says when the lyric was issued, so it may be either.
isWithinAnswerWindow == BOOLEAN
getActiveDailyLyricIds(ids) == ids \cap active

\* The lyric must be of the day and the guess valid, and checkGuess loads
\* active lyrics only; a guess is right if it is correct and in its window.
check(q) ==
  /\ req[q].st = "ids"
  /\ \/ /\ req[q].lyric \in getActiveDailyLyricIds(req[q].ids)
        /\ \E isCorrect \in BOOLEAN, withinWindow \in isWithinAnswerWindow :
             req' = [req EXCEPT ![q].st = "attempt", ![q].right = isCorrect /\ withinWindow]
     \/ Done(q)
  /\ UNCHANGED <<world, daily, inbox>>

Complete(d, tried) == LET live == active \cap challenge[d] IN live # {} /\ live \subseteq tried

insertAttempt(q, d) ==
  LET tried == attempts[d] \cup {req[q].lyric} IN
  /\ req[q].st = "attempt"
  /\ IF req[q].lyric \in attempts[d] THEN Done(q) /\ UNCHANGED <<attempts, owed>>
     ELSE /\ attempts' = [attempts EXCEPT ![d] = tried]
          /\ owed' = [owed EXCEPT ![d] = Complete(d, tried)]
          /\ Goto(q, IF req[q].right THEN "award" ELSE "count")
  /\ UNCHANGED <<world, challenge, cached, inbox>>
\* Mutant: the attempt is dated when it is stored.
attemptToday(q) == insertAttempt(q, day)
\* The unique index on user, day and lyric decides; the loser is told 409.
attempt(q) == insertAttempt(q, req[q].date)

\* handleCorrectGuess, awaited before the attempts are counted.  Its second
\* statement, which would raise the level, is never reached: query resolves to
\* the rows and their number, so the total it compares is not a number.
award(q) ==
  /\ req[q].st = "award"
  /\ Goto(q, "count")
  /\ UNCHANGED <<world, daily, inbox>>

---------------------------------------------------------------------------
(* Completion *)

\* Mutant: every lyric of the day is required, also one taken down.
CompletedAll(ids, live, tried) == ids \subseteq tried
Completed(ids, live, tried) == live # {} /\ live \subseteq tried

\* Promise.all: the attempts and the active lyrics are read in either order.
count(q) ==
  /\ req[q].st = "count"
  /\ \/ req' = [req EXCEPT ![q].st = "tried", ![q].seen = attempts[req[q].date]]
     \/ req' = [req EXCEPT ![q].st = "live", ![q].seen = getActiveDailyLyricIds(req[q].ids)]
  /\ UNCHANGED <<world, daily, inbox>>

\* The event's listener goes on by itself once the request is answered.
announceCompletion(q) == Goto(q, "notify")

\* The second read.
answer(q) ==
  LET r == req[q]
      live == IF r.st = "live" THEN r.seen ELSE getActiveDailyLyricIds(r.ids)
      tried == IF r.st = "tried" THEN r.seen ELSE attempts[r.date]
  IN
  /\ r.st \in {"tried", "live"}
  /\ IF Completed(r.ids, live, tried) THEN announceCompletion(q) ELSE Done(q)
  /\ UNCHANGED <<world, daily, inbox>>

---------------------------------------------------------------------------
(* Notifications *)

storeNotification(q) ==
  /\ req[q].st = "notify"
  /\ notes' = notes \cup {[id |-> <<req[q].date, announced[req[q].date] + 1>>, made |-> day, readAt |-> 0]}
  /\ announced' = [announced EXCEPT ![req[q].date] = @ + 1]
  /\ Done(q)
  /\ UNCHANGED <<world, daily>>

\* markAsRead: the row is found, and saved if it was unread.
markAsRead(q, p, n) ==
  /\ req[q] = Idle /\ n.readAt = 0
  /\ req' = [req EXCEPT ![q] = [Begin(q, p, "reading") EXCEPT !.note = n.id]]
  /\ UNCHANGED <<world, daily, inbox>>

saveRead(q) ==
  /\ req[q].st = "reading"
  /\ notes' = {IF n.id = req[q].note THEN [n EXCEPT !.readAt = day] ELSE n : n \in notes}
  /\ Done(q)
  /\ UNCHANGED <<world, daily, announced>>

markAllAsRead ==
  /\ \E n \in notes : n.readAt = 0
  /\ notes' = {IF n.readAt = 0 THEN [n EXCEPT !.readAt = day] ELSE n : n \in notes}
  /\ UNCHANGED <<world, daily, announced, req>>

\* Mutant: the age of the notification, not of its reading.
OldAge(n) == n.made < day - Retention
Old(n) == n.readAt # 0 /\ n.readAt < day - Retention
purgeOldNotifications ==
  /\ \E n \in notes : Old(n)
  /\ notes' = {n \in notes : ~Old(n)}
  /\ UNCHANGED <<world, daily, announced, req>>

---------------------------------------------------------------------------
(* The world *)

\* Bound: a notification's request does not last into the next day.
NextDay ==
  /\ day < MaxDays /\ \A q \in Requests : req[q].st # "reading"
  /\ day' = day + 1
  /\ UNCHANGED <<active, changes, crashes, daily, inbox, req>>

\* LyricsService.remove and restore.  A challenge is owed an announcement only
\* while it stays complete.
SetActive(S) ==
  /\ changes < MaxChanges /\ changes' = changes + 1
  /\ active' = S
  /\ owed' = [d \in Days |->
       owed[d] /\ S \cap challenge[d] # {} /\ S \cap challenge[d] \subseteq attempts[d]]
  /\ UNCHANGED <<day, crashes, challenge, cached, attempts, inbox, req>>
takeDown(l) == l \in active /\ SetActive(active \ {l})
restore(l) == l \notin active /\ SetActive(active \cup {l})

\* A process dies with its requests and its copy of the day.
Crash(p) ==
  /\ crashes < MaxCrashes /\ crashes' = crashes + 1
  /\ cached' = [cached EXCEPT ![p] = [date |-> 0, ids |-> {}]]
  /\ req' = [q \in Requests |-> IF req[q].proc = p THEN Idle ELSE req[q]]
  /\ owed' = [d \in Days |->
       owed[d] /\ ~\E q \in Requests : req[q].proc = p /\ req[q].date = d]
  /\ UNCHANGED <<day, active, changes, challenge, attempts, inbox>>

Serve(q) ==
  \E p \in Processes :
    \/ \E l \in Lyrics \cup {Nobody} : guess(q, p, l)
    \/ \E n \in notes : markAsRead(q, p, n)
Continue(q) ==
  \/ lookup(q) \/ pool(q) \/ store(q) \/ check(q) \/ attempt(q) \/ award(q)
  \/ count(q) \/ answer(q) \/ storeNotification(q) \/ saveRead(q)

Next ==
  \/ \E q \in Requests : Serve(q) \/ Continue(q)
  \/ markAllAsRead \/ purgeOldNotifications
  \/ NextDay
  \/ \E l \in Lyrics : takeDown(l) \/ restore(l)
  \/ \E p \in Processes : Crash(p)

Spec == Init /\ [][Next]_vars

---------------------------------------------------------------------------

\* Every process serves the same lyrics for a day, the stored ones, however
\* many requests chose a set at once and with whatever salt.
DailySetShared ==
  /\ \A p \in Processes : cached[p].date # 0 => cached[p].ids = challenge[cached[p].date]
  /\ \A q \in Requests :
       req[q].st \in {"ids", "attempt", "award", "count"} => req[q].ids = challenge[req[q].date]

\* An attempt counts for the day whose lyrics it answers, also when it is
\* stored after midnight.
AttemptsAreOfTheDay == \A d \in Days : attempts[d] \subseteq challenge[d]

\* The player whose attempt completes the day's playable lyrics is notified
\* once the requests have ended, whichever of them was last, unless a process
\* died or a lyric came back in between.
CompletionNotified ==
  \A d \in Days :
    owed[d] /\ (\A q \in Requests : req[q] = Idle \/ req[q].date # d) => announced[d] > 0

\* No reading, purging or stale save deletes an unread notification of an
\* account that is there, and one that was read stays read.  erasePersonalData
\* deletes all those of a removed account, unread ones too, and is not part of
\* this module.
UnreadKept ==
  [][\A n \in notes : \/ n \in notes'
                      \/ \E m \in notes' : m.id = n.id /\ m.readAt >= n.readAt
                      \/ n.readAt # 0 /\ \A m \in notes' : m.id # n.id]_vars
============================================================================
