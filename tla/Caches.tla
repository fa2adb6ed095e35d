------------------------------- MODULE Caches -------------------------------
(***************************************************************************)
(* What the API reads through the shared cache: a lyric, under a key that  *)
(* carries the namespace version, a player's statistics, a player's public *)
(* profile and the nonces of wallet challenges already used; and the       *)
(* requests that change the rows behind them.                              *)
(* Every await is a step.  A value is the number of the row's revision; 0  *)
(* is a miss and NotFound an answer of 404.                                *)
(***************************************************************************)
EXTENDS Naturals, FiniteSets

CONSTANTS
  Requests,    \* the requests in flight at once
  Processes,   \* the instances that share the store
  LyricsTtl,   \* cacheConfig.lyricsTtlMs, in ticks
  BriefTtl,    \* USER_STATS_CACHE_TTL_MS and PUBLIC_PROFILE_CACHE_TTL_MS
  ChallengeTimeout, \* CHALLENGE_TIMEOUT_SECONDS, in minutes
  Grace,       \* how long readChallengeTx of the Stellar SDK still admits a
               \* challenge whose time bounds are over
  MaxWrites,   \* bound on the changes of the lyric and additions of others
  MaxGames     \* bound on the guesses recorded and the sessions played

ASSUME CachesAssumption ==
  /\ LyricsTtl \in Nat \ {0} /\ BriefTtl \in Nat \ {0} /\ ChallengeTimeout \in Nat \ {0} /\ Grace \in Nat
  /\ MaxWrites \in Nat /\ MaxGames \in Nat /\ IsFiniteSet(Requests)

VARIABLES
  lyric,    \* the lyric's row: [active, rev]
  games,    \* how many guesses game_history has of the player; for a
            \* profile, how many sessions they completed; for a lyric, how
            \* often only others were added
  account,  \* 1 while the account is active, 0 once it is anonymised
  store,    \* the cache: [val, left], gone when left is 0
  gen,      \* each process's cacheGeneration
  req,      \* what each request is doing
  settled,  \* the lyric's newest revision whose change was answered
  clean,    \* no statistics were being read when a guess was last recorded
  challenge, \* the SEP-10 challenge: whether it was built, how long it is still
            \* admitted, the last Grace ticks of it past its time bounds, and
            \* whether a presentation of it was accepted
  about     \* what this behaviour's requests are about

vars == <<lyric, games, account, store, gen, req, settled, clean, about, challenge>>

Versions == 0..MaxWrites
nsKey == [kind |-> "ns", version |-> 0]
lyricKey(v) == [kind |-> "lyric", version |-> v]
statsKey == [kind |-> "stats", version |-> 0]
profileKey == [kind |-> "profile", version |-> 0]
nonceKey == [kind |-> "nonce", version |-> 0]
Keys == {nsKey, statsKey, profileKey, nonceKey} \cup {lyricKey(v) : v \in Versions}
Empty == [val |-> 0, left |-> 0]
NotFound == MaxWrites + MaxGames + 2
Values == 0..NotFound

\* floor: what the answer must not be older than; sure: a row has been there
\* since the request came in.
Idle == [op |-> "idle", st |-> "idle", proc |-> "none", n |-> 0, gen |-> 0, val |-> 0,
         floor |-> 0, sure |-> FALSE]
Ops == {"findOne", "remove", "restore", "import", "clear", "getUserStats", "record", "findPublicProfile", "wallet"}

Subjects == {"lyric", "stats", "profile", "wallet"}

TypeOK ==
  /\ lyric \in [active : BOOLEAN, rev : 1..(MaxWrites + 1)]
  /\ games \in 0..(MaxGames + MaxWrites) /\ account \in {0, 1}
  /\ store \in [Keys -> [val : Values, left : 0..(LyricsTtl + BriefTtl + ChallengeTimeout + 1)]]
  /\ gen \in [Processes -> Versions]
  /\ req \in [Requests -> {Idle} \cup
       [op : Ops, st : {"keyed", "missed", "loaded", "found", "saved", "bumped", "answered"},
        proc : Processes \cup {"none"}, n : Versions, gen : Versions, val : Values, floor : Values, sure : BOOLEAN]]
  /\ settled \in 1..(MaxWrites + 1) /\ clean \in BOOLEAN
  /\ challenge \in [built : BOOLEAN, left : 0..(ChallengeTimeout + Grace), spent : BOOLEAN]
  /\ about \in Subjects

Init ==
  /\ lyric = [active |-> TRUE, rev |-> 1] /\ games = 0 /\ account = 1
  /\ store = [k \in Keys |-> Empty]
  /\ gen = [p \in Processes |-> 0]
  /\ req = [q \in Requests |-> Idle]
  /\ settled = 1 /\ clean = TRUE
  /\ challenge = [built |-> FALSE, left |-> 0, spent |-> FALSE]
  /\ about \in Subjects

---------------------------------------------------------------------------
(* The store *)

Get(key) == store[key].val
Put(key, val, ttl) == store' = [store EXCEPT ![key] = [val |-> val, left |-> ttl]]
Del(key) == store' = [store EXCEPT ![key] = Empty]

Start(q, op, st, p, n, floor, sure) ==
  /\ req[q] = Idle
  /\ req' = [req EXCEPT ![q] = [op |-> op, st |-> st, proc |-> p, n |-> n, gen |-> 0, val |-> 0,
                                floor |-> floor, sure |-> sure]]
At(q, op, st) == req[q].op = op /\ req[q].st = st
Goto(q, st) == req' = [req EXCEPT ![q].st = st]
Answer(q, val) ==
  req' = [req EXCEPT ![q].st = "answered", ![q].val = val, ![q].proc = "none", ![q].n = 0, ![q].gen = 0]
End(q) ==
  /\ req[q].st = "answered"
  /\ req' = [req EXCEPT ![q] = Idle]
  /\ UNCHANGED <<lyric, games, account, store, gen, settled, clean, about, challenge>>

---------------------------------------------------------------------------
(* LyricsService *)

\* findOne: the namespace version is read and the key is built from it.
findOne(q, p) ==
  /\ Start(q, "findOne", "keyed", p, Get(nsKey), settled, lyric.active)
  /\ UNCHANGED <<lyric, games, account, store, gen, settled, clean, about, challenge>>

\* getOrLoad: a hit is answered; a miss remembers the generation.
lyricGet(q) ==
  LET hit == Get(lyricKey(req[q].n)) IN
  /\ At(q, "findOne", "keyed")
  /\ IF hit # 0 THEN Answer(q, hit)
     ELSE req' = [req EXCEPT ![q].st = "missed", ![q].gen = gen[req[q].proc]]
  /\ UNCHANGED <<lyric, games, account, store, gen, settled, clean, about, challenge>>

\* Mutant: that a lyric is not there is cached as well.
lyricLoadMiss(q) ==
  /\ At(q, "findOne", "missed")
  /\ req' = [req EXCEPT ![q].st = "loaded", ![q].val = IF lyric.active THEN lyric.rev ELSE NotFound]
  /\ UNCHANGED <<lyric, games, account, store, gen, settled, clean, about, challenge>>
\* The row, if it is active; nothing is cached of a lyric that is not found.
lyricLoad(q) ==
  /\ At(q, "findOne", "missed")
  /\ IF lyric.active THEN req' = [req EXCEPT ![q].st = "loaded", ![q].val = lyric.rev]
     ELSE Answer(q, NotFound)
  /\ UNCHANGED <<lyric, games, account, store, gen, settled, clean, about, challenge>>

\* Stored unless this process has invalidated since the miss.
lyricSet(q) ==
  /\ At(q, "findOne", "loaded")
  /\ IF gen[req[q].proc] = req[q].gen THEN Put(lyricKey(req[q].n), req[q].val, LyricsTtl)
     ELSE UNCHANGED store
  /\ Answer(q, req[q].val)
  /\ UNCHANGED <<lyric, games, account, gen, settled, clean, about, challenge>>

\* What is left to a request that has written a revision of the lyric.
Clearing(p, rev) == [Idle EXCEPT !.op = "clear", !.st = "saved", !.proc = p, !.val = rev]

\* Bound: MaxWrites changes in all, the ones under way included.
MayChange ==
  lyric.rev + games + Cardinality({q \in Requests :
      \/ req[q].op \in {"remove", "restore"} /\ req[q].st = "found"
      \/ At(q, "import", "found") /\ req[q].n = 1}) <= MaxWrites

remove(q, p) ==
  /\ MayChange /\ lyric.active
  /\ Start(q, "remove", "found", p, 0, 0, FALSE)
  /\ UNCHANGED <<lyric, games, account, store, gen, settled, clean, about, challenge>>

\* findOneIncludingInactive; an active lyric is a conflict.
restore(q, p) ==
  /\ MayChange /\ ~lyric.active
  /\ Start(q, "restore", "found", p, 0, 0, FALSE)
  /\ UNCHANGED <<lyric, games, account, store, gen, settled, clean, about, challenge>>

\* One statement deactivates every lyric of the source.
deactivateBySource(q, p) ==
  /\ MayChange /\ lyric.active
  /\ lyric' = [active |-> FALSE, rev |-> lyric.rev + 1]
  /\ req' = [x \in Requests |->
       IF x = q THEN Clearing(p, lyric.rev + 1)
       ELSE [req[x] EXCEPT !.sure = FALSE]]
  /\ req[q] = Idle
  /\ UNCHANGED <<games, account, store, gen, settled, clean, about, challenge>>

\* save: a request that has been sure of the lyric no longer is.
lyricSave(q) ==
  /\ req[q].op \in {"remove", "restore"} /\ req[q].st = "found"
  /\ lyric' = [active |-> req[q].op = "restore", rev |-> lyric.rev + 1]
  /\ req' = [x \in Requests |->
       IF x = q THEN Clearing(req[x].proc, lyric.rev + 1)
       ELSE [req[x] EXCEPT !.sure = FALSE]]
  /\ UNCHANGED <<games, account, store, gen, settled, clean, about, challenge>>

\* create: another lyric is saved; the listings change, so all entries go.
createLyric(q, p) ==
  /\ MayChange
  /\ Start(q, "clear", "saved", p, 0, 0, FALSE)
  /\ games' = games + 1
  /\ UNCHANGED <<lyric, account, store, gen, settled, clean, about, challenge>>

\* parseImportFile: what the file has a valid, first row of, the lyric or a
\* song not known yet.
ImportFiles == SUBSET {"known", "new"}

\* importLyrics: a dry run writes nothing, create-only nothing that exists.
toWrite(file, dryRun, mode) ==
  IF dryRun THEN {} ELSE IF mode = "create-only" THEN file \ {"known"} ELSE file

\* n: whether the lyric is among the rows to write.
importLyrics(q, p) ==
  \E file \in ImportFiles, dryRun \in BOOLEAN, mode \in {"create-only", "upsert"} :
    LET rows == toWrite(file, dryRun, mode) IN
    /\ MayChange /\ rows # {}
    /\ Start(q, "import", "found", p, IF "known" \in rows THEN 1 ELSE 0, 0, FALSE)
    /\ games' = IF "known" \in rows THEN games ELSE games + 1
    /\ UNCHANGED <<lyric, account, store, gen, settled, clean, about, challenge>>

\* bulkUpsert: a lyric that is there is changed, and stays as active as it was.
bulkUpsert(q) ==
  /\ At(q, "import", "found")
  /\ lyric' = [lyric EXCEPT !.rev = @ + req[q].n]
  /\ req' = [req EXCEPT ![q] = Clearing(@.proc, @.n * (lyric.rev + 1))]
  /\ UNCHANGED <<games, account, store, gen, settled, clean, about, challenge>>

\* clearCache: the generation, then the version as it is ..
clearCacheRead(q) ==
  /\ At(q, "clear", "saved")
  /\ gen' = [gen EXCEPT ![req[q].proc] = @ + 1]
  /\ req' = [req EXCEPT ![q].st = "bumped", ![q].n = Get(nsKey)]
  /\ UNCHANGED <<lyric, games, account, store, settled, clean, about, challenge>>

\* .. and the next version, for as long as an entry lives.
clearCacheSet(q) ==
  /\ req[q].st = "bumped"
  /\ Put(nsKey, req[q].n + 1, LyricsTtl)
  /\ req' = [req EXCEPT ![q] = Idle]
  /\ settled' = IF req[q].val > settled THEN req[q].val ELSE settled
  /\ UNCHANGED <<lyric, games, account, gen, clean, about, challenge>>

---------------------------------------------------------------------------
(* GameHistoryService *)

ReadingStats == \E q \in Requests : req[q].op = "getUserStats" /\ req[q].st # "answered"
Recording == \E q \in Requests : req[q].op = "record"

getUserStats(q, p) ==
  /\ Start(q, "getUserStats", "keyed", p, 0, IF clean /\ ~Recording THEN games ELSE 0, FALSE)
  /\ UNCHANGED <<lyric, games, account, store, gen, settled, clean, about, challenge>>

\* Values are offset by one, so that no guess yet is not a miss.
statsGet(q) ==
  LET hit == Get(statsKey) IN
  /\ At(q, "getUserStats", "keyed")
  /\ IF hit # 0 THEN Answer(q, hit) ELSE Goto(q, "missed")
  /\ UNCHANGED <<lyric, games, account, store, gen, settled, clean, about, challenge>>

statsQuery(q) ==
  /\ At(q, "getUserStats", "missed")
  /\ req' = [req EXCEPT ![q].st = "loaded", ![q].val = games + 1]
  /\ UNCHANGED <<lyric, games, account, store, gen, settled, clean, about, challenge>>

statsSet(q) ==
  /\ At(q, "getUserStats", "loaded")
  /\ Put(statsKey, req[q].val, BriefTtl)
  /\ Answer(q, req[q].val)
  /\ UNCHANGED <<lyric, games, account, gen, settled, clean, about, challenge>>

\* create: the row is saved ..
create(q, p) ==
  /\ games < MaxGames
  /\ Start(q, "record", "saved", p, 0, 0, FALSE)
  /\ games' = games + 1
  /\ clean' = ~ReadingStats
  /\ UNCHANGED <<lyric, account, store, gen, settled, about, challenge>>

\* Mutant: the statistics are not dropped.
createEnds(q) ==
  /\ At(q, "record", "saved")
  /\ req' = [req EXCEPT ![q] = Idle]
  /\ UNCHANGED <<lyric, games, account, store, gen, settled, clean, about, challenge>>
\* .. and the player's statistics are dropped.
createDel(q) ==
  /\ At(q, "record", "saved")
  /\ Del(statsKey)
  /\ req' = [req EXCEPT ![q] = Idle]
  /\ UNCHANGED <<lyric, games, account, gen, settled, clean, about, challenge>>

---------------------------------------------------------------------------
(* UsersService *)

findPublicProfile(q, p) ==
  /\ Start(q, "findPublicProfile", "keyed", p, 0, 0, account = 1)
  /\ UNCHANGED <<lyric, games, account, store, gen, settled, clean, about, challenge>>

\* Mutant: a hit renews the entry.
profileGetRenews(q) ==
  LET hit == Get(profileKey) IN
  /\ At(q, "findPublicProfile", "keyed")
  /\ IF hit # 0 THEN Answer(q, hit) /\ Put(profileKey, hit, BriefTtl)
     ELSE Goto(q, "missed") /\ UNCHANGED store
  /\ UNCHANGED <<lyric, games, account, gen, settled, clean, about, challenge>>
profileGet(q) ==
  LET hit == Get(profileKey) IN
  /\ At(q, "findPublicProfile", "keyed")
  /\ IF hit # 0 THEN Answer(q, hit) ELSE Goto(q, "missed")
  /\ UNCHANGED <<lyric, games, account, store, gen, settled, clean, about, challenge>>

\* Anonymised accounts are not found.
profileLoad(q) ==
  /\ At(q, "findPublicProfile", "missed")
  /\ IF account = 1 THEN Goto(q, "found") ELSE Answer(q, NotFound)
  /\ UNCHANGED <<lyric, games, account, store, gen, settled, clean, about, challenge>>

\* The wins and losses of the sessions completed so far.
getHeadToHeadRecord(q) ==
  /\ At(q, "findPublicProfile", "found")
  /\ req' = [req EXCEPT ![q].st = "loaded", ![q].val = games + 1]
  /\ UNCHANGED <<lyric, games, account, store, gen, settled, clean, about, challenge>>

profileSet(q) ==
  /\ At(q, "findPublicProfile", "loaded")
  /\ Put(profileKey, req[q].val, BriefTtl)
  /\ Answer(q, req[q].val)
  /\ UNCHANGED <<lyric, games, account, gen, settled, clean, about, challenge>>

\* The account is anonymised; no request deletes the profile's entry.
removeAccount ==
  /\ account = 1 /\ account' = 0
  /\ req' = [q \in Requests |-> IF req[q].op = "findPublicProfile" THEN [req[q] EXCEPT !.sure = FALSE] ELSE req[q]]
  /\ UNCHANGED <<lyric, games, store, gen, settled, clean, about, challenge>>

\* Nor does the end of a session.
sessionEnds ==
  /\ games < MaxGames /\ games' = games + 1
  /\ UNCHANGED <<lyric, account, store, gen, req, settled, clean, about, challenge>>

---------------------------------------------------------------------------
(* StellarAuthService *)

buildChallenge ==
  /\ ~challenge.built
  /\ challenge' = [built |-> TRUE, left |-> ChallengeTimeout + Grace, spent |-> FALSE]
  /\ UNCHANGED <<lyric, games, account, store, gen, req, settled, clean, about>>

InTime == challenge.left > Grace

\* The signatures are checked, and that readChallengeTx still admits it.
verifyChallenge(q, p) ==
  /\ challenge.built /\ challenge.left > 0
  /\ Start(q, "wallet", "keyed", p, 0, IF challenge.spent /\ InTime THEN 1 ELSE 0, FALSE)
  /\ UNCHANGED <<lyric, games, account, store, gen, settled, clean, about, challenge>>

\* consumeChallenge: a nonce that is remembered is refused ..
consumeChallengeGet(q) ==
  /\ At(q, "wallet", "keyed")
  /\ IF Get(nonceKey) # 0 THEN Answer(q, NotFound) ELSE Goto(q, "missed")
  /\ UNCHANGED <<lyric, games, account, store, gen, settled, clean, about, challenge>>

\* Mutant: the minute alone.
nonceTtlBrief == 1
\* A minute more than the time bounds, less than readChallengeTx admits.
nonceTtl == ChallengeTimeout + 1

\* .. and another is remembered, and the presentation accepted.
consumeChallengeSet(q) ==
  /\ At(q, "wallet", "missed")
  /\ Put(nonceKey, 1, nonceTtl)
  /\ Answer(q, 1)
  /\ challenge' = [challenge EXCEPT !.spent = TRUE]
  /\ UNCHANGED <<lyric, games, account, gen, settled, clean, about>>

---------------------------------------------------------------------------

\* A request that dies leaves the cache as it is.
Abort(q) ==
  /\ req[q].st \in {"saved", "bumped"}
  /\ req' = [req EXCEPT ![q] = Idle]
  /\ clean' = (clean /\ req[q].op # "record")
  /\ UNCHANGED <<lyric, games, account, store, gen, settled, about, challenge>>

\* Entries grow old.  Bound: no time passes next to a TTL between a load and
\* the storing of what it loaded, or between the check of a challenge's
\* age and the look-up of its nonce.
Tick ==
  /\ \A q \in Requests : req[q].st # "loaded" /\ ~At(q, "wallet", "keyed")
  /\ challenge.left > 0 \/ \E k \in Keys : store[k].left > 0
  /\ challenge' = [challenge EXCEPT !.left = IF @ = 0 THEN 0 ELSE @ - 1]
  /\ store' = [k \in Keys |-> IF store[k].left <= 1 THEN Empty ELSE [store[k] EXCEPT !.left = @ - 1]]
  /\ UNCHANGED <<lyric, games, account, gen, req, settled, clean, about>>

\* Bound: a behaviour's requests are about one of the four, which share
\* neither a row nor a key.
Begin(q) ==
  \E p \in Processes :
    \/ about = "lyric" /\ (findOne(q, p) \/ remove(q, p) \/ restore(q, p) \/ deactivateBySource(q, p)
                             \/ createLyric(q, p) \/ importLyrics(q, p))
    \/ about = "stats" /\ (getUserStats(q, p) \/ create(q, p))
    \/ about = "profile" /\ findPublicProfile(q, p)
    \/ about = "wallet" /\ verifyChallenge(q, p)
Continue(q) ==
  \/ lyricGet(q) \/ lyricLoad(q) \/ lyricSet(q) \/ lyricSave(q) \/ bulkUpsert(q) \/ clearCacheRead(q) \/ clearCacheSet(q)
  \/ statsGet(q) \/ statsQuery(q) \/ statsSet(q) \/ createDel(q)
  \/ profileGet(q) \/ profileLoad(q) \/ getHeadToHeadRecord(q) \/ profileSet(q)
  \/ consumeChallengeGet(q) \/ consumeChallengeSet(q)
  \/ End(q)

Next ==
  \/ \E q \in Requests : Begin(q) \/ Continue(q) \/ Abort(q)
  \/ about = "profile" /\ (removeAccount \/ sessionEnds)
  \/ about = "wallet" /\ buildChallenge
  \/ Tick

\* Requests end and time passes.
Fairness == (\A q \in Requests : WF_vars(Continue(q))) /\ WF_vars(Tick)
Spec == Init /\ [][Next]_vars /\ Fairness

---------------------------------------------------------------------------

\* "Bumping it invalidates all lyric entries at once": a read that comes in
\* after a change of the lyric was answered is not served the old row.
FreshLyric ==
  \A q \in Requests : At(q, "findOne", "answered") /\ req[q].val # NotFound => req[q].val >= req[q].floor

\* A lyric or a profile that is there all through a read of it, a lyric just
\* restored for one, is found by the read, whatever was cached before.
PresentIsFound ==
  \A q \in Requests : req[q].st = "answered" /\ req[q].sure => req[q].val # NotFound

\* Statistics asked for after a guess was recorded count it, unless a read of
\* them overlapped the recording.
StatsCounted ==
  \A q \in Requests : At(q, "getUserStats", "answered") => req[q].val >= req[q].floor + 1

\* consumeChallenge, "rejecting any replay": a challenge that is presented again
\* within its time bounds, after a presentation of it was accepted, is refused,
\* however late in them the first was.  It says nothing of the grace after the
\* bounds, which outlives the nonce, nor of two presentations at once, which
\* both read the nonce as unused: there the code does accept a replay.
ReplayRefusedInTime ==
  \A q \in Requests : At(q, "wallet", "answered") /\ req[q].floor = 1 => req[q].val = NotFound

\* Whatever raced or died, what the cache can serve is in the end what the
\* rows hold.
Current ==
  /\ Get(statsKey) \in {0, games + 1}
  /\ Get(profileKey) \in {0} \cup (IF account = 1 THEN {games + 1} ELSE {})
  /\ \A v \in Versions : Get(lyricKey(v)) \in {0, lyric.rev}
EventuallyCurrent == <>[]Current
============================================================================
