------------------------------ MODULE CachesProofs ---------------------------
(***************************************************************************)
(* What is read through the cache, for any number of requests and          *)
(* processes and any lifetimes of the entries.  The four subjects of a     *)
(* behaviour share neither row nor key, so each has an invariant of its    *)
(* own.                                                                    *)
(*                                                                         *)
(* Wallet: the nonce of a spent challenge outlives its time bounds. Stats: *)
(* no entry, and nothing a reader is about to store, is older than what a  *)
(* reader in flight must be answered.  Profile and Lyric: a 404 is never   *)
(* stored or loaded, and a request is sure only while the row is there;    *)
(* for the lyric the namespace version must also be one the store has keys *)
(* for, which follows from counting the changes under way.                 *)
(***************************************************************************)
EXTENDS Caches, FiniteSetTheorems, TLAPS

Entry == [val : Nat, left : Nat]

Reqs(ops, sts) ==
  [op : ops, st : sts, proc : Processes \cup {"none"}, n : Nat, gen : Nat, val : Nat,
   floor : Nat, sure : BOOLEAN]
Fresh(op, st, p, n, floor, sure) ==
  [op |-> op, st |-> st, proc |-> p, n |-> n, gen |-> 0, val |-> 0, floor |-> floor, sure |-> sure]
WalletReqs == Reqs({"wallet"}, {"keyed", "missed", "answered"})
StatsReqs == Reqs({"getUserStats"}, {"keyed", "missed", "loaded", "answered"}) \cup Reqs({"record"}, {"saved"})
ProfileReqs == Reqs({"findPublicProfile"}, {"keyed", "missed", "found", "loaded", "answered"})
LyricReqs == Reqs({"findOne"}, {"keyed", "missed", "loaded", "answered"})
             \cup Reqs({"remove", "restore", "import"}, {"found"}) \cup Reqs({"clear"}, {"saved", "bumped"})

NonceKept(c, s) == c.spent /\ c.left > Grace => s[nonceKey].val # 0 /\ s[nonceKey].left > c.left - Grace
WalletRequest(r, s) ==
  /\ ~r.sure
  /\ r.st = "keyed" /\ r.floor = 1 => s[nonceKey].val # 0
  /\ r.st = "missed" => r.floor # 1
  /\ r.st = "answered" /\ r.floor = 1 => r.val = NotFound
Wallet ==
  /\ store \in [Keys -> Entry] /\ req \in [Requests -> {Idle} \cup WalletReqs]
  /\ challenge \in [built : BOOLEAN, left : 0..(ChallengeTimeout + Grace), spent : BOOLEAN]
  /\ NonceKept(challenge, store)
  /\ \A q \in Requests : WalletRequest(req[q], store)

Reading(r) == r.op = "getUserStats" /\ r.st # "answered"
Loaded(r) == r.op = "getUserStats" /\ r.st = "loaded"
Above(v, floor) == v = 0 \/ v >= floor + 1
StatsRequest(r, v, g) ==
  /\ ~r.sure
  /\ Loaded(r) => r.val >= 1
  /\ Reading(r) => r.floor <= g /\ Above(v, r.floor)
  /\ r.op = "getUserStats" /\ r.st = "answered" => r.val >= r.floor + 1
Enough(r, reader) == Loaded(r) /\ Reading(reader) => r.val >= reader.floor + 1
Stats ==
  /\ store \in [Keys -> Entry] /\ req \in [Requests -> {Idle} \cup StatsReqs]
  /\ games \in Nat
  /\ clean /\ ~Recording => Get(statsKey) \in {0, games + 1}
  /\ clean => \A q \in Requests : Loaded(req[q]) => req[q].val = games + 1
  /\ \A q \in Requests : StatsRequest(req[q], Get(statsKey), games)
  /\ \A p, q \in Requests : Enough(req[p], req[q])

ProfileRequest(r, a) ==
  /\ r.st = "loaded" => r.val < NotFound
  /\ r.st # "answered" /\ r.sure => a = 1
  /\ r.st = "answered" /\ r.sure => r.val # NotFound
Profile ==
  /\ store \in [Keys -> Entry] /\ req \in [Requests -> {Idle} \cup ProfileReqs]
  /\ games \in 0..MaxGames
  /\ Get(profileKey) < NotFound
  /\ \A q \in Requests : ProfileRequest(req[q], account)

(* The changes of the row still to be written, and those not yet answered. *)
Writes(r) == \/ r.op \in {"remove", "restore"} /\ r.st = "found"
             \/ r.op = "import" /\ r.st = "found" /\ r.n = 1
Clears(r) == r.op = "clear" \/ (r.op = "import" /\ r.n # 1)
Writing == {q \in Requests : Writes(req[q])}
Unanswered == {q \in Requests : Clears(req[q])}
(* Versions already taken leave room for the bumps still to come. *)
Below(v) == v + Cardinality(Unanswered) + 1 <= lyric.rev + games

LyricRequest(r, l) ==
  /\ r # Idle /\ r.st # "answered" => r.proc \in Processes
  /\ r.op = "import" => r.n \in {0, 1}
  /\ r.op = "findOne" /\ r.st # "answered" => r.n \in Versions
  /\ r.st = "loaded" => r.val < NotFound
  /\ r.op = "findOne" /\ r.st # "answered" /\ r.sure => l.active
  /\ r.st = "answered" /\ r.sure => r.val # NotFound
Lyric ==
  /\ store \in [Keys -> Entry] /\ req \in [Requests -> {Idle} \cup LyricReqs]
  /\ lyric \in [active : BOOLEAN, rev : Nat] /\ games \in Nat /\ gen \in [Processes -> Nat]
  /\ settled \in Nat
  /\ lyric.rev + games + Cardinality(Writing) <= MaxWrites + 1
  /\ Below(Get(nsKey))
  /\ \A q \in Requests : req[q].st = "bumped" => Below(req[q].n)
  /\ \A v \in Versions : Get(lyricKey(v)) < NotFound
  /\ \A q \in Requests : LyricRequest(req[q], lyric)

IInv ==
  /\ about \in Subjects
  /\ about = "wallet" => Wallet
  /\ about = "stats" => Stats
  /\ about = "profile" => Profile
  /\ about = "lyric" => Lyric

-----------------------------------------------------------------------------
(* The store and the requests *)

LEMMA NotFoundIs == NotFound \in Nat /\ MaxWrites + 1 < NotFound /\ MaxGames + 1 < NotFound
BY CachesAssumption DEF NotFound

LEMMA KeysAre ==
    /\ nsKey \in Keys /\ statsKey \in Keys /\ profileKey \in Keys /\ nonceKey \in Keys
    /\ nsKey # statsKey /\ nsKey # profileKey /\ nsKey # nonceKey
    /\ \A v \in Versions : lyricKey(v) \in Keys /\ lyricKey(v) # nsKey
BY DEF Keys, nsKey, statsKey, profileKey, nonceKey, lyricKey

LEMMA PutStore ==
    ASSUME store \in [Keys -> Entry], NEW key \in Keys, NEW val \in Nat, NEW ttl \in Nat,
           Put(key, val, ttl)
    PROVE  /\ store' \in [Keys -> Entry] /\ store'[key].val = val /\ store'[key].left = ttl
           /\ \A k \in Keys : k # key => store'[k] = store[k]
BY DEF Put, Entry

(* Time takes entries away and changes none. *)
LEMMA TickStore ==
    ASSUME store \in [Keys -> Entry], Tick
    PROVE  /\ store' \in [Keys -> Entry]
           /\ \A k \in Keys :
                /\ store'[k].val = 0 \/ store'[k].val = store[k].val
                /\ store[k].left > 1 => store'[k].val = store[k].val /\ store'[k].left = store[k].left - 1
<1>1. Empty \in Entry /\ Empty.val = 0
  BY DEF Empty, Entry
<1>2. ASSUME NEW k \in Keys, ~(store[k].left <= 1)
      PROVE  /\ [store[k] EXCEPT !.left = store[k].left - 1] \in Entry
             /\ [store[k] EXCEPT !.left = store[k].left - 1].val = store[k].val
             /\ [store[k] EXCEPT !.left = store[k].left - 1].left = store[k].left - 1
  BY <1>2 DEF Entry
<1>3. \A k \in Keys : store[k].left \in Nat
  BY DEF Entry
<1>4. store' = [k \in Keys |-> IF store[k].left <= 1 THEN Empty
                               ELSE [store[k] EXCEPT !.left = store[k].left - 1]]
  BY DEF Tick
<1> HIDE DEF Empty
<1> QED BY <1>1, <1>2, <1>3, <1>4

LEMMA Moved ==
    ASSUME NEW S, req \in [Requests -> S], NEW q \in Requests, NEW x \in S, req' = [req EXCEPT ![q] = x]
    PROVE  /\ req' \in [Requests -> S] /\ req'[q] = x
           /\ \A p \in Requests : p # q => req'[p] = req[p]
OBVIOUS

LEMMA IdleIs ==
    /\ Idle.op = "idle" /\ Idle.st = "idle" /\ Idle.n = 0 /\ Idle.val = 0 /\ Idle.floor = 0
    /\ Idle.sure = FALSE /\ Idle.proc = "none" /\ Idle.gen = 0
BY DEF Idle

LEMMA Unsure == Idle \in Reqs({"idle"}, {"idle"}) /\ [Idle EXCEPT !.sure = FALSE] = Idle
<1>1. Idle \in Reqs({"idle"}, {"idle"})
  BY DEF Idle, Reqs
<1>2. \A i \in Reqs({"idle"}, {"idle"}) : i.sure = FALSE => [i EXCEPT !.sure = FALSE] = i
  BY DEF Reqs
<1> QED BY <1>1, <1>2, IdleIs

LEMMA ClearingIs ==
    \A p \in Processes, rev \in Nat :
      /\ Clearing(p, rev) \in Reqs({"clear"}, {"saved"})
      /\ Clearing(p, rev).proc = p /\ ~Clearing(p, rev).sure
<1> SUFFICES ASSUME NEW p \in Processes, NEW rev \in Nat, NEW x, x = Clearing(p, rev)
             PROVE  x \in Reqs({"clear"}, {"saved"}) /\ x.proc = p /\ ~x.sure
  BY Zenon
<1>1. x = [Idle EXCEPT !.op = "clear", !.st = "saved", !.proc = p, !.val = rev]
  BY Zenon DEF Clearing
<1> QED BY <1>1, Unsure, IdleIs DEF Reqs

(* A request that moves on, keeping what it was asked. *)
LEMMA Answers ==
    ASSUME NEW q \in Requests, NEW ops, NEW sts, req[q] \in Reqs(ops, sts), NEW val \in Nat, Answer(q, val)
    PROVE  \E x \in Reqs(ops, {"answered"}) :
             /\ req' = [req EXCEPT ![q] = x]
             /\ x.op = req[q].op /\ x.st = "answered" /\ x.val = val
             /\ x.floor = req[q].floor /\ x.sure = req[q].sure
<1> DEFINE x == [req[q] EXCEPT !.st = "answered", !.val = val, !.proc = "none", !.n = 0, !.gen = 0]
<1>1. x \in Reqs(ops, {"answered"}) /\ x.op = req[q].op /\ x.st = "answered" /\ x.val = val
      /\ x.floor = req[q].floor /\ x.sure = req[q].sure
  BY DEF Reqs
<1>2. req' = [req EXCEPT ![q] = x]
  BY DEF Answer
<1> QED BY <1>1, <1>2

LEMMA Goes ==
    ASSUME NEW q \in Requests, NEW ops, NEW sts, req[q] \in Reqs(ops, sts), NEW st, Goto(q, st)
    PROVE  \E x \in Reqs(ops, {st}) :
             /\ req' = [req EXCEPT ![q] = x]
             /\ x.op = req[q].op /\ x.st = st /\ x.val = req[q].val /\ x.proc = req[q].proc /\ x.n = req[q].n
             /\ x.floor = req[q].floor /\ x.sure = req[q].sure
<1> DEFINE x == [req[q] EXCEPT !.st = st]
<1>1. x \in Reqs(ops, {st}) /\ x.op = req[q].op /\ x.st = st /\ x.val = req[q].val /\ x.proc = req[q].proc
      /\ x.n = req[q].n /\ x.floor = req[q].floor /\ x.sure = req[q].sure
  BY DEF Reqs
<1> QED BY <1>1 DEF Goto

-----------------------------------------------------------------------------
(* Wallet challenges *)

LEMMA WalletSteps ==
    ASSUME about = "wallet", Wallet, Next
    PROVE  \/ \E q \in Requests, p \in Processes : verifyChallenge(q, p)
           \/ \E q \in Requests : consumeChallengeGet(q) \/ consumeChallengeSet(q) \/ End(q)
           \/ buildChallenge \/ Tick
<1>1. \A q \in Requests : req[q].op \in {"idle", "wallet"} /\ req[q].st \in {"idle", "keyed", "missed", "answered"}
  BY IdleIs DEF Wallet, WalletReqs, Reqs
<1>2. ASSUME NEW q \in Requests, Continue(q)
      PROVE  consumeChallengeGet(q) \/ consumeChallengeSet(q) \/ End(q)
  BY <1>1, <1>2 DEF Continue, lyricGet, lyricLoad, lyricSet, lyricSave, bulkUpsert, clearCacheRead,
     clearCacheSet, statsGet, statsQuery, statsSet, createDel, profileGet, profileLoad,
     getHeadToHeadRecord, profileSet, At
<1>3. ASSUME NEW q \in Requests, Abort(q) PROVE FALSE
  BY <1>1, <1>3 DEF Abort
<1> QED BY <1>2, <1>3 DEF Next, Begin

LEMMA WalletMove ==
    ASSUME Wallet, NEW q \in Requests, NEW x \in {Idle} \cup WalletReqs, req' = [req EXCEPT ![q] = x],
           store' \in [Keys -> Entry],
           \A p \in Requests : p # q => WalletRequest(req[p], store'), WalletRequest(x, store'),
           challenge' \in [built : BOOLEAN, left : 0..(ChallengeTimeout + Grace), spent : BOOLEAN],
           NonceKept(challenge', store')
    PROVE  Wallet'
<1>1. /\ req' \in [Requests -> {Idle} \cup WalletReqs] /\ req'[q] = x
      /\ \A p \in Requests : p # q => req'[p] = req[p]
  BY Moved DEF Wallet
<1>2. \A p \in Requests : WalletRequest(req'[p], store')
  BY <1>1
<1> QED BY <1>1, <1>2 DEF Wallet, NonceKept, WalletRequest

LEMMA WalletStep ==
    ASSUME about = "wallet", Wallet, [Next]_vars
    PROVE  Wallet'
<1>1. /\ challenge.left \in Nat /\ challenge.left <= ChallengeTimeout + Grace /\ Grace \in Nat
      /\ challenge.spent \in BOOLEAN /\ challenge.built \in BOOLEAN
  BY CachesAssumption DEF Wallet
<1>2. WalletRequest(Idle, store) /\ WalletRequest(Idle, store')
  BY IdleIs DEF WalletRequest
<1>3. ASSUME NEW q \in Requests, NEW p \in Processes, verifyChallenge(q, p) PROVE Wallet'
  <2>1. PICK x : x = Fresh("wallet", "keyed", p, 0, IF challenge.spent /\ InTime THEN 1 ELSE 0, FALSE)
    OBVIOUS
  <2>2. UNCHANGED <<store, challenge>> /\ req' = [req EXCEPT ![q] = x] /\ challenge.left > 0
    BY <1>3, <2>1 DEF verifyChallenge, Start, Fresh
  <2>3. x \in {Idle} \cup WalletReqs /\ x.st = "keyed" /\ ~x.sure
        /\ x.floor = (IF challenge.spent /\ InTime THEN 1 ELSE 0)
    BY <2>1 DEF WalletReqs, Reqs, Fresh
  <2>4. WalletRequest(x, store')
    BY <1>1, <2>2, <2>3 DEF WalletRequest, Wallet, NonceKept, InTime
  <2> QED BY <2>2, <2>3, <2>4, WalletMove DEF Wallet
<1>4. ASSUME NEW q \in Requests, consumeChallengeGet(q) PROVE Wallet'
  <2>1. UNCHANGED <<store, challenge>> /\ req[q].op = "wallet" /\ req[q].st = "keyed"
    BY <1>4 DEF consumeChallengeGet, At
  <2>2. req[q] \in Reqs({"wallet"}, {"keyed", "missed", "answered"}) /\ req[q].val \in Nat
    BY <2>1, IdleIs DEF Wallet, WalletReqs, Reqs
  <2>3. WalletRequest(req[q], store)
    BY DEF Wallet
  <2>4. CASE Get(nonceKey) # 0
    <3>1. Answer(q, NotFound)
      BY <1>4, <2>4 DEF consumeChallengeGet
    <3>2. PICK x \in Reqs({"wallet"}, {"answered"}) :
            req' = [req EXCEPT ![q] = x] /\ x.st = "answered" /\ x.val = NotFound /\ x.sure = req[q].sure
      BY <2>2, <3>1, Answers, NotFoundIs
    <3>3. x \in {Idle} \cup WalletReqs /\ WalletRequest(x, store')
      BY <2>3, <3>2 DEF WalletReqs, Reqs, WalletRequest
    <3> QED BY <2>1, <3>2, <3>3, WalletMove DEF Wallet
  <2>5. CASE Get(nonceKey) = 0
    <3>1. Goto(q, "missed")
      BY <1>4, <2>5 DEF consumeChallengeGet
    <3>2. PICK x \in Reqs({"wallet"}, {"missed"}) :
            req' = [req EXCEPT ![q] = x] /\ x.st = "missed" /\ x.floor = req[q].floor /\ x.sure = req[q].sure
      BY <2>2, <3>1, Goes
    <3>3. x \in {Idle} \cup WalletReqs /\ WalletRequest(x, store')
      BY <2>1, <2>3, <2>5, <3>2 DEF WalletReqs, Reqs, WalletRequest, Get
    <3> QED BY <2>1, <3>2, <3>3, WalletMove DEF Wallet
  <2> QED BY <2>4, <2>5
<1>5. ASSUME NEW q \in Requests, consumeChallengeSet(q) PROVE Wallet'
  <2>1. /\ req[q].op = "wallet" /\ req[q].st = "missed" /\ Put(nonceKey, 1, nonceTtl) /\ Answer(q, 1)
        /\ challenge' = [challenge EXCEPT !.spent = TRUE]
    BY <1>5 DEF consumeChallengeSet, At
  <2>2. req[q] \in Reqs({"wallet"}, {"keyed", "missed", "answered"})
    BY <2>1, IdleIs DEF Wallet, WalletReqs, Reqs
  <2>3. PICK x \in Reqs({"wallet"}, {"answered"}) :
          /\ req' = [req EXCEPT ![q] = x] /\ x.st = "answered" /\ x.val = 1
          /\ x.floor = req[q].floor /\ x.sure = req[q].sure
    BY <2>1, <2>2, Answers
  <2>4. x.floor # 1 /\ ~x.sure
    BY <2>1, <2>3 DEF Wallet, WalletRequest
  <2>5. nonceTtl \in Nat /\ nonceTtl > challenge.left - Grace
    BY <1>1, CachesAssumption DEF nonceTtl
  <2>6. store' \in [Keys -> Entry] /\ store'[nonceKey].val = 1 /\ store'[nonceKey].left = nonceTtl
    BY <2>1, <2>5, KeysAre, PutStore DEF Wallet
  <2>7. x \in {Idle} \cup WalletReqs /\ WalletRequest(x, store')
    BY <2>3, <2>4 DEF WalletReqs, Reqs, WalletRequest
  <2>8. \A p \in Requests : p # q => WalletRequest(req[p], store')
    BY <2>6 DEF Wallet, WalletRequest
  <2>9. /\ challenge' \in [built : BOOLEAN, left : 0..(ChallengeTimeout + Grace), spent : BOOLEAN]
        /\ challenge'.left = challenge.left
    BY <2>1 DEF Wallet
  <2>10. NonceKept(challenge', store')
    BY <1>1, <2>5, <2>6, <2>9 DEF NonceKept
  <2> QED BY <2>3, <2>5, <2>6, <2>7, <2>8, <2>9, <2>10, WalletMove
<1>6. ASSUME NEW q \in Requests, End(q) PROVE Wallet'
  <2>1. UNCHANGED <<store, challenge>> /\ req' = [req EXCEPT ![q] = Idle]
    BY <1>6 DEF End
  <2> QED BY <1>2, <2>1, WalletMove DEF Wallet
<1>7. CASE buildChallenge
  <2>1. /\ UNCHANGED <<store, req>> /\ ~challenge.built
        /\ challenge' = [built |-> TRUE, left |-> ChallengeTimeout + Grace, spent |-> FALSE]
    BY <1>7 DEF buildChallenge
  <2>2. challenge' \in [built : BOOLEAN, left : 0..(ChallengeTimeout + Grace), spent : BOOLEAN]
    BY <2>1, CachesAssumption
  <2> QED BY <2>1, <2>2 DEF Wallet, NonceKept, WalletRequest
<1>8. CASE Tick
  <2>1. /\ UNCHANGED req /\ \A q \in Requests : ~(req[q].op = "wallet" /\ req[q].st = "keyed")
        /\ challenge' = [challenge EXCEPT !.left = IF challenge.left = 0 THEN 0 ELSE challenge.left - 1]
    BY <1>8 DEF Tick, At
  <2>2. /\ store' \in [Keys -> Entry]
        /\ store[nonceKey].left > 1 =>
             store'[nonceKey].val = store[nonceKey].val /\ store'[nonceKey].left = store[nonceKey].left - 1
    BY <1>8, TickStore, KeysAre DEF Wallet
  <2>3. /\ challenge' \in [built : BOOLEAN, left : 0..(ChallengeTimeout + Grace), spent : BOOLEAN]
        /\ challenge'.left = (IF challenge.left = 0 THEN 0 ELSE challenge.left - 1)
        /\ challenge'.spent = challenge.spent
    BY <1>1, <2>1, CachesAssumption DEF Wallet
  <2>4. store[nonceKey].left \in Nat
    BY KeysAre DEF Wallet, Entry
  <2>5. NonceKept(challenge', store')
    BY <1>1, <2>2, <2>3, <2>4 DEF Wallet, NonceKept
  <2>6. \A q \in Requests : req[q].st # "keyed"
    BY <2>1, IdleIs DEF Wallet, WalletReqs, Reqs
  <2>7. \A q \in Requests : WalletRequest(req'[q], store')
    BY <2>1, <2>6 DEF Wallet, WalletRequest
  <2> QED BY <2>1, <2>2, <2>3, <2>5, <2>7 DEF Wallet, NonceKept, WalletRequest
<1>9. CASE UNCHANGED vars
  BY <1>9 DEF vars, Wallet, NonceKept, WalletRequest
<1> QED BY <1>3, <1>4, <1>5, <1>6, <1>7, <1>8, <1>9, WalletSteps

-----------------------------------------------------------------------------
(* Statistics *)

LEMMA StatsSteps ==
    ASSUME about = "stats", Stats, Next
    PROVE  \/ \E q \in Requests, p \in Processes : getUserStats(q, p) \/ create(q, p)
           \/ \E q \in Requests : statsGet(q) \/ statsQuery(q) \/ statsSet(q) \/ createDel(q) \/ End(q) \/ Abort(q)
           \/ Tick
<1>1. \A q \in Requests : /\ req[q].op \in {"idle", "getUserStats", "record"} /\ req[q].st # "bumped"
                          /\ req[q].op = "record" => req[q].st = "saved"
  BY IdleIs DEF Stats, StatsReqs, Reqs
<1>2. ASSUME NEW q \in Requests, Continue(q)
      PROVE  statsGet(q) \/ statsQuery(q) \/ statsSet(q) \/ createDel(q) \/ End(q)
  BY <1>1, <1>2 DEF Continue, lyricGet, lyricLoad, lyricSet, lyricSave, bulkUpsert, clearCacheRead,
     clearCacheSet, profileGet, profileLoad, getHeadToHeadRecord, profileSet,
     consumeChallengeGet, consumeChallengeSet, At
<1> QED BY <1>2 DEF Next, Begin

(* One request moves to x; what it is next to must hold of the old requests *)
(* with the new store and number of guesses.                               *)
LEMMA StatsMove ==
    ASSUME Stats, NEW q \in Requests, NEW x \in {Idle} \cup StatsReqs, req' = [req EXCEPT ![q] = x],
           store' \in [Keys -> Entry], games' \in Nat,
           clean' /\ ~Recording' => store'[statsKey].val \in {0, games' + 1},
           clean' => \A p \in Requests : p # q => (Loaded(req[p]) => req[p].val = games' + 1),
           clean' => (Loaded(x) => x.val = games' + 1),
           \A p \in Requests : p # q => StatsRequest(req[p], store'[statsKey].val, games'),
           StatsRequest(x, store'[statsKey].val, games'),
           Enough(x, x), \A p \in Requests : p # q => Enough(x, req[p]) /\ Enough(req[p], x)
    PROVE  Stats'
<1>1. /\ req' \in [Requests -> {Idle} \cup StatsReqs] /\ req'[q] = x
      /\ \A p \in Requests : p # q => req'[p] = req[p]
  BY Moved DEF Stats
<1>2. \A p \in Requests : StatsRequest(req'[p], store'[statsKey].val, games')
  BY <1>1
<1>3. clean' => \A p \in Requests : Loaded(req'[p]) => req'[p].val = games' + 1
  BY <1>1
<1>4. \A p, r \in Requests : Enough(req'[p], req'[r])
  <2> SUFFICES ASSUME NEW p \in Requests, NEW r \in Requests PROVE Enough(req'[p], req'[r])
    OBVIOUS
  <2>1. Enough(req[p], req[r])
    BY DEF Stats
  <2> QED BY <1>1, <2>1
<1> QED BY <1>1, <1>2, <1>3, <1>4 DEF Stats, Get, Loaded, StatsRequest, Enough, Reading, Above

(* A step of one reader, which leaves the guesses, the recordings and the  *)
(* store alone, or stores what it loaded.                                  *)
LEMMA ReaderMove ==
    ASSUME Stats, NEW q \in Requests, NEW x \in {Idle} \cup StatsReqs, req' = [req EXCEPT ![q] = x],
           req[q].op # "record", x.op # "record", UNCHANGED <<games, clean>>,
           store' \in [Keys -> Entry],
           \/ store'[statsKey].val = store[statsKey].val
           \/ Loaded(req[q]) /\ store'[statsKey].val = req[q].val,
           StatsRequest(x, store'[statsKey].val, games),
           clean => (Loaded(x) => x.val = games + 1),
           Enough(x, x), \A p \in Requests : p # q => Enough(x, req[p]) /\ Enough(req[p], x)
    PROVE  Stats'
<1>1. /\ req'[q] = x /\ \A p \in Requests : p # q => req'[p] = req[p]
  BY Moved DEF Stats
<1>2. Recording' = Recording
  BY <1>1 DEF Recording
<1>3. clean' /\ ~Recording' => store'[statsKey].val \in {0, games' + 1}
  BY <1>2 DEF Stats, Get
<1>4. ASSUME NEW p \in Requests, p # q PROVE StatsRequest(req[p], store'[statsKey].val, games')
  <2>1. StatsRequest(req[p], store[statsKey].val, games) /\ Enough(req[q], req[p])
    BY DEF Stats, Get
  <2> QED BY <2>1 DEF StatsRequest, Enough, Above
<1>5. clean' => \A p \in Requests : p # q => (Loaded(req[p]) => req[p].val = games' + 1)
  BY DEF Stats
<1>6. games' \in Nat
  BY DEF Stats
<1>7. StatsRequest(x, store'[statsKey].val, games') /\ (clean' => (Loaded(x) => x.val = games' + 1))
  OBVIOUS
<1> QED BY <1>3, <1>4, <1>5, <1>6, <1>7, StatsMove

LEMMA StatsStep ==
    ASSUME about = "stats", Stats, [Next]_vars
    PROVE  Stats'
<1>1. /\ \A v, g : StatsRequest(Idle, v, g)
      /\ ~Loaded(Idle) /\ ~Reading(Idle) /\ Idle.op # "record"
  BY IdleIs DEF StatsRequest, Loaded, Reading
<1>2. store \in [Keys -> Entry] /\ games \in Nat /\ store[statsKey].val \in Nat
  BY KeysAre DEF Stats, Entry
<1>3. \A q \in Requests : /\ req[q] \in {Idle} \cup StatsReqs
                          /\ StatsRequest(req[q], store[statsKey].val, games)
                          /\ \A p \in Requests : Enough(req[q], req[p])
  BY DEF Stats, Get
<1>4. \A q \in Requests : req[q].floor \in Nat /\ req[q].val \in Nat
  BY <1>3, IdleIs DEF StatsReqs, Reqs
<1>5. ASSUME NEW q \in Requests, req[q].op = "getUserStats"
      PROVE  req[q] \in Reqs({"getUserStats"}, {"keyed", "missed", "loaded", "answered"})
  BY <1>3, <1>5, IdleIs DEF StatsReqs, Reqs
<1>6. ASSUME NEW q \in Requests, NEW p \in Processes, getUserStats(q, p) PROVE Stats'
  <2>1. PICK x : x = Fresh("getUserStats", "keyed", p, 0, IF clean /\ ~Recording THEN games ELSE 0, FALSE)
    OBVIOUS
  <2>2. UNCHANGED <<store, games, clean>> /\ req' = [req EXCEPT ![q] = x] /\ req[q] = Idle
    BY <1>6, <2>1 DEF getUserStats, Start, Fresh
  <2>3. x.floor = (IF clean /\ ~Recording THEN games ELSE 0) /\ ~x.sure
    BY <2>1 DEF Fresh
  <2>4. x \in {Idle} \cup StatsReqs /\ x.op = "getUserStats" /\ x.st = "keyed"
    BY <1>2, <2>1 DEF StatsReqs, Reqs, Fresh
  <2>5. Reading(x) /\ ~Loaded(x)
    BY <2>4 DEF Loaded, Reading
  <2>6. StatsRequest(x, store[statsKey].val, games)
    BY <1>2, <2>3, <2>4, <2>5 DEF StatsRequest, Stats, Get, Above
  <2>7. ASSUME NEW r \in Requests PROVE Enough(req[r], x)
    <3>1. Loaded(req[r]) => req[r].val >= 1 /\ (clean => req[r].val = games + 1)
      BY <1>3 DEF Stats, StatsRequest
    <3> QED BY <1>2, <1>4, <2>3, <3>1 DEF Enough
  <2>8. Enough(x, x) /\ \A r \in Requests : Enough(x, req[r])
    BY <2>5 DEF Enough
  <2> QED BY <1>1, <1>2, <2>2, <2>4, <2>5, <2>6, <2>7, <2>8, ReaderMove
<1>7. ASSUME NEW q \in Requests, NEW p \in Processes, create(q, p) PROVE Stats'
  <2>1. PICK x : x = Fresh("record", "saved", p, 0, 0, FALSE)
    OBVIOUS
  <2>2. UNCHANGED store /\ games' = games + 1 /\ req' = [req EXCEPT ![q] = x] /\ clean' = ~ReadingStats
    BY <1>7, <2>1 DEF create, Start, Fresh
  <2>3. x \in {Idle} \cup StatsReqs /\ x.op = "record" /\ ~x.sure
    BY <2>1 DEF StatsReqs, Reqs, Fresh
  <2>4. ~Loaded(x) /\ ~Reading(x) /\ StatsRequest(x, store'[statsKey].val, games')
    BY <2>3 DEF Loaded, Reading, StatsRequest
  <2>5. req'[q] = x
    BY <2>2, <2>3, Moved DEF Stats
  <2>6. Recording'
    BY <2>3, <2>5 DEF Recording
  <2>7. clean' => \A r \in Requests : ~Loaded(req[r])
    BY <2>2 DEF ReadingStats, Loaded
  <2>8. \A r \in Requests : StatsRequest(req[r], store'[statsKey].val, games')
    BY <1>2, <1>3, <1>4, <2>2 DEF StatsRequest, Above
  <2>9. Enough(x, x) /\ \A r \in Requests : Enough(x, req[r]) /\ Enough(req[r], x)
    BY <2>4 DEF Enough
  <2>10. store' \in [Keys -> Entry] /\ games' \in Nat
    BY <1>2, <2>2
  <2> QED BY <2>2, <2>3, <2>4, <2>6, <2>7, <2>8, <2>9, <2>10, StatsMove
<1>8. ASSUME NEW q \in Requests, statsGet(q) PROVE Stats'
  <2>1. UNCHANGED <<store, games, clean>> /\ req[q].op = "getUserStats" /\ req[q].st = "keyed"
    BY <1>8 DEF statsGet, At
  <2>2. Reading(req[q]) /\ ~req[q].sure /\ req[q].floor <= games /\ Above(store[statsKey].val, req[q].floor)
    BY <1>3, <2>1 DEF Reading, StatsRequest
  <2>3. CASE store[statsKey].val # 0
    <3>1. Answer(q, store[statsKey].val)
      BY <1>8, <2>3 DEF statsGet, Get
    <3>2. PICK x \in Reqs({"getUserStats"}, {"answered"}) :
            /\ req' = [req EXCEPT ![q] = x] /\ x.op = req[q].op /\ x.st = "answered"
            /\ x.val = store[statsKey].val /\ x.floor = req[q].floor /\ x.sure = req[q].sure
      BY <1>2, <1>5, <2>1, <3>1, Answers
    <3>3. x \in {Idle} \cup StatsReqs /\ ~Loaded(x) /\ ~Reading(x)
      BY <3>2 DEF StatsReqs, Reqs, Loaded, Reading
    <3>4. StatsRequest(x, store'[statsKey].val, games)
      BY <2>2, <2>3, <3>2, <3>3 DEF StatsRequest, Above
    <3>5. Enough(x, x) /\ \A r \in Requests : Enough(x, req[r]) /\ Enough(req[r], x)
      BY <3>3 DEF Enough
    <3> QED BY <1>2, <2>1, <3>2, <3>3, <3>4, <3>5, ReaderMove
  <2>4. CASE store[statsKey].val = 0
    <3>1. Goto(q, "missed")
      BY <1>8, <2>4 DEF statsGet, Get
    <3>a. req[q] \in Reqs({"getUserStats"}, {"keyed", "missed", "loaded", "answered"})
      BY <1>5, <2>1
    <3>b. PICK x : x = [req[q] EXCEPT !.st = "missed"]
      OBVIOUS
    <3>2. /\ req' = [req EXCEPT ![q] = x] /\ x \in Reqs({"getUserStats"}, {"missed"})
          /\ x.op = req[q].op /\ x.st = "missed" /\ x.floor = req[q].floor /\ x.sure = req[q].sure
      BY <3>a, <3>1, <3>b DEF Goto, Reqs
    <3>3. x \in {Idle} \cup StatsReqs /\ ~Loaded(x) /\ Reading(x)
      BY <2>1, <3>2 DEF StatsReqs, Reqs, Loaded, Reading
    <3>4. StatsRequest(x, store'[statsKey].val, games)
      BY <2>1, <2>2, <3>2, <3>3 DEF StatsRequest
    <3>5. Enough(x, x) /\ \A r \in Requests : Enough(x, req[r]) /\ Enough(req[r], x)
      BY <1>3, <2>2, <3>2, <3>3 DEF Enough
    <3> QED BY <1>2, <2>1, <3>2, <3>3, <3>4, <3>5, ReaderMove
  <2> QED BY <2>3, <2>4
<1>9. ASSUME NEW q \in Requests, statsQuery(q) PROVE Stats'
  <2>1. /\ UNCHANGED <<store, games, clean>> /\ req[q].op = "getUserStats" /\ req[q].st = "missed"
        /\ req' = [req EXCEPT ![q].st = "loaded", ![q].val = games + 1]
    BY <1>9 DEF statsQuery, At
  <2>2. Reading(req[q]) /\ ~req[q].sure /\ req[q].floor <= games /\ Above(store[statsKey].val, req[q].floor)
    BY <1>3, <2>1 DEF Reading, StatsRequest
  <2>3. games + 1 \in Nat /\ req[q] \in Reqs({"getUserStats"}, {"keyed", "missed", "loaded", "answered"})
    BY <1>2, <1>5, <2>1
  <2>a. PICK x : x = [req[q] EXCEPT !.st = "loaded", !.val = games + 1]
    OBVIOUS
  <2>4. /\ req' = [req EXCEPT ![q] = x] /\ x \in Reqs({"getUserStats"}, {"loaded"})
        /\ x.op = req[q].op /\ x.st = "loaded" /\ x.val = games + 1 /\ x.floor = req[q].floor /\ x.sure = req[q].sure
    BY <2>1, <2>3, <2>a DEF Reqs
  <2>5. x \in {Idle} \cup StatsReqs /\ Loaded(x) /\ Reading(x)
    BY <2>1, <2>4 DEF StatsReqs, Reqs, Loaded, Reading
  <2>6. StatsRequest(x, store'[statsKey].val, games)
    BY <1>2, <2>1, <2>2, <2>4, <2>5 DEF StatsRequest
  <2>7. \A r \in Requests : Reading(req[r]) => req[r].floor <= games
    BY <1>3 DEF StatsRequest
  <2>8. Enough(x, x) /\ \A r \in Requests : Enough(x, req[r]) /\ Enough(req[r], x)
    BY <1>2, <1>3, <1>4, <2>2, <2>4, <2>5, <2>7 DEF Enough
  <2> QED BY <1>2, <2>1, <2>4, <2>5, <2>6, <2>8, ReaderMove
<1>10. ASSUME NEW q \in Requests, statsSet(q) PROVE Stats'
  <2>1. /\ UNCHANGED <<games, clean>> /\ req[q].op = "getUserStats" /\ req[q].st = "loaded"
        /\ Put(statsKey, req[q].val, BriefTtl) /\ Answer(q, req[q].val)
    BY <1>10 DEF statsSet, At
  <2>2. Loaded(req[q]) /\ Reading(req[q]) /\ req[q].val >= req[q].floor + 1 /\ ~req[q].sure
    BY <1>3, <2>1 DEF Reading, Loaded, Enough, StatsRequest
  <2>3. store' \in [Keys -> Entry] /\ store'[statsKey].val = req[q].val
    BY <1>2, <1>4, <2>1, PutStore, KeysAre, CachesAssumption
  <2>4. PICK x \in Reqs({"getUserStats"}, {"answered"}) :
          /\ req' = [req EXCEPT ![q] = x] /\ x.op = req[q].op /\ x.st = "answered"
          /\ x.val = req[q].val /\ x.floor = req[q].floor /\ x.sure = req[q].sure
    BY <1>4, <1>5, <2>1, Answers
  <2>5. x \in {Idle} \cup StatsReqs /\ ~Loaded(x) /\ ~Reading(x)
    BY <2>4 DEF StatsReqs, Reqs, Loaded, Reading
  <2>6. StatsRequest(x, store'[statsKey].val, games)
    BY <2>2, <2>4, <2>5 DEF StatsRequest
  <2>7. Enough(x, x) /\ \A r \in Requests : Enough(x, req[r]) /\ Enough(req[r], x)
    BY <2>5 DEF Enough
  <2> QED BY <2>1, <2>2, <2>3, <2>4, <2>5, <2>6, <2>7, ReaderMove
<1>11. ASSUME NEW q \in Requests, createDel(q) PROVE Stats'
  <2>1. UNCHANGED <<games, clean>> /\ Del(statsKey) /\ req' = [req EXCEPT ![q] = Idle]
    BY <1>11 DEF createDel
  <2>2. Empty \in Entry /\ Empty.val = 0
    BY DEF Empty, Entry
  <2>3. store' \in [Keys -> Entry] /\ store'[statsKey].val = 0
    BY <1>2, <2>1, <2>2, KeysAre DEF Del
  <2>4. \A r \in Requests : StatsRequest(req[r], store'[statsKey].val, games')
    BY <1>3, <2>1, <2>3 DEF StatsRequest, Above
  <2>5. clean' => \A r \in Requests : Loaded(req[r]) => req[r].val = games' + 1
    BY <2>1 DEF Stats
  <2>6. Enough(Idle, Idle) /\ \A r \in Requests : Enough(Idle, req[r]) /\ Enough(req[r], Idle)
    BY <1>1 DEF Enough
  <2> QED BY <1>1, <1>2, <2>1, <2>3, <2>4, <2>5, <2>6, StatsMove
<1>12. ASSUME NEW q \in Requests, End(q) PROVE Stats'
  <2>1. UNCHANGED <<store, games, clean>> /\ req' = [req EXCEPT ![q] = Idle] /\ req[q].st = "answered"
    BY <1>12 DEF End
  <2>2. req[q].op # "record"
    BY <1>3, <2>1, IdleIs DEF StatsReqs, Reqs
  <2>3. Enough(Idle, Idle) /\ \A r \in Requests : Enough(Idle, req[r]) /\ Enough(req[r], Idle)
    BY <1>1 DEF Enough
  <2> QED BY <1>1, <1>2, <2>1, <2>2, <2>3, ReaderMove
<1>13. ASSUME NEW q \in Requests, Abort(q) PROVE Stats'
  <2>1. /\ UNCHANGED <<store, games>> /\ req' = [req EXCEPT ![q] = Idle] /\ req[q].st \in {"saved", "bumped"}
        /\ clean' = (clean /\ req[q].op # "record")
    BY <1>13 DEF Abort
  <2>2. req[q].op = "record"
    BY <1>3, <2>1, IdleIs DEF StatsReqs, Reqs
  <2>3. ~clean'
    BY <2>1, <2>2
  <2>4. Enough(Idle, Idle) /\ \A r \in Requests : Enough(Idle, req[r]) /\ Enough(req[r], Idle)
    BY <1>1 DEF Enough
  <2> QED BY <1>1, <1>2, <1>3, <2>1, <2>3, <2>4, StatsMove
<1>14. CASE Tick
  <2>1. UNCHANGED <<req, games, clean>>
    BY <1>14 DEF Tick
  <2>2. store' \in [Keys -> Entry] /\ store'[statsKey].val \in {0, store[statsKey].val}
    BY <1>2, <1>14, TickStore, KeysAre
  <2>3. \A q \in Requests : StatsRequest(req[q], store'[statsKey].val, games)
    BY <1>3, <2>2 DEF StatsRequest, Above
  <2>4. Recording' = Recording
    BY <2>1 DEF Recording
  <2> QED BY <2>1, <2>2, <2>3, <2>4 DEF Stats, Get, Loaded, StatsRequest, Enough, Reading, Above
<1>15. CASE UNCHANGED vars
  BY <1>15 DEF vars, Stats, Get, Recording, Loaded, StatsRequest, Enough, Reading, Above
<1> QED BY <1>6, <1>7, <1>8, <1>9, <1>10, <1>11, <1>12, <1>13, <1>14, <1>15, StatsSteps

-----------------------------------------------------------------------------
(* Public profiles *)

LEMMA ProfileSteps ==
    ASSUME about = "profile", Profile, Next
    PROVE  \/ \E q \in Requests, p \in Processes : findPublicProfile(q, p)
           \/ \E q \in Requests : profileGet(q) \/ profileLoad(q) \/ getHeadToHeadRecord(q) \/ profileSet(q) \/ End(q)
           \/ removeAccount \/ sessionEnds \/ Tick
<1>1. \A q \in Requests : /\ req[q].op \in {"idle", "findPublicProfile"}
                          /\ req[q].st \in {"idle", "keyed", "missed", "found", "loaded", "answered"}
  BY IdleIs DEF Profile, ProfileReqs, Reqs
<1>2. ASSUME NEW q \in Requests, Continue(q)
      PROVE  profileGet(q) \/ profileLoad(q) \/ getHeadToHeadRecord(q) \/ profileSet(q) \/ End(q)
  BY <1>1, <1>2 DEF Continue, lyricGet, lyricLoad, lyricSet, lyricSave, bulkUpsert, clearCacheRead,
     clearCacheSet, statsGet, statsQuery, statsSet, createDel, consumeChallengeGet, consumeChallengeSet, At
<1>3. ASSUME NEW q \in Requests, Abort(q) PROVE FALSE
  BY <1>1, <1>3 DEF Abort
<1> QED BY <1>2, <1>3 DEF Next, Begin

LEMMA ProfileMove ==
    ASSUME Profile, NEW q \in Requests, NEW x \in {Idle} \cup ProfileReqs, req' = [req EXCEPT ![q] = x],
           store' \in [Keys -> Entry], store'[profileKey].val < NotFound, UNCHANGED <<games, account>>,
           ProfileRequest(x, account)
    PROVE  Profile'
<1>1. /\ req' \in [Requests -> {Idle} \cup ProfileReqs] /\ req'[q] = x
      /\ \A p \in Requests : p # q => req'[p] = req[p]
  BY Moved DEF Profile
<1>2. \A p \in Requests : ProfileRequest(req'[p], account')
  BY <1>1 DEF Profile
<1> QED BY <1>1, <1>2 DEF Profile, Get, ProfileRequest

LEMMA ProfileStep ==
    ASSUME about = "profile", Profile, [Next]_vars
    PROVE  Profile'
<1>1. ProfileRequest(Idle, account)
  BY IdleIs DEF ProfileRequest
<1>2. /\ store \in [Keys -> Entry] /\ store[profileKey].val \in Nat /\ store[profileKey].val < NotFound
      /\ games \in Nat /\ games + 1 \in Nat /\ games + 1 < NotFound
  BY KeysAre, NotFoundIs, CachesAssumption DEF Profile, Entry, Get
<1>3. \A q \in Requests : req[q] \in {Idle} \cup ProfileReqs /\ ProfileRequest(req[q], account)
  BY DEF Profile
<1>4. ASSUME NEW q \in Requests, req[q].op = "findPublicProfile" PROVE req[q] \in ProfileReqs
  BY <1>3, <1>4, IdleIs
<1>5. ASSUME NEW q \in Requests, NEW p \in Processes, findPublicProfile(q, p) PROVE Profile'
  <2>1. PICK x : x = Fresh("findPublicProfile", "keyed", p, 0, 0, account = 1)
    OBVIOUS
  <2>2. UNCHANGED <<store, games, account>> /\ req' = [req EXCEPT ![q] = x]
    BY <1>5, <2>1 DEF findPublicProfile, Start, Fresh
  <2>3. x \in {Idle} \cup ProfileReqs /\ x.st = "keyed" /\ x.sure = (account = 1)
    BY <2>1 DEF ProfileReqs, Reqs, Fresh
  <2>4. ProfileRequest(x, account)
    BY <2>3 DEF ProfileRequest
  <2> QED BY <1>2, <2>2, <2>3, <2>4, ProfileMove
<1>6. ASSUME NEW q \in Requests, profileGet(q) PROVE Profile'
  <2>1. UNCHANGED <<store, games, account>> /\ req[q].op = "findPublicProfile" /\ req[q].st = "keyed"
    BY <1>6 DEF profileGet, At
  <2>2. req[q] \in Reqs({"findPublicProfile"}, {"keyed", "missed", "found", "loaded", "answered"})
    BY <1>4, <2>1 DEF ProfileReqs
  <2>3. CASE store[profileKey].val # 0
    <3>1. Answer(q, store[profileKey].val)
      BY <1>6, <2>3 DEF profileGet, Get
    <3>2. PICK x \in Reqs({"findPublicProfile"}, {"answered"}) :
            req' = [req EXCEPT ![q] = x] /\ x.st = "answered" /\ x.val = store[profileKey].val
      BY <1>2, <2>2, <3>1, Answers
    <3>3. x \in {Idle} \cup ProfileReqs
      BY <3>2 DEF ProfileReqs, Reqs
    <3>4. ProfileRequest(x, account)
      BY <1>2, <3>2, NotFoundIs DEF ProfileRequest
    <3> QED BY <1>2, <2>1, <3>2, <3>3, <3>4, ProfileMove
  <2>4. CASE store[profileKey].val = 0
    <3>1. Goto(q, "missed")
      BY <1>6, <2>4 DEF profileGet, Get
    <3>2. PICK x : x = [req[q] EXCEPT !.st = "missed"]
      OBVIOUS
    <3>3. req' = [req EXCEPT ![q] = x] /\ x \in ProfileReqs /\ x.st = "missed" /\ x.sure = req[q].sure
      BY <2>2, <3>1, <3>2 DEF Goto, ProfileReqs, Reqs
    <3>4. ProfileRequest(x, account)
      BY <1>3, <2>1, <3>3 DEF ProfileRequest
    <3> QED BY <1>2, <2>1, <3>3, <3>4, ProfileMove
  <2> QED BY <2>3, <2>4
<1>7. ASSUME NEW q \in Requests, profileLoad(q) PROVE Profile'
  <2>1. UNCHANGED <<store, games, account>> /\ req[q].op = "findPublicProfile" /\ req[q].st = "missed"
    BY <1>7 DEF profileLoad, At
  <2>2. req[q] \in Reqs({"findPublicProfile"}, {"keyed", "missed", "found", "loaded", "answered"})
    BY <1>4, <2>1 DEF ProfileReqs
  <2>3. CASE account = 1
    <3>1. Goto(q, "found")
      BY <1>7, <2>3 DEF profileLoad
    <3>2. PICK x : x = [req[q] EXCEPT !.st = "found"]
      OBVIOUS
    <3>3. req' = [req EXCEPT ![q] = x] /\ x \in ProfileReqs /\ x.st = "found"
      BY <2>2, <3>1, <3>2 DEF Goto, ProfileReqs, Reqs
    <3>4. ProfileRequest(x, account)
      BY <2>3, <3>3 DEF ProfileRequest
    <3> QED BY <1>2, <2>1, <3>3, <3>4, ProfileMove
  <2>4. CASE account # 1
    <3>1. Answer(q, NotFound) /\ ~req[q].sure
      BY <1>3, <1>7, <2>1, <2>4 DEF profileLoad, ProfileRequest
    <3>2. PICK x \in Reqs({"findPublicProfile"}, {"answered"}) :
            req' = [req EXCEPT ![q] = x] /\ x.st = "answered" /\ x.sure = req[q].sure
      BY <2>2, <3>1, Answers, NotFoundIs
    <3>3. x \in {Idle} \cup ProfileReqs
      BY <3>2 DEF ProfileReqs, Reqs
    <3>4. ProfileRequest(x, account)
      BY <3>1, <3>2 DEF ProfileRequest
    <3> QED BY <1>2, <2>1, <3>2, <3>3, <3>4, ProfileMove
  <2> QED BY <2>3, <2>4
<1>8. ASSUME NEW q \in Requests, getHeadToHeadRecord(q) PROVE Profile'
  <2>1. /\ UNCHANGED <<store, games, account>> /\ req[q].op = "findPublicProfile" /\ req[q].st = "found"
        /\ req' = [req EXCEPT ![q].st = "loaded", ![q].val = games + 1]
    BY <1>8 DEF getHeadToHeadRecord, At
  <2>2. req[q] \in Reqs({"findPublicProfile"}, {"keyed", "missed", "found", "loaded", "answered"})
    BY <1>4, <2>1 DEF ProfileReqs
  <2>3. PICK x : x = [req[q] EXCEPT !.st = "loaded", !.val = games + 1]
    OBVIOUS
  <2>4. req' = [req EXCEPT ![q] = x] /\ x \in ProfileReqs /\ x.st = "loaded" /\ x.val = games + 1 /\ x.sure = req[q].sure
    BY <1>2, <2>1, <2>2, <2>3 DEF ProfileReqs, Reqs
  <2>5. ProfileRequest(x, account)
    BY <1>2, <1>3, <2>1, <2>4 DEF ProfileRequest
  <2> QED BY <1>2, <2>1, <2>4, <2>5, ProfileMove
<1>9. ASSUME NEW q \in Requests, profileSet(q) PROVE Profile'
  <2>1. /\ UNCHANGED <<games, account>> /\ req[q].op = "findPublicProfile" /\ req[q].st = "loaded"
        /\ Put(profileKey, req[q].val, BriefTtl) /\ Answer(q, req[q].val)
    BY <1>9 DEF profileSet, At
  <2>2. req[q] \in Reqs({"findPublicProfile"}, {"keyed", "missed", "found", "loaded", "answered"})
    BY <1>4, <2>1 DEF ProfileReqs
  <2>3. req[q].val \in Nat /\ req[q].val < NotFound
    BY <1>3, <2>1, <2>2 DEF Reqs, ProfileRequest
  <2>4. store' \in [Keys -> Entry] /\ store'[profileKey].val = req[q].val
    BY <1>2, <2>1, <2>3, PutStore, KeysAre, CachesAssumption
  <2>5. PICK x \in Reqs({"findPublicProfile"}, {"answered"}) :
          req' = [req EXCEPT ![q] = x] /\ x.st = "answered" /\ x.val = req[q].val
    BY <2>1, <2>2, <2>3, Answers
  <2>6. x \in {Idle} \cup ProfileReqs
    BY <2>5 DEF ProfileReqs, Reqs
  <2>7. ProfileRequest(x, account)
    BY <2>3, <2>5, NotFoundIs DEF ProfileRequest
  <2> QED BY <2>1, <2>3, <2>4, <2>5, <2>6, <2>7, ProfileMove
<1>10. ASSUME NEW q \in Requests, End(q) PROVE Profile'
  <2>1. UNCHANGED <<store, games, account>> /\ req' = [req EXCEPT ![q] = Idle]
    BY <1>10 DEF End
  <2> QED BY <1>1, <1>2, <2>1, ProfileMove
<1>11. CASE removeAccount
  <2>1. /\ UNCHANGED <<store, games>>
        /\ req' = [q \in Requests |-> IF req[q].op = "findPublicProfile" THEN [req[q] EXCEPT !.sure = FALSE] ELSE req[q]]
    BY <1>11 DEF removeAccount
  <2>2. ASSUME NEW q \in Requests PROVE req'[q] \in {Idle} \cup ProfileReqs /\ ProfileRequest(req'[q], account')
    <3>1. CASE req[q].op = "findPublicProfile"
      <4>1. PICK x : x = [req[q] EXCEPT !.sure = FALSE]
        OBVIOUS
      <4>2. /\ req'[q] = x /\ x \in ProfileReqs /\ x.sure = FALSE /\ x.st = req[q].st /\ x.val = req[q].val
        BY <1>4, <2>1, <3>1, <4>1 DEF ProfileReqs, Reqs
      <4>3. ProfileRequest(x, account')
        BY <1>3, <4>2 DEF ProfileRequest
      <4> QED BY <4>2, <4>3
    <3>2. CASE req[q].op # "findPublicProfile"
      <4>1. req[q] = Idle /\ req'[q] = Idle
        BY <1>3, <2>1, <3>2 DEF ProfileReqs, Reqs
      <4>2. ProfileRequest(Idle, account')
        BY IdleIs DEF ProfileRequest
      <4> QED BY <4>1, <4>2
    <3> QED BY <3>1, <3>2
  <2>3. req' \in [Requests -> {Idle} \cup ProfileReqs]
    <3>1. req' = [q \in Requests |-> req'[q]]
      BY <2>1
    <3> QED BY <2>2, <3>1
  <2> QED BY <2>1, <2>2, <2>3 DEF Profile, Get, ProfileRequest
<1>12. CASE sessionEnds
  <2>1. UNCHANGED <<store, req, account>> /\ games' \in 0..MaxGames
    BY <1>12, CachesAssumption DEF sessionEnds, Profile
  <2> QED BY <2>1 DEF Profile, Get, ProfileRequest
<1>13. CASE Tick
  <2>1. UNCHANGED <<req, games, account>>
    BY <1>13 DEF Tick
  <2>2. store' \in [Keys -> Entry] /\ store'[profileKey].val \in {0, store[profileKey].val}
    BY <1>2, <1>13, TickStore, KeysAre
  <2>3. store'[profileKey].val < NotFound
    BY <1>2, <2>2, NotFoundIs
  <2> QED BY <2>1, <2>2, <2>3 DEF Profile, Get, ProfileRequest
<1>14. CASE UNCHANGED vars
  BY <1>14 DEF vars, Profile, Get, ProfileRequest
<1> QED BY <1>5, <1>6, <1>7, <1>8, <1>9, <1>10, <1>11, <1>12, <1>13, <1>14, ProfileSteps

-----------------------------------------------------------------------------
(* Lyrics *)

LEMMA LyricSteps ==
    ASSUME about = "lyric", Lyric, Next
    PROVE  \/ \E q \in Requests, p \in Processes :
                \/ findOne(q, p) \/ remove(q, p) \/ restore(q, p) \/ deactivateBySource(q, p)
                \/ createLyric(q, p) \/ importLyrics(q, p)
           \/ \E q \in Requests :
                \/ lyricGet(q) \/ lyricLoad(q) \/ lyricSet(q) \/ lyricSave(q) \/ bulkUpsert(q)
                \/ clearCacheRead(q) \/ clearCacheSet(q) \/ End(q) \/ Abort(q)
           \/ Tick
<1>1. \A q \in Requests : req[q].op \in {"idle", "findOne", "remove", "restore", "import", "clear"}
  BY IdleIs DEF Lyric, LyricReqs, Reqs
<1>2. ASSUME NEW q \in Requests, Continue(q)
      PROVE  \/ lyricGet(q) \/ lyricLoad(q) \/ lyricSet(q) \/ lyricSave(q) \/ bulkUpsert(q)
             \/ clearCacheRead(q) \/ clearCacheSet(q) \/ End(q)
  BY <1>1, <1>2 DEF Continue, statsGet, statsQuery, statsSet, createDel, profileGet, profileLoad,
     getHeadToHeadRecord, profileSet, consumeChallengeGet, consumeChallengeSet, At
<1> QED BY <1>2 DEF Next, Begin

(* A set that differs from another at q at most. *)
LEMMA OneMore ==
    ASSUME NEW A, NEW B, NEW q, IsFiniteSet(A), B \ {q} = A \ {q}
    PROVE  /\ Cardinality(A) \in Nat /\ IsFiniteSet(B) /\ Cardinality(B) \in Nat
           /\ (q \in A <=> q \in B) => Cardinality(B) = Cardinality(A)
           /\ q \notin A /\ q \in B => Cardinality(B) = Cardinality(A) + 1
           /\ q \in A /\ q \notin B => Cardinality(A) = Cardinality(B) + 1
<1>1. Cardinality(A) \in Nat
  BY FS_CardinalityType
<1>2. CASE q \in A <=> q \in B
  <2>1. A = B
    BY <1>2
  <2> QED BY <1>1, <1>2, <2>1
<1>3. CASE q \notin A /\ q \in B
  <2>1. B = A \cup {q}
    BY <1>3
  <2> QED BY <1>1, <1>3, <2>1, FS_AddElement
<1>4. CASE q \in A /\ q \notin B
  <2>1. B = A \ {q} /\ A = B \cup {q}
    BY <1>4
  <2>2. IsFiniteSet(B)
    BY <2>1, FS_RemoveElement
  <2>3. Cardinality(B) \in Nat /\ Cardinality(A) = Cardinality(B) + 1
    BY <1>4, <2>1, <2>2, FS_AddElement, FS_CardinalityType
  <2> QED BY <1>1, <1>4, <2>2, <2>3
<1> QED BY <1>2, <1>3, <1>4

WriteCount(r) == IF Writes(r) THEN 1 ELSE 0
ClearCount(r) == IF Clears(r) THEN 1 ELSE 0
Same(r, s) == s.op = r.op /\ s.st = r.st /\ s.n = r.n

LEMMA Finite == IsFiniteSet(Writing) /\ IsFiniteSet(Unanswered)
<1>1. Writing \subseteq Requests /\ Unanswered \subseteq Requests
  BY DEF Writing, Unanswered
<1> QED BY <1>1, FS_Subset, CachesAssumption

LEMMA Counts ==
    ASSUME NEW q \in Requests, NEW x, req'[q] = x,
           \A p \in Requests : p # q => Same(req[p], req'[p])
    PROVE  /\ Cardinality(Writing) \in Nat /\ Cardinality(Unanswered) \in Nat
           /\ Cardinality(Writing') = Cardinality(Writing) + WriteCount(x) - WriteCount(req[q])
           /\ Cardinality(Unanswered') = Cardinality(Unanswered) + ClearCount(x) - ClearCount(req[q])
<1>1. \A p \in Requests : p # q => (Writes(req[p]) <=> Writes(req'[p])) /\ (Clears(req[p]) <=> Clears(req'[p]))
  BY DEF Same, Writes, Clears
<1>2. PICK w : w = Writing'
  OBVIOUS
<1>3. PICK u : u = Unanswered'
  OBVIOUS
<1>4. w = {p \in Requests : Writes(req'[p])} /\ u = {p \in Requests : Clears(req'[p])}
  BY <1>2, <1>3 DEF Writing, Unanswered, Writes, Clears
<1>5. w \ {q} = Writing \ {q} /\ u \ {q} = Unanswered \ {q}
  BY <1>1, <1>4 DEF Writing, Unanswered
<1>6. /\ q \in Writing <=> Writes(req[q])
      /\ q \in Unanswered <=> Clears(req[q])
      /\ q \in w <=> Writes(x)
      /\ q \in u <=> Clears(x)
  BY <1>4 DEF Writing, Unanswered
<1>7. /\ Cardinality(Writing) \in Nat /\ Cardinality(w) \in Nat
      /\ Cardinality(w) = Cardinality(Writing) + WriteCount(x) - WriteCount(req[q])
  BY <1>5, <1>6, Finite, OneMore DEF WriteCount
<1>8. /\ Cardinality(Unanswered) \in Nat /\ Cardinality(u) \in Nat
      /\ Cardinality(u) = Cardinality(Unanswered) + ClearCount(x) - ClearCount(req[q])
  BY <1>5, <1>6, Finite, OneMore DEF ClearCount
<1> QED BY <1>2, <1>3, <1>7, <1>8

(* Request q moves to x and the others at most lose their sureness; what   *)
(* is left of the bound on changes, and above the versions, is not eaten.  *)
LEMMA LyricMove ==
    ASSUME Lyric, NEW q \in Requests, NEW x \in {Idle} \cup LyricReqs, req'[q] = x,
           req' \in [Requests -> {Idle} \cup LyricReqs],
           \A p \in Requests : p # q => Same(req[p], req'[p]) /\ LyricRequest(req'[p], lyric'),
           LyricRequest(x, lyric'),
           store' \in [Keys -> Entry], lyric' \in [active : BOOLEAN, rev : Nat], games' \in Nat,
           gen' \in [Processes -> Nat], settled' \in Nat,
           \A v \in Versions : store'[lyricKey(v)].val < NotFound,
           lyric'.rev + games' + Cardinality(Writing) + WriteCount(x) <= MaxWrites + 1 + WriteCount(req[q]),
           lyric.rev + games + ClearCount(x) <= lyric'.rev + games' + ClearCount(req[q]),
           store'[nsKey].val + Cardinality(Unanswered) + ClearCount(x) + 1 <= lyric'.rev + games' + ClearCount(req[q]),
           x.st = "bumped" => x.n + Cardinality(Unanswered) + ClearCount(x) + 1 <= lyric'.rev + games' + ClearCount(req[q])
    PROVE  Lyric'
<1> DEFINE W == Cardinality(Writing)  U == Cardinality(Unanswered)
           W2 == Cardinality(Writing') U2 == Cardinality(Unanswered')
<1>1. /\ W \in Nat /\ U \in Nat /\ W2 = W + WriteCount(x) - WriteCount(req[q])
      /\ U2 = U + ClearCount(x) - ClearCount(req[q])
  BY Counts
<1>2. /\ WriteCount(x) \in Nat /\ WriteCount(req[q]) \in Nat /\ ClearCount(x) \in Nat /\ ClearCount(req[q]) \in Nat
  BY DEF WriteCount, ClearCount
<1>3. /\ lyric.rev \in Nat /\ lyric'.rev \in Nat /\ games \in Nat /\ store'[nsKey].val \in Nat
  BY KeysAre DEF Lyric, Entry
<1>4. \A p \in Requests : req[p].n \in Nat /\ req'[p].n \in Nat
  BY IdleIs DEF Lyric, LyricReqs, Reqs
<1> HIDE DEF W, U, W2, U2
<1>5. lyric'.rev + games' + W2 <= MaxWrites + 1
  BY <1>1, <1>2, <1>3, CachesAssumption DEF W
<1>6. store'[nsKey].val + U2 + 1 <= lyric'.rev + games'
  BY <1>1, <1>2, <1>3 DEF U
<1>7. ASSUME NEW p \in Requests, req'[p].st = "bumped" PROVE req'[p].n + U2 + 1 <= lyric'.rev + games'
  <2>1. CASE p = q
    BY <1>1, <1>2, <1>3, <1>4, <1>7, <2>1 DEF U
  <2>2. CASE p # q
    <3>1. req'[p].n = req[p].n /\ req[p].st = "bumped"
      BY <1>7, <2>2 DEF Same
    <3>2. req[p].n + U + 1 <= lyric.rev + games
      BY <3>1 DEF Lyric, Below, U
    <3> QED BY <1>1, <1>2, <1>3, <1>4, <3>1, <3>2
  <2> QED BY <2>1, <2>2
<1>8. \A p \in Requests : LyricRequest(req'[p], lyric')
  OBVIOUS
<1>9. /\ (lyric.rev + games + Cardinality(Writing) <= MaxWrites + 1)'
      /\ Below(Get(nsKey))'
      /\ (\A p \in Requests : req[p].st = "bumped" => Below(req[p].n))'
  BY <1>5, <1>6, <1>7 DEF Below, Get, W2, U2
<1>10. (\A p \in Requests : LyricRequest(req[p], lyric))'
  BY <1>8 DEF LyricRequest
<1>11. (\A v \in Versions : Get(lyricKey(v)) < NotFound)'
  BY DEF Get
<1> QED BY <1>9, <1>10, <1>11 DEF Lyric

LEMMA LyricOne ==
    ASSUME Lyric, NEW q \in Requests, NEW x \in {Idle} \cup LyricReqs, req' = [req EXCEPT ![q] = x],
           LyricRequest(x, lyric), lyric'.active = lyric.active,
           store' \in [Keys -> Entry], lyric' \in [active : BOOLEAN, rev : Nat], games' \in Nat,
           gen' \in [Processes -> Nat], settled' \in Nat,
           \A v \in Versions : store'[lyricKey(v)].val < NotFound,
           lyric'.rev + games' + Cardinality(Writing) + WriteCount(x) <= MaxWrites + 1 + WriteCount(req[q]),
           lyric.rev + games + ClearCount(x) <= lyric'.rev + games' + ClearCount(req[q]),
           store'[nsKey].val + Cardinality(Unanswered) + ClearCount(x) + 1 <= lyric'.rev + games' + ClearCount(req[q]),
           x.st = "bumped" => x.n + Cardinality(Unanswered) + ClearCount(x) + 1 <= lyric'.rev + games' + ClearCount(req[q])
    PROVE  Lyric'
<1>1. /\ req' \in [Requests -> {Idle} \cup LyricReqs] /\ req'[q] = x
      /\ \A p \in Requests : p # q => req'[p] = req[p]
  BY Moved DEF Lyric
<1>2. \A p \in Requests : LyricRequest(req[p], lyric)
  BY DEF Lyric
<1>3. \A r : LyricRequest(r, lyric) => LyricRequest(r, lyric')
  BY DEF LyricRequest
<1>4. \A p \in Requests : p # q => Same(req[p], req'[p]) /\ LyricRequest(req'[p], lyric')
  BY <1>1, <1>2, <1>3 DEF Same
<1>5. LyricRequest(x, lyric')
  BY <1>3
<1> QED BY <1>1, <1>4, <1>5, LyricMove

(* A step of a reader: no change of the rows, no version taken. *)
LEMMA LyricReader ==
    ASSUME Lyric, NEW q \in Requests, NEW x \in {Idle} \cup LyricReqs, req' = [req EXCEPT ![q] = x],
           LyricRequest(x, lyric), UNCHANGED <<lyric, games, gen, settled>>,
           req[q].op \in {"idle", "findOne"}, x.op \in {"idle", "findOne"}, x.st # "bumped",
           store' \in [Keys -> Entry], store'[nsKey].val = store[nsKey].val,
           \A v \in Versions : store'[lyricKey(v)].val < NotFound
    PROVE  Lyric'
<1>1. WriteCount(x) = 0 /\ WriteCount(req[q]) = 0 /\ ClearCount(x) = 0 /\ ClearCount(req[q]) = 0
  BY DEF WriteCount, ClearCount, Writes, Clears
<1>2. /\ lyric \in [active : BOOLEAN, rev : Nat] /\ games \in Nat /\ gen \in [Processes -> Nat] /\ settled \in Nat
      /\ lyric.rev + games + Cardinality(Writing) <= MaxWrites + 1
      /\ store[nsKey].val + Cardinality(Unanswered) + 1 <= lyric.rev + games
  BY DEF Lyric, Below, Get
<1>3. /\ lyric.rev \in Nat /\ Cardinality(Writing) \in Nat /\ Cardinality(Unanswered) \in Nat
      /\ store[nsKey].val \in Nat
  BY <1>2, Finite, FS_CardinalityType, KeysAre DEF Lyric, Entry
<1>4. /\ lyric' \in [active : BOOLEAN, rev : Nat] /\ games' \in Nat /\ gen' \in [Processes -> Nat]
      /\ settled' \in Nat
      /\ lyric'.active = lyric.active /\ lyric'.rev = lyric.rev
  BY <1>2
<1>5. lyric'.rev + games' + Cardinality(Writing) + WriteCount(x) <= MaxWrites + 1 + WriteCount(req[q])
  BY <1>1, <1>2, <1>3, <1>4, CachesAssumption
<1>6. lyric.rev + games + ClearCount(x) <= lyric'.rev + games' + ClearCount(req[q])
  BY <1>1, <1>2, <1>3, <1>4
<1>7. store'[nsKey].val + Cardinality(Unanswered) + ClearCount(x) + 1 <= lyric'.rev + games' + ClearCount(req[q])
  BY <1>1, <1>2, <1>3, <1>4
<1> QED BY <1>4, <1>5, <1>6, <1>7, LyricOne

LEMMA LyricFacts ==
    ASSUME Lyric
    PROVE  /\ lyric \in [active : BOOLEAN, rev : Nat] /\ lyric.rev \in Nat /\ lyric.active \in BOOLEAN
           /\ games \in Nat /\ gen \in [Processes -> Nat] /\ settled \in Nat
           /\ store \in [Keys -> Entry] /\ store[nsKey].val \in Nat
           /\ Cardinality(Writing) \in Nat /\ Cardinality(Unanswered) \in Nat
           /\ lyric.rev + games + Cardinality(Writing) <= MaxWrites + 1
           /\ store[nsKey].val + Cardinality(Unanswered) + 1 <= lyric.rev + games
           /\ store[nsKey].val \in Versions /\ lyric.rev < NotFound
           /\ \A v \in Versions : store[lyricKey(v)].val \in Nat /\ store[lyricKey(v)].val < NotFound
           /\ \A q \in Requests : req[q] \in {Idle} \cup LyricReqs /\ LyricRequest(req[q], lyric)
           /\ \A q \in Requests : req[q].op = "findOne" =>
                req[q] \in Reqs({"findOne"}, {"keyed", "missed", "loaded", "answered"})
<1>1. /\ lyric \in [active : BOOLEAN, rev : Nat] /\ games \in Nat /\ gen \in [Processes -> Nat] /\ settled \in Nat
      /\ store \in [Keys -> Entry]
      /\ lyric.rev + games + Cardinality(Writing) <= MaxWrites + 1
      /\ store[nsKey].val + Cardinality(Unanswered) + 1 <= lyric.rev + games
      /\ \A v \in Versions : store[lyricKey(v)].val < NotFound
      /\ \A q \in Requests : req[q] \in {Idle} \cup LyricReqs /\ LyricRequest(req[q], lyric)
  BY DEF Lyric, Below, Get
<1>2. /\ lyric.rev \in Nat /\ lyric.active \in BOOLEAN /\ store[nsKey].val \in Nat
      /\ \A v \in Versions : store[lyricKey(v)].val \in Nat
  BY <1>1, KeysAre DEF Entry
<1>3. Cardinality(Writing) \in Nat /\ Cardinality(Unanswered) \in Nat
  BY Finite, FS_CardinalityType
<1>4. store[nsKey].val \in Versions /\ lyric.rev < NotFound
  BY <1>1, <1>2, <1>3, CachesAssumption, NotFoundIs DEF Versions
<1>5. \A q \in Requests : req[q].op = "findOne" =>
        req[q] \in Reqs({"findOne"}, {"keyed", "missed", "loaded", "answered"})
  BY <1>1, IdleIs DEF LyricReqs, Reqs
<1> QED BY <1>1, <1>2, <1>3, <1>4, <1>5

(* The steps of findOne. *)
LEMMA LyricReads ==
    ASSUME Lyric, NEW q \in Requests,
           (\E p \in Processes : findOne(q, p)) \/ lyricGet(q) \/ lyricLoad(q) \/ lyricSet(q)
    PROVE  Lyric'
<1>1. /\ store \in [Keys -> Entry] /\ store[nsKey].val \in Versions /\ lyric.rev \in Nat /\ lyric.rev < NotFound
      /\ lyric.active \in BOOLEAN /\ gen \in [Processes -> Nat]
      /\ \A v \in Versions : store[lyricKey(v)].val \in Nat /\ store[lyricKey(v)].val < NotFound
  BY LyricFacts
<1>2. /\ LyricRequest(req[q], lyric)
      /\ req[q].op = "findOne" => req[q] \in Reqs({"findOne"}, {"keyed", "missed", "loaded", "answered"})
  BY LyricFacts
<1>3. ASSUME NEW x \in Reqs({"findOne"}, {"answered"}), req' = [req EXCEPT ![q] = x], req[q].op = "findOne",
             UNCHANGED <<lyric, games, gen, settled>>, x.sure => x.val # NotFound,
             store' \in [Keys -> Entry], store'[nsKey].val = store[nsKey].val,
             \A v \in Versions : store'[lyricKey(v)].val < NotFound
      PROVE  Lyric'
  <2>1. x \in {Idle} \cup LyricReqs /\ x.op = "findOne" /\ x.st = "answered"
    BY <1>3 DEF LyricReqs, Reqs
  <2>2. LyricRequest(x, lyric)
    BY <1>3, <2>1 DEF LyricRequest
  <2> QED BY <1>3, <2>1, <2>2, LyricReader
<1>4. ASSUME NEW p \in Processes, findOne(q, p) PROVE Lyric'
  <2>1. PICK x : x = Fresh("findOne", "keyed", p, store[nsKey].val, settled, lyric.active)
    OBVIOUS
  <2>2. UNCHANGED <<store, lyric, games, gen, settled>> /\ req' = [req EXCEPT ![q] = x] /\ req[q] = Idle
    BY <1>4, <2>1 DEF findOne, Start, Fresh, Get
  <2>3. x.op = "findOne" /\ x.st = "keyed" /\ x.sure = lyric.active /\ x.proc = p /\ x.n = store[nsKey].val
    BY <2>1 DEF Fresh
  <2>4. x \in {Idle} \cup LyricReqs
    BY <1>1, <2>1, LyricFacts DEF LyricReqs, Reqs, Fresh
  <2>5. LyricRequest(x, lyric)
    BY <1>1, <2>3 DEF LyricRequest
  <2> QED BY <1>1, <2>2, <2>3, <2>4, <2>5, LyricReader, IdleIs
<1>5. CASE lyricGet(q)
  <2>1. UNCHANGED <<store, lyric, games, gen, settled>> /\ req[q].op = "findOne" /\ req[q].st = "keyed"
    BY <1>5 DEF lyricGet, At
  <2>2. /\ req[q].n \in Versions /\ req[q].proc \in Processes
        /\ req[q] \in Reqs({"findOne"}, {"keyed", "missed", "loaded", "answered"})
    BY <1>2, <2>1, IdleIs DEF LyricRequest
  <2>3. CASE store[lyricKey(req[q].n)].val # 0
    <3>1. Answer(q, store[lyricKey(req[q].n)].val)
      BY <1>5, <2>3 DEF lyricGet, Get
    <3>2. store[lyricKey(req[q].n)].val \in Nat /\ store[lyricKey(req[q].n)].val # NotFound
      BY <1>1, <2>2, NotFoundIs
    <3>3. PICK x \in Reqs({"findOne"}, {"answered"}) :
            req' = [req EXCEPT ![q] = x] /\ x.val = store[lyricKey(req[q].n)].val
      BY <2>2, <3>1, <3>2, Answers
    <3> QED BY <1>1, <1>3, <2>1, <3>2, <3>3
  <2>4. CASE store[lyricKey(req[q].n)].val = 0
    <3>1. PICK x : x = [req[q] EXCEPT !.st = "missed", !.gen = gen[req[q].proc]]
      OBVIOUS
    <3>2. req' = [req EXCEPT ![q] = x]
      BY <1>5, <2>4, <3>1 DEF lyricGet, Get
    <3>3. /\ x \in Reqs({"findOne"}, {"missed"}) /\ x.op = "findOne" /\ x.st = "missed"
          /\ x.n = req[q].n /\ x.proc = req[q].proc /\ x.sure = req[q].sure
      BY <1>1, <2>1, <2>2, <3>1 DEF Reqs
    <3>4. x \in {Idle} \cup LyricReqs
      BY <3>3 DEF LyricReqs, Reqs
    <3>5. LyricRequest(x, lyric)
      BY <1>2, <2>1, <2>2, <3>3 DEF LyricRequest
    <3> QED BY <1>1, <2>1, <3>2, <3>3, <3>4, <3>5, LyricReader
  <2> QED BY <2>3, <2>4
<1>6. CASE lyricLoad(q)
  <2>1. UNCHANGED <<store, lyric, games, gen, settled>> /\ req[q].op = "findOne" /\ req[q].st = "missed"
    BY <1>6 DEF lyricLoad, At
  <2>2. /\ req[q].n \in Versions /\ req[q].proc \in Processes
        /\ req[q] \in Reqs({"findOne"}, {"keyed", "missed", "loaded", "answered"})
    BY <1>2, <2>1, IdleIs DEF LyricRequest
  <2>3. CASE lyric.active
    <3>1. PICK x : x = [req[q] EXCEPT !.st = "loaded", !.val = lyric.rev]
      OBVIOUS
    <3>2. req' = [req EXCEPT ![q] = x]
      BY <1>6, <2>3, <3>1 DEF lyricLoad
    <3>3. /\ x \in Reqs({"findOne"}, {"loaded"}) /\ x.op = "findOne" /\ x.st = "loaded"
          /\ x.n = req[q].n /\ x.proc = req[q].proc /\ x.val = lyric.rev
      BY <1>1, <2>1, <2>2, <3>1 DEF Reqs
    <3>4. x \in {Idle} \cup LyricReqs
      BY <3>3 DEF LyricReqs, Reqs
    <3>5. LyricRequest(x, lyric)
      BY <1>1, <2>2, <2>3, <3>3 DEF LyricRequest
    <3> QED BY <1>1, <2>1, <3>2, <3>3, <3>4, <3>5, LyricReader
  <2>4. CASE ~lyric.active
    <3>1. Answer(q, NotFound) /\ ~req[q].sure
      BY <1>2, <1>6, <2>1, <2>4 DEF lyricLoad, LyricRequest
    <3>2. PICK x \in Reqs({"findOne"}, {"answered"}) :
            req' = [req EXCEPT ![q] = x] /\ x.sure = req[q].sure
      BY <2>2, <3>1, Answers, NotFoundIs
    <3> QED BY <1>1, <1>3, <2>1, <3>1, <3>2
  <2> QED BY <2>3, <2>4
<1>7. CASE lyricSet(q)
  <2>1. UNCHANGED <<lyric, games, gen, settled>> /\ req[q].op = "findOne" /\ req[q].st = "loaded" /\ Answer(q, req[q].val)
    BY <1>7 DEF lyricSet, At
  <2>2. /\ req[q].n \in Versions /\ req[q].val < NotFound
        /\ req[q] \in Reqs({"findOne"}, {"keyed", "missed", "loaded", "answered"})
    BY <1>2, <2>1 DEF LyricRequest
  <2>3. req[q].val \in Nat /\ req[q].val # NotFound
    BY <2>2, NotFoundIs DEF Reqs
  <2>4. PICK x \in Reqs({"findOne"}, {"answered"}) : req' = [req EXCEPT ![q] = x] /\ x.val = req[q].val
    BY <2>1, <2>2, <2>3, Answers
  <2>5. CASE gen[req[q].proc] = req[q].gen
    <3>1. Put(lyricKey(req[q].n), req[q].val, LyricsTtl) /\ lyricKey(req[q].n) \in Keys /\ lyricKey(req[q].n) # nsKey
      BY <1>7, <2>2, <2>5, KeysAre DEF lyricSet
    <3>2. /\ store' \in [Keys -> Entry] /\ store'[lyricKey(req[q].n)].val = req[q].val
          /\ \A k \in Keys : k # lyricKey(req[q].n) => store'[k] = store[k]
      BY <1>1, <2>3, <3>1, PutStore, CachesAssumption
    <3>3. ASSUME NEW v \in Versions PROVE store'[lyricKey(v)].val < NotFound
      <4>1. lyricKey(v) \in Keys
        BY KeysAre
      <4> QED BY <1>1, <2>2, <3>2, <4>1
    <3> QED BY <1>3, <2>1, <2>3, <2>4, <3>1, <3>2, <3>3, KeysAre
  <2>6. CASE gen[req[q].proc] # req[q].gen
    <3>1. UNCHANGED store
      BY <1>7, <2>6 DEF lyricSet
    <3> QED BY <1>1, <1>3, <2>1, <2>3, <2>4, <3>1
  <2> QED BY <2>5, <2>6
<1> QED BY <1>4, <1>5, <1>6, <1>7

(* The steps of requests that change the row or add another. *)
LEMMA LyricBegins ==
    ASSUME Lyric, NEW q \in Requests, NEW p \in Processes,
           remove(q, p) \/ restore(q, p) \/ createLyric(q, p) \/ importLyrics(q, p)
    PROVE  Lyric'
<1>1. PICK W \in Nat, U \in Nat : W = Cardinality(Writing) /\ U = Cardinality(Unanswered)
  BY LyricFacts
<1>2. /\ lyric.rev \in Nat /\ games \in Nat /\ store[nsKey].val \in Nat /\ MaxWrites \in Nat
      /\ store[nsKey].val + U + 1 <= lyric.rev + games
  BY <1>1, LyricFacts, CachesAssumption
<1>3. MayChange => lyric.rev + games + W <= MaxWrites
  BY <1>1 DEF MayChange, Writing, Writes, At
<1>4. ASSUME NEW x \in LyricReqs, req[q] = Idle, req' = [req EXCEPT ![q] = x], x.st # "bumped", MayChange,
             LyricRequest(x, lyric), UNCHANGED <<lyric, store, gen, settled>>,
             \/ Writes(x) /\ ~Clears(x) /\ games' = games
             \/ ~Writes(x) /\ Clears(x) /\ games' = games + 1
      PROVE  Lyric'
  <2>1. WriteCount(req[q]) = 0 /\ ClearCount(req[q]) = 0
    BY <1>4, IdleIs DEF WriteCount, ClearCount, Writes, Clears
  <2>2. /\ WriteCount(x) \in Nat /\ ClearCount(x) \in Nat /\ games' \in Nat
        /\ games' + WriteCount(x) = games + 1 /\ games + ClearCount(x) = games'
    BY <1>2, <1>4 DEF WriteCount, ClearCount
  <2>3. lyric'.rev + games' + Cardinality(Writing) + WriteCount(x) <= MaxWrites + 1 + WriteCount(req[q])
    BY <1>1, <1>2, <1>3, <1>4, <2>1, <2>2
  <2>4. lyric.rev + games + ClearCount(x) <= lyric'.rev + games' + ClearCount(req[q])
    BY <1>1, <1>2, <1>4, <2>1, <2>2
  <2>5. store'[nsKey].val + Cardinality(Unanswered) + ClearCount(x) + 1 <= lyric'.rev + games' + ClearCount(req[q])
    BY <1>1, <1>2, <1>4, <2>1, <2>2
  <2>6. /\ store' \in [Keys -> Entry] /\ lyric' \in [active : BOOLEAN, rev : Nat] /\ gen' \in [Processes -> Nat]
        /\ settled' \in Nat /\ lyric'.active = lyric.active
        /\ \A v \in Versions : store'[lyricKey(v)].val < NotFound
    BY <1>4, LyricFacts
  <2> QED BY <1>4, <2>2, <2>3, <2>4, <2>5, <2>6, LyricOne
<1>5. ASSUME NEW op \in {"remove", "restore"}, MayChange, Start(q, op, "found", p, 0, 0, FALSE),
             UNCHANGED <<lyric, games, store, gen, settled>>
      PROVE  Lyric'
  <2>1. PICK x : x = Fresh(op, "found", p, 0, 0, FALSE)
    OBVIOUS
  <2>2. req[q] = Idle /\ req' = [req EXCEPT ![q] = x]
    BY <1>5, <2>1 DEF Start, Fresh
  <2>3. x \in LyricReqs /\ x.op = op /\ x.st = "found" /\ x.proc = p /\ x.sure = FALSE
    BY <2>1 DEF LyricReqs, Reqs, Fresh
  <2>4. Writes(x) /\ ~Clears(x) /\ LyricRequest(x, lyric)
    BY <1>5, <2>3 DEF Writes, Clears, LyricRequest
  <2> QED BY <1>4, <1>5, <2>2, <2>3, <2>4
<1>6. CASE remove(q, p)
  <2>1. MayChange /\ Start(q, "remove", "found", p, 0, 0, FALSE) /\ UNCHANGED <<lyric, games, store, gen, settled>>
    BY <1>6 DEF remove
  <2> QED BY <1>5, <2>1
<1>7. CASE restore(q, p)
  <2>1. MayChange /\ Start(q, "restore", "found", p, 0, 0, FALSE) /\ UNCHANGED <<lyric, games, store, gen, settled>>
    BY <1>7 DEF restore
  <2> QED BY <1>5, <2>1
<1>8. CASE createLyric(q, p)
  <2>1. PICK x : x = Fresh("clear", "saved", p, 0, 0, FALSE)
    OBVIOUS
  <2>2. /\ MayChange /\ req[q] = Idle /\ req' = [req EXCEPT ![q] = x] /\ games' = games + 1
        /\ UNCHANGED <<lyric, store, gen, settled>>
    BY <1>8, <2>1 DEF createLyric, Start, Fresh
  <2>3. x \in LyricReqs /\ x.op = "clear" /\ x.st = "saved" /\ x.proc = p /\ x.sure = FALSE
    BY <2>1 DEF LyricReqs, Reqs, Fresh
  <2>4. ~Writes(x) /\ Clears(x) /\ LyricRequest(x, lyric)
    BY <2>3 DEF Writes, Clears, LyricRequest
  <2> QED BY <1>4, <2>2, <2>3, <2>4
<1>9. CASE importLyrics(q, p)
  <2>1. PICK file \in ImportFiles, dryRun \in BOOLEAN, mode \in {"create-only", "upsert"} :
          LET rows == toWrite(file, dryRun, mode) IN
          /\ MayChange
          /\ Start(q, "import", "found", p, IF "known" \in rows THEN 1 ELSE 0, 0, FALSE)
          /\ games' = IF "known" \in rows THEN games ELSE games + 1
          /\ UNCHANGED <<lyric, account, store, gen, settled, clean, about, challenge>>
    BY <1>9 DEF importLyrics
  <2>a. PICK n : n = IF "known" \in toWrite(file, dryRun, mode) THEN 1 ELSE 0
    OBVIOUS
  <2>3. PICK x : x = Fresh("import", "found", p, n, 0, FALSE)
    OBVIOUS
  <2>2. /\ n \in {0, 1} /\ games' = (IF n = 1 THEN games ELSE games + 1)
        /\ MayChange /\ UNCHANGED <<lyric, store, gen, settled>>
    BY <2>1, <2>a
  <2>4. req[q] = Idle /\ req' = [req EXCEPT ![q] = x]
    BY <2>1, <2>a, <2>3 DEF Start, Fresh
  <2>5. x \in LyricReqs /\ x.op = "import" /\ x.st = "found" /\ x.proc = p /\ x.sure = FALSE /\ x.n = n
    BY <2>2, <2>3 DEF LyricReqs, Reqs, Fresh
  <2>6. /\ LyricRequest(x, lyric)
        /\ (Writes(x) /\ ~Clears(x) /\ games' = games) \/ (~Writes(x) /\ Clears(x) /\ games' = games + 1)
    BY <2>2, <2>5 DEF Writes, Clears, LyricRequest
  <2> QED BY <1>4, <2>2, <2>4, <2>5, <2>6
<1> QED BY <1>6, <1>7, <1>8, <1>9

(* A change of the row takes the sureness of every other request. *)
LEMMA LyricChanges ==
    ASSUME Lyric, NEW q \in Requests,
           lyricSave(q) \/ \E p \in Processes : deactivateBySource(q, p)
    PROVE  Lyric'
<1>1. PICK W \in Nat, U \in Nat : W = Cardinality(Writing) /\ U = Cardinality(Unanswered)
  BY LyricFacts
<1>2. /\ lyric.rev \in Nat /\ games \in Nat /\ store[nsKey].val \in Nat /\ MaxWrites \in Nat
      /\ store[nsKey].val + U + 1 <= lyric.rev + games /\ lyric.rev + games + W <= MaxWrites + 1
  BY <1>1, LyricFacts, CachesAssumption
<1>3. PICK p \in Processes, a \in BOOLEAN :
        /\ lyric' = [active |-> a, rev |-> lyric.rev + 1]
        /\ req' = [r \in Requests |-> IF r = q THEN Clearing(p, lyric.rev + 1) ELSE [req[r] EXCEPT !.sure = FALSE]]
        /\ UNCHANGED <<games, store, gen, settled>>
        /\ ~Clears(req[q])
        /\ Writes(req[q]) \/ (~Writes(req[q]) /\ lyric.rev + games + W <= MaxWrites)
  <2>1. CASE lyricSave(q)
    <3>1. req[q].op \in {"remove", "restore"} /\ req[q].st = "found"
      BY <2>1 DEF lyricSave
    <3>2. req[q].proc \in Processes
      BY <3>1, LyricFacts, IdleIs DEF LyricRequest
    <3>3. Writes(req[q]) /\ ~Clears(req[q])
      BY <3>1 DEF Writes, Clears
    <3>4. PICK b \in BOOLEAN : b = (req[q].op = "restore")
      OBVIOUS
    <3>5. /\ lyric' = [active |-> b, rev |-> lyric.rev + 1]
          /\ req' = [r \in Requests |-> IF r = q THEN Clearing(req[q].proc, lyric.rev + 1)
                                        ELSE [req[r] EXCEPT !.sure = FALSE]]
          /\ UNCHANGED <<games, store, gen, settled>>
      BY <2>1, <3>4 DEF lyricSave
    <3> QED BY <3>2, <3>3, <3>5
  <2>2. CASE \E r \in Processes : deactivateBySource(q, r)
    <3>1. PICK p \in Processes : deactivateBySource(q, p)
      BY <2>2
    <3>2. /\ lyric' = [active |-> FALSE, rev |-> lyric.rev + 1]
          /\ req' = [r \in Requests |-> IF r = q THEN Clearing(p, lyric.rev + 1)
                                        ELSE [req[r] EXCEPT !.sure = FALSE]]
          /\ UNCHANGED <<games, store, gen, settled>> /\ req[q] = Idle /\ MayChange
      BY <3>1 DEF deactivateBySource
    <3>3. ~Writes(req[q]) /\ ~Clears(req[q])
      BY <3>2, IdleIs DEF Writes, Clears
    <3>4. lyric.rev + games + W <= MaxWrites
      BY <1>1, <3>2 DEF MayChange, Writing, Writes, At
    <3>5. FALSE \in BOOLEAN
      OBVIOUS
    <3> QED BY <3>2, <3>3, <3>4, <3>5
  <2> QED BY <2>1, <2>2
<1>4. PICK x : x = Clearing(p, lyric.rev + 1)
  OBVIOUS
<1>5. x \in LyricReqs /\ x.op = "clear" /\ x.st = "saved" /\ x.proc = p /\ x.sure = FALSE
  <2>1. lyric.rev + 1 \in Nat
    BY <1>2
  <2>a. PICK rev \in Nat : rev = lyric.rev + 1
    BY <2>1
  <2>b. x = Clearing(p, rev)
    BY <1>4, <2>a, Zenon
  <2>2. x \in Reqs({"clear"}, {"saved"}) /\ x.proc = p /\ ~x.sure
    BY <2>b, ClearingIs, Zenon
  <2> QED BY <2>2 DEF LyricReqs, Reqs
<1>6. ~Writes(x) /\ Clears(x) /\ LyricRequest(x, lyric')
  BY <1>5 DEF Writes, Clears, LyricRequest
<1>7. ASSUME NEW r \in Requests, r # q
      PROVE  /\ Same(req[r], req'[r]) /\ LyricRequest(req'[r], lyric') /\ req'[r] \in {Idle} \cup LyricReqs
  <2>1. PICK y : y = [req[r] EXCEPT !.sure = FALSE]
    OBVIOUS
  <2>2. req'[r] = y
    BY <1>3, <1>7, <2>1
  <2>3. req[r] \in {Idle} \cup LyricReqs /\ LyricRequest(req[r], lyric)
    BY LyricFacts
  <2>4. CASE req[r] = Idle
    <3>1. y = Idle
      BY <2>1, <2>4, Unsure
    <3>2. LyricRequest(Idle, lyric')
      BY IdleIs DEF LyricRequest
    <3> QED BY <2>2, <2>4, <3>1, <3>2 DEF Same
  <2>5. CASE req[r] # Idle
    <3>1. /\ y \in LyricReqs /\ y.op = req[r].op /\ y.st = req[r].st /\ y.n = req[r].n /\ y.val = req[r].val
          /\ y.proc = req[r].proc /\ y.sure = FALSE
      BY <2>1, <2>3, <2>5 DEF LyricReqs, Reqs
    <3>2. LyricRequest(y, lyric')
      BY <2>3, <2>5, <3>1 DEF LyricRequest
    <3> QED BY <2>2, <3>1, <3>2 DEF Same
  <2> QED BY <2>4, <2>5
<1>8. req'[q] = x /\ req' \in [Requests -> {Idle} \cup LyricReqs]
  <2>1. req'[q] = x /\ req' = [r \in Requests |-> req'[r]]
    BY <1>3, <1>4
  <2> QED BY <1>5, <1>7, <2>1
<1>9. /\ WriteCount(x) = 0 /\ ClearCount(x) = 1 /\ ClearCount(req[q]) = 0 /\ WriteCount(req[q]) \in Nat
      /\ lyric.rev + games + W <= MaxWrites + WriteCount(req[q])
  BY <1>2, <1>3, <1>6 DEF WriteCount, ClearCount
<1>10. lyric' \in [active : BOOLEAN, rev : Nat] /\ lyric'.rev = lyric.rev + 1
  BY <1>2, <1>3
<1>11. lyric'.rev + games' + Cardinality(Writing) + WriteCount(x) <= MaxWrites + 1 + WriteCount(req[q])
  BY <1>1, <1>2, <1>3, <1>9, <1>10
<1>12. lyric.rev + games + ClearCount(x) <= lyric'.rev + games' + ClearCount(req[q])
  BY <1>1, <1>2, <1>3, <1>9, <1>10
<1>13. store'[nsKey].val + Cardinality(Unanswered) + ClearCount(x) + 1 <= lyric'.rev + games' + ClearCount(req[q])
  BY <1>1, <1>2, <1>3, <1>9, <1>10
<1>14. /\ store' \in [Keys -> Entry] /\ games' \in Nat /\ gen' \in [Processes -> Nat] /\ settled' \in Nat
       /\ \A v \in Versions : store'[lyricKey(v)].val < NotFound
  BY <1>3, LyricFacts
<1>15. x.st # "bumped" /\ x \in {Idle} \cup LyricReqs
  BY <1>5
<1> QED BY <1>6, <1>7, <1>8, <1>10, <1>11, <1>12, <1>13, <1>14, <1>15, LyricMove

(* What a request does once it has found or written its rows. *)
LEMMA LyricClears ==
    ASSUME Lyric, NEW q \in Requests,
           bulkUpsert(q) \/ clearCacheRead(q) \/ clearCacheSet(q) \/ Abort(q)
    PROVE  Lyric'
<1>1. PICK W \in Nat, U \in Nat : W = Cardinality(Writing) /\ U = Cardinality(Unanswered)
  BY LyricFacts
<1>2. /\ lyric.rev \in Nat /\ games \in Nat /\ store[nsKey].val \in Nat /\ MaxWrites \in Nat
      /\ store[nsKey].val + U + 1 <= lyric.rev + games /\ lyric.rev + games + W <= MaxWrites + 1
  BY <1>1, LyricFacts, CachesAssumption
<1>3. /\ lyric \in [active : BOOLEAN, rev : Nat] /\ store \in [Keys -> Entry] /\ gen \in [Processes -> Nat]
      /\ settled \in Nat /\ \A v \in Versions : store[lyricKey(v)].val < NotFound
      /\ req[q] \in {Idle} \cup LyricReqs /\ LyricRequest(req[q], lyric)
  BY LyricFacts
<1>4. WriteCount(Idle) = 0 /\ ClearCount(Idle) = 0 /\ LyricRequest(Idle, lyric) /\ Idle.st # "bumped"
  BY IdleIs DEF WriteCount, ClearCount, Writes, Clears, LyricRequest
<1>5. req[q].st \in {"saved", "bumped"} =>
        req[q].op = "clear" /\ WriteCount(req[q]) = 0 /\ ClearCount(req[q]) = 1 /\ req[q].n \in Nat
        /\ req[q].val \in Nat /\ req[q].proc \in Processes
  <2>1. ASSUME req[q].st \in {"saved", "bumped"}
        PROVE  req[q].op = "clear" /\ req[q].n \in Nat /\ req[q].val \in Nat /\ req[q].proc \in Processes
    BY <1>3, <2>1, IdleIs DEF LyricReqs, Reqs, LyricRequest
  <2> QED BY <2>1 DEF WriteCount, ClearCount, Writes, Clears
<1>6. CASE bulkUpsert(q)
  <2>1. /\ req[q].op = "import" /\ req[q].st = "found" /\ UNCHANGED <<games, store, gen, settled>>
        /\ lyric' = [lyric EXCEPT !.rev = lyric.rev + req[q].n]
        /\ req' = [req EXCEPT ![q] = Clearing(req[q].proc, req[q].n * (lyric.rev + 1))]
    BY <1>6 DEF bulkUpsert, At
  <2>2. req[q].n \in {0, 1} /\ req[q].proc \in Processes
    BY <1>3, <2>1, IdleIs DEF LyricRequest
  <2>3. req[q].n * (lyric.rev + 1) \in Nat
    <3>1. CASE req[q].n = 0
      BY <1>2, <3>1
    <3>2. CASE req[q].n = 1
      BY <1>2, <3>2
    <3> QED BY <2>2, <3>1, <3>2
  <2>4. PICK rev \in Nat : rev = req[q].n * (lyric.rev + 1)
    BY <2>3
  <2>5. PICK x : x = Clearing(req[q].proc, rev)
    OBVIOUS
  <2>6. x \in Reqs({"clear"}, {"saved"}) /\ x.proc = req[q].proc /\ ~x.sure
    BY <2>2, <2>5, ClearingIs, Zenon
  <2>7. x \in {Idle} \cup LyricReqs /\ x.op = "clear" /\ x.st = "saved"
    BY <2>6 DEF LyricReqs, Reqs
  <2>8. req' = [req EXCEPT ![q] = x]
    BY <2>1, <2>4, <2>5, Zenon
  <2>9. LyricRequest(x, lyric)
    BY <2>2, <2>6, <2>7 DEF LyricRequest
  <2>10. WriteCount(x) = 0 /\ ClearCount(x) = 1
    BY <2>7 DEF WriteCount, ClearCount, Writes, Clears
  <2>11. WriteCount(req[q]) = req[q].n /\ ClearCount(req[q]) = 1 - req[q].n
    BY <2>1, <2>2 DEF WriteCount, ClearCount, Writes, Clears
  <2>12. /\ lyric' \in [active : BOOLEAN, rev : Nat] /\ lyric'.active = lyric.active
         /\ lyric'.rev = lyric.rev + req[q].n
    BY <1>2, <1>3, <2>1, <2>2
  <2>13. lyric'.rev + games' + Cardinality(Writing) + WriteCount(x) <= MaxWrites + 1 + WriteCount(req[q])
    BY <1>1, <1>2, <2>1, <2>2, <2>10, <2>11, <2>12
  <2>14. lyric.rev + games + ClearCount(x) <= lyric'.rev + games' + ClearCount(req[q])
    BY <1>1, <1>2, <2>1, <2>2, <2>10, <2>11, <2>12
  <2>15. store'[nsKey].val + Cardinality(Unanswered) + ClearCount(x) + 1 <= lyric'.rev + games' + ClearCount(req[q])
    BY <1>1, <1>2, <2>1, <2>2, <2>10, <2>11, <2>12
  <2>16. /\ store' \in [Keys -> Entry] /\ games' \in Nat /\ gen' \in [Processes -> Nat] /\ settled' \in Nat
         /\ \A v \in Versions : store'[lyricKey(v)].val < NotFound
    BY <1>2, <1>3, <2>1
  <2> QED BY <2>7, <2>8, <2>9, <2>12, <2>13, <2>14, <2>15, <2>16, LyricOne
<1>7. CASE clearCacheRead(q)
  <2>1. /\ req[q].op = "clear" /\ req[q].st = "saved" /\ UNCHANGED <<lyric, games, store, settled>>
        /\ gen' = [gen EXCEPT ![req[q].proc] = gen[req[q].proc] + 1]
        /\ req' = [req EXCEPT ![q].st = "bumped", ![q].n = store[nsKey].val]
    BY <1>7 DEF clearCacheRead, At, Get
  <2>2. req[q] \in Reqs({"clear"}, {"saved", "bumped"})
    BY <1>3, <2>1, IdleIs DEF LyricReqs, Reqs
  <2>3. PICK x : x = [req[q] EXCEPT !.st = "bumped", !.n = store[nsKey].val]
    OBVIOUS
  <2>4. /\ req' = [req EXCEPT ![q] = x] /\ x \in Reqs({"clear"}, {"bumped"}) /\ x.op = "clear" /\ x.st = "bumped"
        /\ x.n = store[nsKey].val /\ x.proc = req[q].proc
    BY <1>2, <2>1, <2>2, <2>3 DEF Reqs
  <2>5. x \in {Idle} \cup LyricReqs
    BY <2>4 DEF LyricReqs, Reqs
  <2>6. LyricRequest(x, lyric) /\ WriteCount(x) = 0 /\ ClearCount(x) = 1
    BY <1>5, <2>1, <2>4 DEF LyricRequest, WriteCount, ClearCount, Writes, Clears
  <2>7. gen' \in [Processes -> Nat]
    BY <1>3, <1>5, <2>1
  <2>8. /\ lyric'.rev + games' + Cardinality(Writing) + WriteCount(x) <= MaxWrites + 1 + WriteCount(req[q])
        /\ lyric.rev + games + ClearCount(x) <= lyric'.rev + games' + ClearCount(req[q])
        /\ store'[nsKey].val + Cardinality(Unanswered) + ClearCount(x) + 1 <= lyric'.rev + games' + ClearCount(req[q])
        /\ x.n + Cardinality(Unanswered) + ClearCount(x) + 1 <= lyric'.rev + games' + ClearCount(req[q])
    BY <1>1, <1>2, <1>5, <2>1, <2>4, <2>6
  <2>9. /\ store' \in [Keys -> Entry] /\ games' \in Nat /\ settled' \in Nat
        /\ lyric' \in [active : BOOLEAN, rev : Nat] /\ lyric'.active = lyric.active
        /\ \A v \in Versions : store'[lyricKey(v)].val < NotFound
    BY <1>2, <1>3, <2>1
  <2> QED BY <2>4, <2>5, <2>6, <2>7, <2>8, <2>9, LyricOne
<1>8. ASSUME req' = [req EXCEPT ![q] = Idle], req[q].st \in {"saved", "bumped"}, UNCHANGED <<lyric, games, gen>>,
             settled' \in Nat, store' \in [Keys -> Entry], \A v \in Versions : store'[lyricKey(v)].val < NotFound,
             store'[nsKey].val \in Nat, store'[nsKey].val + U <= lyric.rev + games
      PROVE  Lyric'
  <2>1. /\ lyric'.rev + games' + Cardinality(Writing) + WriteCount(Idle) <= MaxWrites + 1 + WriteCount(req[q])
        /\ lyric.rev + games + ClearCount(Idle) <= lyric'.rev + games' + ClearCount(req[q])
        /\ store'[nsKey].val + Cardinality(Unanswered) + ClearCount(Idle) + 1 <= lyric'.rev + games' + ClearCount(req[q])
    BY <1>1, <1>2, <1>4, <1>5, <1>8
  <2>2. /\ games' \in Nat /\ gen' \in [Processes -> Nat]
        /\ lyric' \in [active : BOOLEAN, rev : Nat] /\ lyric'.active = lyric.active
    BY <1>2, <1>3, <1>8
  <2>3. Idle \in {Idle} \cup LyricReqs
    OBVIOUS
  <2> QED BY <1>4, <1>8, <2>1, <2>2, <2>3, LyricOne
<1>9. CASE clearCacheSet(q)
  <2>1. /\ req[q].st = "bumped" /\ Put(nsKey, req[q].n + 1, LyricsTtl) /\ req' = [req EXCEPT ![q] = Idle]
        /\ UNCHANGED <<lyric, games, gen>> /\ settled' = IF req[q].val > settled THEN req[q].val ELSE settled
    BY <1>9 DEF clearCacheSet
  <2>2. req[q].n \in Nat /\ req[q].n + 1 \in Nat /\ req[q].n + U + 1 <= lyric.rev + games /\ settled' \in Nat
    BY <1>1, <1>3, <1>5, <2>1 DEF Lyric, Below
  <2>3. /\ store' \in [Keys -> Entry] /\ store'[nsKey].val = req[q].n + 1
        /\ \A k \in Keys : k # nsKey => store'[k] = store[k]
    BY <1>3, <2>1, <2>2, PutStore, KeysAre, CachesAssumption
  <2>4. \A v \in Versions : store'[lyricKey(v)].val < NotFound
    BY <1>3, <2>3, KeysAre
  <2>5. store'[nsKey].val \in Nat /\ store'[nsKey].val + U <= lyric.rev + games
    BY <1>2, <2>2, <2>3
  <2> QED BY <1>8, <2>1, <2>2, <2>3, <2>4, <2>5
<1>10. CASE Abort(q)
  <2>1. /\ req[q].st \in {"saved", "bumped"} /\ req' = [req EXCEPT ![q] = Idle]
        /\ UNCHANGED <<lyric, games, gen, store, settled>>
    BY <1>10 DEF Abort
  <2>2. store'[nsKey].val \in Nat /\ store'[nsKey].val + U <= lyric.rev + games
    BY <1>2, <2>1
  <2> QED BY <1>3, <1>8, <2>1, <2>2
<1> QED BY <1>6, <1>7, <1>9, <1>10

LEMMA LyricStep ==
    ASSUME about = "lyric", Lyric, [Next]_vars
    PROVE  Lyric'
<1>1. ASSUME NEW q \in Requests, End(q) PROVE Lyric'
  <2>1. UNCHANGED <<store, lyric, games, gen, settled>> /\ req' = [req EXCEPT ![q] = Idle] /\ req[q].st = "answered"
    BY <1>1 DEF End
  <2>2. req[q].op = "findOne"
    BY <2>1, LyricFacts, IdleIs DEF LyricReqs, Reqs
  <2>3. LyricRequest(Idle, lyric)
    BY IdleIs DEF LyricRequest
  <2>4. store' \in [Keys -> Entry] /\ \A v \in Versions : store'[lyricKey(v)].val < NotFound
    BY <2>1, LyricFacts
  <2> QED BY <2>1, <2>2, <2>3, <2>4, IdleIs, LyricReader
<1>2. CASE Tick
  <2>1. UNCHANGED <<lyric, games, gen, settled, req>>
    BY <1>2 DEF Tick
  <2>2. store' \in [Keys -> Entry] /\ \A k \in Keys : store'[k].val \in {0, store[k].val}
    BY <1>2, TickStore, LyricFacts
  <2>3. \A v \in Versions : store'[lyricKey(v)].val < NotFound
    BY <2>2, LyricFacts, KeysAre, NotFoundIs
  <2>4. store'[nsKey].val + Cardinality(Unanswered) + 1 <= lyric.rev + games
    BY <2>2, LyricFacts, KeysAre
  <2>5. Writing' = Writing /\ Unanswered' = Unanswered
    BY <2>1 DEF Writing, Unanswered, Writes, Clears
  <2> QED BY <2>1, <2>2, <2>3, <2>4, <2>5 DEF Lyric, Get, Below, LyricRequest
<1>3. CASE UNCHANGED vars
  <2>1. UNCHANGED <<store, lyric, games, gen, settled, req>>
    BY <1>3 DEF vars
  <2>2. Writing' = Writing /\ Unanswered' = Unanswered
    BY <2>1 DEF Writing, Unanswered, Writes, Clears
  <2> QED BY <2>1, <2>2 DEF Lyric, Get, Below, LyricRequest
<1> QED BY <1>1, <1>2, <1>3, LyricSteps, LyricReads, LyricBegins, LyricChanges, LyricClears

-----------------------------------------------------------------------------
(* The invariant *)

LEMMA Initial == Init => IInv
<1> SUFFICES ASSUME Init PROVE IInv
  OBVIOUS
<1>1. /\ store = [k \in Keys |-> Empty] /\ req = [q \in Requests |-> Idle] /\ games = 0 /\ account = 1
      /\ lyric = [active |-> TRUE, rev |-> 1] /\ gen = [p \in Processes |-> 0] /\ settled = 1
      /\ challenge = [built |-> FALSE, left |-> 0, spent |-> FALSE] /\ about \in Subjects
  BY DEF Init
<1>2. /\ store \in [Keys -> Entry] /\ \A k \in Keys : store[k].val = 0
  BY <1>1 DEF Empty, Entry
<1>3. \A q \in Requests : req[q] = Idle
  BY <1>1
<1>4. \A S : req \in [Requests -> {Idle} \cup S]
  BY <1>1
<1>5. Wallet
  <2>1. challenge \in [built : BOOLEAN, left : 0..(ChallengeTimeout + Grace), spent : BOOLEAN] /\ challenge.left = 0
    BY <1>1, CachesAssumption
  <2>2. NonceKept(challenge, store)
    BY <2>1, CachesAssumption DEF NonceKept
  <2>3. \A q \in Requests : WalletRequest(req[q], store)
    BY <1>3, IdleIs DEF WalletRequest
  <2> QED BY <1>2, <1>4, <2>1, <2>2, <2>3 DEF Wallet
<1>6. Stats
  BY <1>1, <1>2, <1>3, <1>4, IdleIs, KeysAre DEF Stats, Get, StatsRequest, Loaded, Reading, Enough
<1>7. Profile
  BY <1>1, <1>2, <1>3, <1>4, IdleIs, KeysAre, NotFoundIs, CachesAssumption DEF Profile, Get, ProfileRequest
<1>8. Lyric
  <2>1. Writing = {} /\ Unanswered = {}
    BY <1>3, IdleIs DEF Writing, Unanswered, Writes, Clears
  <2>2. Cardinality(Writing) = 0 /\ Cardinality(Unanswered) = 0
    BY <2>1, FS_EmptySet
  <2>3. lyric \in [active : BOOLEAN, rev : Nat] /\ lyric.rev = 1 /\ gen \in [Processes -> Nat]
    BY <1>1
  <2>4. lyric.rev + games + Cardinality(Writing) <= MaxWrites + 1 /\ Below(Get(nsKey))
    BY <1>1, <1>2, <2>2, <2>3, KeysAre, CachesAssumption DEF Below, Get
  <2>5. \A q \in Requests : req[q].st # "bumped" /\ LyricRequest(req[q], lyric)
    BY <1>3, IdleIs DEF LyricRequest
  <2>6. \A v \in Versions : Get(lyricKey(v)) < NotFound
    BY <1>2, KeysAre, NotFoundIs, CachesAssumption DEF Get
  <2> QED BY <1>1, <1>2, <1>4, <2>3, <2>4, <2>5, <2>6 DEF Lyric
<1> QED BY <1>1, <1>5, <1>6, <1>7, <1>8 DEF IInv

LEMMA Inductive == IInv /\ [Next]_vars => IInv'
<1> SUFFICES ASSUME IInv, [Next]_vars PROVE IInv'
  OBVIOUS
<1>1. ASSUME NEW q \in Requests, Begin(q) PROVE about' = about
  BY <1>1 DEF Begin, findOne, remove, restore, deactivateBySource, createLyric, importLyrics, getUserStats,
     create, findPublicProfile, verifyChallenge
<1>2. ASSUME NEW q \in Requests, Continue(q) PROVE about' = about
  <2>1. CASE \/ lyricGet(q) \/ lyricLoad(q) \/ lyricSet(q) \/ lyricSave(q) \/ bulkUpsert(q)
             \/ clearCacheRead(q) \/ clearCacheSet(q) \/ End(q)
    BY <2>1 DEF lyricGet, lyricLoad, lyricSet, lyricSave, bulkUpsert, clearCacheRead, clearCacheSet, End
  <2>2. CASE statsGet(q) \/ statsQuery(q) \/ statsSet(q) \/ createDel(q)
    BY <2>2 DEF statsGet, statsQuery, statsSet, createDel
  <2>3. CASE \/ profileGet(q) \/ profileLoad(q) \/ getHeadToHeadRecord(q) \/ profileSet(q)
             \/ consumeChallengeGet(q) \/ consumeChallengeSet(q)
    BY <2>3 DEF profileGet, profileLoad, getHeadToHeadRecord, profileSet, consumeChallengeGet, consumeChallengeSet
  <2> QED BY <1>2, <2>1, <2>2, <2>3 DEF Continue
<1>3. ASSUME (\E q \in Requests : Abort(q)) \/ removeAccount \/ sessionEnds \/ buildChallenge \/ Tick \/ UNCHANGED vars
      PROVE  about' = about
  BY <1>3 DEF Abort, removeAccount, sessionEnds, buildChallenge, Tick, vars
<1>4. about' = about
  BY <1>1, <1>2, <1>3 DEF Next
<1> QED BY <1>4, WalletStep, StatsStep, ProfileStep, LyricStep DEF IInv

-----------------------------------------------------------------------------

(* consumeChallenge's nonce outlives the time bounds of the challenge it   *)
(* was built for: a wallet challenge that is presented again within them,  *)
(* after a presentation of it was accepted, is refused.                    *)
THEOREM ReplaysInTimeAreRefused == Spec => []ReplayRefusedInTime
<1>1. IInv => ReplayRefusedInTime
  <2> SUFFICES ASSUME IInv, NEW q \in Requests, req[q].op = "wallet", req[q].st = "answered", req[q].floor = 1
               PROVE  req[q].val = NotFound
    BY DEF ReplayRefusedInTime, At
  <2>1. about = "wallet"
    BY IdleIs DEF IInv, Subjects, Stats, StatsReqs, Profile, ProfileReqs, Lyric, LyricReqs, Reqs
  <2> QED BY <2>1 DEF IInv, Wallet, WalletRequest
<1> QED BY <1>1, Initial, Inductive, PTL DEF Spec

(* getUserStats, asked after create recorded a guess and dropped the       *)
(* cached statistics, counts it, however many readers refill the entry,    *)
(* unless a read of the statistics overlapped the recording.               *)
THEOREM GuessesAreCounted == Spec => []StatsCounted
<1>1. IInv => StatsCounted
  <2> SUFFICES ASSUME IInv, NEW q \in Requests, req[q].op = "getUserStats", req[q].st = "answered"
               PROVE  req[q].val >= req[q].floor + 1
    BY DEF StatsCounted, At
  <2>1. about = "stats"
    BY IdleIs DEF IInv, Subjects, Wallet, WalletReqs, Profile, ProfileReqs, Lyric, LyricReqs, Reqs
  <2> QED BY <2>1 DEF IInv, Stats, StatsRequest
<1> QED BY <1>1, Initial, Inductive, PTL DEF Spec

(* A lyric that is active, or an account that is not anonymised, all       *)
(* through findOne or findPublicProfile is never answered with a 404:      *)
(* getOrLoad stores no miss, and every version it can read is one a bump   *)
(* of the namespace has written.                                           *)
THEOREM PresentIsAnswered == Spec => []PresentIsFound
<1>1. IInv => PresentIsFound
  <2> SUFFICES ASSUME IInv, NEW q \in Requests, req[q].st = "answered", req[q].sure
               PROVE  req[q].val # NotFound
    BY DEF PresentIsFound
  <2>1. CASE about \in {"wallet", "stats"}
    BY <2>1 DEF IInv, Wallet, WalletRequest, Stats, StatsRequest
  <2>2. CASE about = "profile"
    BY <2>2 DEF IInv, Profile, ProfileRequest
  <2>3. CASE about = "lyric"
    BY <2>3 DEF IInv, Lyric, LyricRequest
  <2> QED BY <2>1, <2>2, <2>3 DEF IInv, Subjects
<1> QED BY <1>1, Initial, Inductive, PTL DEF Spec
=============================================================================
