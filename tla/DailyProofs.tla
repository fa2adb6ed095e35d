---------------------------- MODULE DailyProofs -----------------------------
(***************************************************************************)
(* The properties of Daily for any number of requests, processes, lyrics   *)
(* and days, and any number of crashes and of lyrics taken down.           *)
(*                                                                         *)
(* A request that holds a day's lyrics holds the stored ones, which never  *)
(* change once there are any, and what it inserts is one of them (Kept,    *)
(* Held).  A completion that is owed and not stored has a request on its   *)
(* way that will see it (Sees).  The number of a notification is no higher *)
(* than the counter that gave it (Numbered).                               *)
(***************************************************************************)
EXTENDS Daily, TLAPS, FiniteSetTheorems

Request ==
  [st : {"idle", "lookup", "pool", "store", "ids", "attempt", "award", "count",
         "tried", "live", "notify", "reading"},
   proc : Processes \cup {Nobody}, date : 0..MaxDays, lyric : Lyrics \cup {Nobody},
   ids : SUBSET Lyrics, seen : SUBSET Lyrics, right : BOOLEAN, note : Nat \X Nat]

Shape ==
  /\ day \in Days /\ active \subseteq Lyrics
  /\ challenge \in [Days -> SUBSET Lyrics]
  /\ cached \in [Processes -> [date : 0..MaxDays, ids : SUBSET Lyrics]]
  /\ attempts \in [Days -> SUBSET Lyrics] /\ owed \in [Days -> BOOLEAN]
  /\ announced \in [Days -> Nat]
  /\ notes \subseteq [id : Days \X Nat, made : Days, readAt : 0..MaxDays]
  /\ req \in [Requests -> Request]
  /\ \A q \in Requests : req[q].st # "idle" => req[q].date \in Days

Kept == \A p \in Processes :
  cached[p].date # 0 => cached[p].ids = challenge[cached[p].date] /\ cached[p].ids # {}

Holding(r) == r.st \in {"ids", "attempt", "award", "count", "tried", "live"}
Holds(r) ==
  /\ Holding(r) => r.ids = challenge[r.date] /\ r.ids # {}
  /\ r.st = "attempt" => r.lyric \in r.ids
Held == \A q \in Requests : Holds(req[q])

\* A request in this state will find the challenge of day d complete.
Sees(r, d) ==
  /\ r.date = d
  /\ \/ r.st \in {"award", "count", "notify"}
     \/ r.st = "tried" /\ r.seen = attempts[d]
     \/ r.st = "live" /\ r.seen # {} /\ r.seen \subseteq attempts[d]

Owed == \A d \in Days : owed[d] =>
  /\ Complete(d, attempts[d])
  /\ announced[d] > 0 \/ \E q \in Requests : Sees(req[q], d)

Numbered ==
  /\ \A n \in notes : n.readAt <= day /\ n.id[2] <= announced[n.id[1]]
  /\ \A m, n \in notes : m.id = n.id => m = n

IInv == Shape /\ Kept /\ Held /\ AttemptsAreOfTheDay /\ Owed /\ Numbered

-----------------------------------------------------------------------------
(* A request moves on *)

LEMMA Moved ==
    ASSUME Shape, NEW q \in Requests, NEW r \in Request,
           r.st # "idle" => r.date \in Days, req' = [req EXCEPT ![q] = r]
    PROVE  /\ req' \in [Requests -> Request]
           /\ req'[q] = r /\ \A x \in Requests \ {q} : req'[x] = req[x]
           /\ \A x \in Requests : req'[x].st # "idle" => req'[x].date \in Days
<1>1. req' \in [Requests -> Request] /\ req'[q] = r /\ \A x \in Requests \ {q} : req'[x] = req[x]
  BY DEF Shape
<1>2. ASSUME NEW x \in Requests PROVE req'[x].st # "idle" => req'[x].date \in Days
  <2>1. CASE x = q
    BY <1>1, <2>1
  <2>2. CASE x # q
    BY <1>1, <2>2 DEF Shape
  <2> QED BY <2>1, <2>2
<1> QED BY <1>1, <1>2

(* A step that only moves a request, and leaves it where it still sees     *)
(* what it was to see.                                                     *)
LEMMA RequestStep ==
    ASSUME IInv, NEW q \in Requests, NEW r \in Request,
           r.st # "idle" => r.date \in Days, req' = [req EXCEPT ![q] = r],
           UNCHANGED <<world, challenge, attempts, owed, inbox>>,
           cached' \in [Processes -> [date : 0..MaxDays, ids : SUBSET Lyrics]], Kept',
           Holds(r),
           \A d \in Days : owed[d] /\ Sees(req[q], d) => Sees(r, d)
    PROVE  IInv'
<1>1. /\ req' \in [Requests -> Request]
      /\ req'[q] = r /\ \A x \in Requests \ {q} : req'[x] = req[x]
      /\ \A x \in Requests : req'[x].st # "idle" => req'[x].date \in Days
  BY Moved DEF IInv
<1>2. UNCHANGED <<day, active, challenge, attempts, owed, notes, announced>>
  BY DEF world, inbox
<1>3. Shape'
  BY <1>1, <1>2 DEF IInv, Shape
<1>4. Held'
  BY <1>1, <1>2 DEF IInv, Held, Holds, Holding
<1>5. AttemptsAreOfTheDay'
  BY <1>2 DEF IInv, AttemptsAreOfTheDay
<1>7. Owed'
  <2> SUFFICES ASSUME NEW d \in Days, owed[d]
               PROVE  Complete(d, attempts[d])' /\ (announced[d] > 0 \/ \E x \in Requests : Sees(req'[x], d))
    BY <1>2 DEF Owed, Sees
  <2>1. Complete(d, attempts[d]) /\ (announced[d] > 0 \/ \E x \in Requests : Sees(req[x], d))
    BY DEF IInv, Owed
  <2>2. \A x \in Requests : Sees(req[x], d) => Sees(req'[x], d)
    BY <1>1
  <2> QED BY <1>2, <2>1, <2>2 DEF Complete
<1>8. Numbered'
  BY <1>2 DEF IInv, Numbered
<1> QED BY <1>3, <1>4, <1>5, <1>7, <1>8 DEF IInv

LEMMA IdleIsRequest == Idle \in Request /\ Idle.st = "idle"
BY DailyAssumption DEF Idle, Request, Nobody

LEMMA DayIsNat == Shape => day \in Nat /\ day # 0 /\ 0 \in 0..MaxDays /\ Days \subseteq 0..MaxDays
BY DailyAssumption DEF Shape, Days

(* A request that is over saw nothing that was still owed.                 *)
LEMMA DoneStep ==
    ASSUME IInv, NEW q \in Requests, Done(q),
           UNCHANGED <<world, daily, inbox>>,
           \A d \in Days : owed[d] => ~Sees(req[q], d)
    PROVE  IInv'
<1>1. Idle \in Request /\ Idle.st = "idle" /\ req' = [req EXCEPT ![q] = Idle] /\ Holds(Idle)
  BY IdleIsRequest DEF Done, Holds, Holding
<1>2. cached' \in [Processes -> [date : 0..MaxDays, ids : SUBSET Lyrics]] /\ Kept'
  BY DEF daily, IInv, Shape, Kept
<1> QED BY <1>1, <1>2, RequestStep DEF daily

LEMMA GuessStep ==
    ASSUME IInv, NEW q \in Requests, NEW p \in Processes, NEW l \in Lyrics \cup {Nobody}, guess(q, p, l)
    PROVE  IInv'
<1> DEFINE r0 == [Begin(q, p, "lookup") EXCEPT !.lyric = l]
           r == IF cached[p].date = day THEN [r0 EXCEPT !.st = "ids", !.ids = cached[p].ids] ELSE r0
<1>1. /\ r0 \in Request /\ r0.st = "lookup" /\ r0.date = day
  BY IdleIsRequest, DayIsNat DEF Begin, Request, IInv, Shape
<1>6. /\ req' = [req EXCEPT ![q] = r] /\ req[q] = Idle
      /\ UNCHANGED <<world, daily, inbox>>
  BY DEF guess
<1>2. cached[p] \in [date : 0..MaxDays, ids : SUBSET Lyrics]
  BY DEF IInv, Shape
<1> HIDE DEF r0
<1>3. r \in Request /\ r.date = day
  BY <1>1, <1>2 DEF Request
<1>4. r.st = "lookup" \/ (r.st = "ids" /\ r.ids = cached[p].ids /\ cached[p].date = day)
  BY <1>1, <1>2 DEF Request
<1>5. Holds(r)
  BY <1>3, <1>4, DayIsNat DEF Holds, Holding, IInv, Kept
<1>7. \A d \in Days : ~Sees(req[q], d)
  BY <1>6, IdleIsRequest DEF Sees
<1>8. cached' \in [Processes -> [date : 0..MaxDays, ids : SUBSET Lyrics]] /\ Kept'
  BY <1>6 DEF daily, IInv, Shape, Kept
<1>9. r.date \in Days
  BY <1>3, <1>4 DEF IInv, Shape
<1> HIDE DEF r
<1> QED BY <1>3, <1>5, <1>6, <1>7, <1>8, <1>9, RequestStep DEF daily

LEMMA LookupStep ==
    ASSUME IInv, NEW q \in Requests, lookup(q)
    PROVE  IInv'
<1> DEFINE d == req[q].date
<1>1. req[q] \in Request /\ req[q].st = "lookup" /\ d \in Days /\ challenge[d] \in SUBSET Lyrics
  BY DEF IInv, Shape, lookup
<1>2. UNCHANGED <<world, challenge, attempts, owed, inbox>>
  BY DEF lookup
<1>3. \A e \in Days : ~Sees(req[q], e)
  BY <1>1 DEF Sees
<1>4. CASE challenge[d] = {}
  <2> DEFINE r == [req[q] EXCEPT !.st = "pool"]
  <2>1. r \in Request /\ r.st = "pool" /\ r.date = d
    BY <1>1 DEF Request
  <2>2. req' = [req EXCEPT ![q] = r] /\ UNCHANGED cached
    BY <1>4 DEF lookup, Goto, IInv, Shape
  <2>3. cached' \in [Processes -> [date : 0..MaxDays, ids : SUBSET Lyrics]] /\ Kept'
    BY <1>2, <2>2 DEF IInv, Shape, Kept
  <2>4. Holds(r)
    BY <2>1 DEF Holds, Holding
  <2> HIDE DEF r
  <2> QED BY <1>1, <1>2, <1>3, <2>1, <2>2, <2>3, <2>4, RequestStep
<1>5. CASE challenge[d] # {}
  <2> DEFINE r == [req[q] EXCEPT !.st = "ids", !.ids = challenge[d]]
             c == [date |-> d, ids |-> challenge[d]]
  <2>1. r \in Request /\ r.st = "ids" /\ r.date = d /\ r.ids = challenge[d]
    BY <1>1 DEF Request
  <2>2. req' = [req EXCEPT ![q] = r] /\ cached' = [cached EXCEPT ![req[q].proc] = c]
    BY <1>5 DEF lookup, IInv, Shape
  <2>3. c \in [date : 0..MaxDays, ids : SUBSET Lyrics]
    BY <1>1, DayIsNat DEF IInv
  <2>4. cached' \in [Processes -> [date : 0..MaxDays, ids : SUBSET Lyrics]]
    BY <2>2, <2>3 DEF IInv, Shape
  <2>5. \A p \in Processes : cached'[p] = cached[p] \/ cached'[p] = c
    BY <2>2 DEF IInv, Shape
  <2>6. Kept'
    BY <1>2, <1>5, <2>5 DEF IInv, Kept
  <2>7. Holds(r)
    BY <1>5, <2>1 DEF Holds, Holding
  <2> HIDE DEF r
  <2> QED BY <1>1, <1>2, <1>3, <2>1, <2>2, <2>4, <2>6, <2>7, RequestStep
<1> QED BY <1>4, <1>5

LEMMA PoolStep ==
    ASSUME IInv, NEW q \in Requests, pool(q)
    PROVE  IInv'
<1>1. req[q] \in Request /\ req[q].st = "pool" /\ req[q].date \in Days
  BY DEF IInv, Shape, pool
<1>2. UNCHANGED <<world, daily, inbox>>
  BY DEF pool
<1>3. \A e \in Days : ~Sees(req[q], e)
  BY <1>1 DEF Sees
<1>4. CASE Done(q)
  BY <1>2, <1>3, <1>4, DoneStep
<1>5. ASSUME NEW ids \in picks(active), req' = [req EXCEPT ![q].st = "store", ![q].ids = ids]
      PROVE  IInv'
  <2> DEFINE r == [req[q] EXCEPT !.st = "store", !.ids = ids]
  <2>1. ids \in SUBSET Lyrics
    BY DEF picks, IInv, Shape
  <2>2. r \in Request /\ r.st = "store" /\ r.date = req[q].date
    BY <1>1, <2>1 DEF Request
  <2>3. req' = [req EXCEPT ![q] = r]
    BY <1>5 DEF IInv, Shape
  <2>4. cached' \in [Processes -> [date : 0..MaxDays, ids : SUBSET Lyrics]] /\ Kept'
    BY <1>2 DEF daily, IInv, Shape, Kept
  <2>5. Holds(r)
    BY <2>2 DEF Holds, Holding
  <2> HIDE DEF r
  <2> QED BY <1>1, <1>2, <1>3, <2>2, <2>3, <2>4, <2>5, RequestStep DEF daily
<1> QED BY <1>4, <1>5 DEF pool

LEMMA CheckStep ==
    ASSUME IInv, NEW q \in Requests, check(q)
    PROVE  IInv'
<1>1. req[q] \in Request /\ req[q].st = "ids" /\ req[q].date \in Days
  BY DEF IInv, Shape, check
<1>2. UNCHANGED <<world, daily, inbox>>
  BY DEF check
<1>3. \A e \in Days : ~Sees(req[q], e)
  BY <1>1 DEF Sees
<1>4. CASE Done(q)
  BY <1>2, <1>3, <1>4, DoneStep
<1>5. ASSUME NEW right \in BOOLEAN, req[q].lyric \in req[q].ids,
             req' = [req EXCEPT ![q].st = "attempt", ![q].right = right]
      PROVE  IInv'
  <2> DEFINE r == [req[q] EXCEPT !.st = "attempt", !.right = right]
  <2>1. /\ r \in Request /\ r.st = "attempt" /\ r.date = req[q].date
        /\ r.ids = req[q].ids /\ r.lyric = req[q].lyric
    BY <1>1 DEF Request
  <2>2. req' = [req EXCEPT ![q] = r]
    BY <1>5 DEF IInv, Shape
  <2>3. cached' \in [Processes -> [date : 0..MaxDays, ids : SUBSET Lyrics]] /\ Kept'
    BY <1>2 DEF daily, IInv, Shape, Kept
  <2>4. Holds(req[q]) => Holds(r)
    BY <1>1, <1>5, <2>1 DEF Holds, Holding
  <2> HIDE DEF r
  <2>5. Holds(r)
    BY <2>4 DEF IInv, Held
  <2> QED BY <1>1, <1>2, <1>3, <2>1, <2>2, <2>3, <2>5, RequestStep DEF daily
<1>6. CASE \E isCorrect \in BOOLEAN, withinWindow \in isWithinAnswerWindow :
             /\ req[q].lyric \in getActiveDailyLyricIds(req[q].ids)
             /\ req' = [req EXCEPT ![q].st = "attempt", ![q].right = isCorrect /\ withinWindow]
  <2>1. PICK a \in BOOLEAN, b \in BOOLEAN :
             /\ req[q].lyric \in req[q].ids
             /\ req' = [req EXCEPT ![q].st = "attempt", ![q].right = a /\ b]
    BY <1>6 DEF isWithinAnswerWindow, getActiveDailyLyricIds
  <2>2. (a /\ b) \in BOOLEAN
    OBVIOUS
  <2> QED BY <1>5, <2>1, <2>2
<1> QED BY <1>4, <1>6 DEF check

LEMMA CountStep ==
    ASSUME IInv, NEW q \in Requests, count(q)
    PROVE  IInv'
<1> DEFINE d == req[q].date
<1>1. req[q] \in Request /\ req[q].st = "count" /\ d \in Days
  BY DEF IInv, Shape, count
<1>2. UNCHANGED <<world, daily, inbox>>
  BY DEF count
<1>3. cached' \in [Processes -> [date : 0..MaxDays, ids : SUBSET Lyrics]] /\ Kept'
  BY <1>2 DEF daily, IInv, Shape, Kept
<1>4. req[q].ids = challenge[d] /\ req[q].ids # {}
  BY <1>1 DEF IInv, Held, Holds, Holding
<1>5. CASE req' = [req EXCEPT ![q].st = "tried", ![q].seen = attempts[d]]
  <2> DEFINE r == [req[q] EXCEPT !.st = "tried", !.seen = attempts[d]]
  <2>1. /\ r \in Request /\ r.st = "tried" /\ r.date = d
        /\ r.ids = req[q].ids /\ r.seen = attempts[d]
    BY <1>1 DEF Request, IInv, Shape
  <2>2. req' = [req EXCEPT ![q] = r]
    BY <1>5 DEF IInv, Shape
  <2> HIDE DEF r
  <2>3. Holds(r)
    BY <1>4, <2>1 DEF Holds, Holding
  <2>4. \A e \in Days : Sees(req[q], e) => Sees(r, e)
    BY <2>1 DEF Sees
  <2> QED BY <1>1, <1>2, <1>3, <2>1, <2>2, <2>3, <2>4, RequestStep DEF daily
<1>6. CASE req' = [req EXCEPT ![q].st = "live", ![q].seen = getActiveDailyLyricIds(req[q].ids)]
  <2> DEFINE r == [req[q] EXCEPT !.st = "live", !.seen = challenge[d] \cap active]
  <2>1. /\ r \in Request /\ r.st = "live" /\ r.date = d
        /\ r.ids = req[q].ids /\ r.seen = challenge[d] \cap active
    BY <1>1 DEF Request, IInv, Shape
  <2>2. req' = [req EXCEPT ![q] = r]
    BY <1>4, <1>6 DEF IInv, Shape, getActiveDailyLyricIds
  <2> HIDE DEF r
  <2>3. Holds(r)
    BY <1>4, <2>1 DEF Holds, Holding
  <2>4. \A e \in Days : owed[e] => Complete(e, attempts[e])
    BY DEF IInv, Owed
  <2>5. \A e \in Days : owed[e] /\ Sees(req[q], e) => Sees(r, e)
    BY <2>1, <2>4 DEF Sees, Complete
  <2> QED BY <1>1, <1>2, <1>3, <2>1, <2>2, <2>3, <2>5, RequestStep DEF daily
<1> QED BY <1>5, <1>6 DEF count

LEMMA AwardStep ==
    ASSUME IInv, NEW q \in Requests, award(q)
    PROVE  IInv'
<1> DEFINE d == req[q].date
           r == [req[q] EXCEPT !.st = "count"]
<1>1. req[q] \in Request /\ req[q].st = "award" /\ d \in Days
  BY DEF IInv, Shape, award
<1>2. UNCHANGED <<world, daily, inbox>> /\ req' = [req EXCEPT ![q] = r]
  BY DEF award, Goto, IInv, Shape
<1>3. cached' \in [Processes -> [date : 0..MaxDays, ids : SUBSET Lyrics]] /\ Kept'
  BY <1>2 DEF daily, IInv, Shape, Kept
<1>4. r \in Request /\ r.st = "count" /\ r.date = d /\ r.ids = req[q].ids
  BY <1>1 DEF Request
<1> HIDE DEF r
<1>5. Holds(r) /\ \A e \in Days : Sees(req[q], e) => Sees(r, e)
  BY <1>1, <1>4 DEF IInv, Held, Holds, Holding, Sees
<1> QED BY <1>1, <1>2, <1>3, <1>4, <1>5, RequestStep DEF daily

LEMMA AnswerStep ==
    ASSUME IInv, NEW q \in Requests, answer(q)
    PROVE  IInv'
<1> DEFINE d == req[q].date
           live == IF req[q].st = "live" THEN req[q].seen ELSE getActiveDailyLyricIds(req[q].ids)
           tried == IF req[q].st = "tried" THEN req[q].seen ELSE attempts[d]
<1>1. req[q] \in Request /\ req[q].st \in {"tried", "live"} /\ d \in Days
  BY DEF IInv, Shape, answer
<1>2. UNCHANGED <<world, daily, inbox>>
  BY DEF answer
<1>3. req[q].ids = challenge[d]
  BY <1>1 DEF IInv, Held, Holds, Holding
<1>4. CASE Completed(req[q].ids, live, tried)
  <2> DEFINE r == [req[q] EXCEPT !.st = "notify"]
  <2>1. r \in Request /\ r.st = "notify" /\ r.date = d
    BY <1>1 DEF Request
  <2>2. req' = [req EXCEPT ![q] = r]
    BY <1>4 DEF answer, announceCompletion, Goto, IInv, Shape
  <2>3. cached' \in [Processes -> [date : 0..MaxDays, ids : SUBSET Lyrics]] /\ Kept'
    BY <1>2 DEF daily, IInv, Shape, Kept
  <2> HIDE DEF r
  <2>4. Holds(r) /\ \A e \in Days : Sees(req[q], e) => Sees(r, e)
    BY <2>1 DEF Holds, Holding, Sees
  <2> QED BY <1>1, <1>2, <2>1, <2>2, <2>3, <2>4, RequestStep DEF daily
<1>5. CASE ~Completed(req[q].ids, live, tried)
  <2>1. Done(q)
    BY <1>5 DEF answer
  <2>2. ASSUME owed[d], Sees(req[q], d) PROVE FALSE
    <3>1. Complete(d, attempts[d])
      BY <1>1, <2>2 DEF IInv, Owed
    <3>2. CASE req[q].st = "tried"
      <4>1. req[q].seen = attempts[d]
        BY <2>2, <3>2 DEF Sees
      <4> QED BY <1>3, <1>5, <3>1, <3>2, <4>1 DEF Complete, Completed, getActiveDailyLyricIds
    <3>3. CASE req[q].st = "live"
      <4>1. req[q].seen # {} /\ req[q].seen \subseteq attempts[d]
        BY <2>2, <3>3 DEF Sees
      <4> QED BY <1>5, <3>3, <4>1 DEF Completed
    <3> QED BY <1>1, <3>2, <3>3
  <2>3. \A e \in Days : owed[e] => ~Sees(req[q], e)
    BY <2>2 DEF Sees
  <2> QED BY <1>2, <2>1, <2>3, DoneStep
<1> QED BY <1>4, <1>5

LEMMA MarkStep ==
    ASSUME IInv, NEW q \in Requests, NEW p \in Processes, NEW n \in notes, markAsRead(q, p, n)
    PROVE  IInv'
<1> DEFINE r == [Begin(q, p, "reading") EXCEPT !.note = n.id]
<1>1. n.id \in Nat \X Nat
  BY DEF IInv, Shape, Days
<1>2. r \in Request /\ r.st = "reading" /\ r.date = day
  BY <1>1, IdleIsRequest, DayIsNat DEF Begin, Request, IInv, Shape
<1>3. req' = [req EXCEPT ![q] = r] /\ req[q] = Idle /\ UNCHANGED <<world, daily, inbox>>
  BY DEF markAsRead
<1> HIDE DEF r
<1>4. Holds(r) /\ \A d \in Days : ~Sees(req[q], d)
  BY <1>2, <1>3, IdleIsRequest DEF Holds, Holding, Sees
<1>5. cached' \in [Processes -> [date : 0..MaxDays, ids : SUBSET Lyrics]] /\ Kept'
  BY <1>3 DEF daily, IInv, Shape, Kept
<1>6. r.date \in Days
  BY <1>2 DEF IInv, Shape
<1> QED BY <1>2, <1>3, <1>4, <1>5, <1>6, RequestStep DEF daily

(* The row of a day is stored once. *)
LEMMA StoreStep ==
    ASSUME IInv, NEW q \in Requests, store(q)
    PROVE  IInv'
<1> DEFINE d == req[q].date
           r == [req[q] EXCEPT !.st = "lookup"]
<1>1. req[q] \in Request /\ req[q].st = "store" /\ d \in Days
  BY DEF IInv, Shape, store
<1>2. r \in Request /\ r.st = "lookup" /\ r.date = d
  BY <1>1 DEF Request
<1>3. req' = [req EXCEPT ![q] = r]
  BY DEF store, Goto, IInv, Shape
<1>4. UNCHANGED <<day, active, cached, attempts, owed, notes, announced>>
  BY DEF store, world, inbox
<1>5. /\ challenge' \in [Days -> SUBSET Lyrics]
      /\ \A e \in Days : challenge[e] # {} => challenge'[e] = challenge[e]
  BY <1>1 DEF store, IInv, Shape, Request
<1> HIDE DEF r
<1>6. /\ req' \in [Requests -> Request]
      /\ req'[q] = r /\ \A x \in Requests \ {q} : req'[x] = req[x]
      /\ \A x \in Requests : req'[x].st # "idle" => req'[x].date \in Days
  BY <1>1, <1>2, <1>3, Moved DEF IInv
<1>7. Shape'
  BY <1>4, <1>5, <1>6 DEF IInv, Shape
<1>8. Kept'
  <2> SUFFICES ASSUME NEW p \in Processes, cached[p].date # 0
               PROVE  cached[p].ids = challenge'[cached[p].date] /\ cached[p].ids # {}
    BY <1>4 DEF Kept
  <2>1. cached[p].date \in Days
    BY DailyAssumption DEF IInv, Shape, Days
  <2> QED BY <1>5, <2>1 DEF IInv, Kept
<1>9. Held'
  <2> SUFFICES ASSUME NEW x \in Requests PROVE Holds(req[x])'
    BY DEF Held
  <2>1. CASE x = q
    BY <1>2, <1>6, <2>1 DEF Holds, Holding
  <2>2. CASE x # q
    <3>1. req'[x] = req[x] /\ Holds(req[x])
      BY <1>6, <2>2 DEF IInv, Held
    <3>2. Holding(req[x]) => req[x].date \in Days
      BY DEF IInv, Shape, Holding
    <3> QED BY <1>5, <3>1, <3>2 DEF Holds, Holding
  <2> QED BY <2>1, <2>2
<1>10. AttemptsAreOfTheDay'
  BY <1>4, <1>5 DEF IInv, AttemptsAreOfTheDay
<1>12. Owed'
  <2> SUFFICES ASSUME NEW e \in Days, owed[e]
               PROVE  Complete(e, attempts[e])' /\ (announced[e] > 0 \/ \E x \in Requests : Sees(req'[x], e))
    BY <1>4 DEF Owed, Sees
  <2>1. Complete(e, attempts[e]) /\ (announced[e] > 0 \/ \E x \in Requests : Sees(req[x], e))
    BY DEF IInv, Owed
  <2>2. challenge'[e] = challenge[e]
    BY <1>5, <2>1 DEF Complete
  <2>3. \A x \in Requests : Sees(req[x], e) => Sees(req'[x], e)
    BY <1>1, <1>6 DEF Sees
  <2> QED BY <1>4, <2>1, <2>2, <2>3 DEF Complete
<1>13. Numbered'
  BY <1>4 DEF IInv, Numbered
<1> QED BY <1>7, <1>8, <1>9, <1>10, <1>12, <1>13 DEF IInv

(* An attempt that is stored goes on to look whether it was the last.      *)
LEMMA AttemptStep ==
    ASSUME IInv, NEW q \in Requests, attempt(q)
    PROVE  IInv'
<1>0. PICK d : d = req[q].date
  OBVIOUS
<1> DEFINE tried == attempts[d] \cup {req[q].lyric}
           r == [req[q] EXCEPT !.st = IF req[q].right THEN "award" ELSE "count"]
<1>1. req[q] \in Request /\ req[q].st = "attempt" /\ d \in Days
  BY <1>0 DEF IInv, Shape, attempt, insertAttempt
<1>2. req[q].ids = challenge[d] /\ req[q].ids # {} /\ req[q].lyric \in challenge[d]
  BY <1>0, <1>1 DEF IInv, Held, Holds, Holding
<1>3. CASE req[q].lyric \in attempts[d]
  <2>1. Done(q) /\ UNCHANGED <<world, daily, inbox>>
    BY <1>0, <1>3 DEF attempt, insertAttempt, daily
  <2>2. \A e \in Days : ~Sees(req[q], e)
    BY <1>1 DEF Sees
  <2> QED BY <2>1, <2>2, DoneStep
<1>4. CASE req[q].lyric \notin attempts[d]
  <2>1. /\ attempts' = [attempts EXCEPT ![d] = tried]
        /\ owed' = [owed EXCEPT ![d] = Complete(d, tried)]
        /\ req' = [req EXCEPT ![q] = r]
    BY <1>0, <1>4 DEF attempt, insertAttempt, Goto, IInv, Shape
  <2>2. UNCHANGED <<day, active, challenge, cached, notes, announced>>
    BY DEF attempt, insertAttempt, world, inbox
  <2>3. /\ r \in Request /\ r.st \in {"award", "count"} /\ r.date = d /\ r.ids = req[q].ids
    BY <1>0, <1>1 DEF Request
  <2> HIDE DEF r
  <2>4. /\ req' \in [Requests -> Request]
        /\ req'[q] = r /\ \A x \in Requests \ {q} : req'[x] = req[x]
        /\ \A x \in Requests : req'[x].st # "idle" => req'[x].date \in Days
    BY <1>1, <2>1, <2>3, Moved DEF IInv
  <2>5. /\ attempts' \in [Days -> SUBSET Lyrics] /\ attempts'[d] = tried
        /\ \A e \in Days \ {d} : attempts'[e] = attempts[e]
    BY <1>1, <1>2, <2>1 DEF IInv, Shape
  <2>6. Complete(d, tried) \in BOOLEAN
    BY DEF Complete
  <2>7. /\ owed' \in [Days -> BOOLEAN] /\ owed'[d] = Complete(d, tried)
        /\ \A e \in Days \ {d} : owed'[e] = owed[e]
    BY <1>1, <2>1, <2>6 DEF IInv, Shape
  <2>8. Shape'
    BY <2>2, <2>4, <2>5, <2>7 DEF IInv, Shape
  <2>9. Kept'
    BY <2>2 DEF IInv, Kept
  <2>10. Held'
    BY <1>2, <2>2, <2>3, <2>4 DEF IInv, Held, Holds, Holding
  <2>11. AttemptsAreOfTheDay'
    BY <1>2, <2>2, <2>5 DEF IInv, AttemptsAreOfTheDay
  <2>13. Owed'
    <3> SUFFICES ASSUME NEW e \in Days, owed'[e]
                 PROVE  /\ Complete(e, attempts[e])'
                        /\ (announced[e] > 0 \/ \E x \in Requests : Sees(req[x], e)')
      BY <2>2 DEF Owed
    <3>1. CASE e = d
      <4>1. Complete(e, attempts[e])'
        BY <2>2, <2>5, <2>7, <3>1 DEF Complete
      <4>2. Sees(req[q], e)'
        BY <2>3, <2>4, <3>1 DEF Sees
      <4> QED BY <4>1, <4>2
    <3>2. CASE e # d
      <4>1. owed[e] /\ attempts'[e] = attempts[e]
        BY <2>5, <2>7, <3>2
      <4>2. Complete(e, attempts[e]) /\ (announced[e] > 0 \/ \E x \in Requests : Sees(req[x], e))
        BY <4>1 DEF IInv, Owed
      <4>3. \A x \in Requests : Sees(req[x], e) => Sees(req[x], e)'
        BY <1>0, <2>4, <3>2, <4>1 DEF Sees
      <4> QED BY <2>2, <4>1, <4>2, <4>3 DEF Complete
    <3> QED BY <3>1, <3>2
  <2>14. Numbered'
    BY <2>2 DEF IInv, Numbered
  <2> QED BY <2>8, <2>9, <2>10, <2>11, <2>13, <2>14 DEF IInv
<1> QED BY <1>3, <1>4

(* What is owed stays owed when the day's lyrics and attempts stay.        *)
LEMMA OwedKept ==
    ASSUME Owed, UNCHANGED <<active, challenge, attempts, owed>>,
           \A d \in Days : announced[d] > 0 => announced'[d] > 0,
           \A x \in Requests, d \in Days : Sees(req[x], d) => Sees(req'[x], d) \/ announced'[d] > 0
    PROVE  Owed'
<1> SUFFICES ASSUME NEW d \in Days, owed[d]
             PROVE  /\ Complete(d, attempts[d])'
                    /\ (announced'[d] > 0 \/ \E x \in Requests : Sees(req'[x], d))
  BY DEF Owed, Sees
<1>1. Complete(d, attempts[d]) /\ (announced[d] > 0 \/ \E x \in Requests : Sees(req[x], d))
  BY DEF Owed
<1> QED BY <1>1 DEF Complete

-----------------------------------------------------------------------------
(* Notifications *)

Note == [id : Days \X Nat, made : Days, readAt : 0..MaxDays]

LEMMA StoreNotificationStep ==
    ASSUME IInv, NEW q \in Requests, storeNotification(q)
    PROVE  IInv'
<1>0. PICK d : d = req[q].date
  OBVIOUS
<1> DEFINE new == [id |-> <<d, announced[d] + 1>>, made |-> day, readAt |-> 0]
<1>1. req[q] \in Request /\ req[q].st = "notify" /\ d \in Days
  BY <1>0 DEF IInv, Shape, storeNotification
<1>2. /\ req' = [req EXCEPT ![q] = Idle] /\ notes' = notes \cup {new}
      /\ announced' = [announced EXCEPT ![d] = announced[d] + 1]
  BY <1>0 DEF storeNotification, Done
<1>3. UNCHANGED <<day, active, challenge, cached, attempts, owed>>
  BY DEF storeNotification, world, daily
<1>4. /\ req' \in [Requests -> Request]
      /\ req'[q] = Idle /\ \A x \in Requests \ {q} : req'[x] = req[x]
      /\ \A x \in Requests : req'[x].st # "idle" => req'[x].date \in Days
  BY <1>2, IdleIsRequest, Moved DEF IInv
<1>5. announced[d] \in Nat /\ announced[d] + 1 \in Nat /\ announced[d] + 1 > announced[d] /\ day \in Days
  BY <1>1 DEF IInv, Shape
<1>6. /\ announced' \in [Days -> Nat] /\ announced'[d] = announced[d] + 1
      /\ \A e \in Days \ {d} : announced'[e] = announced[e]
  BY <1>1, <1>2, <1>5 DEF IInv, Shape
<1>7. /\ new.id \in Days \X Nat /\ new \in Note
      /\ new.id[1] = d /\ new.id[2] = announced[d] + 1 /\ new.readAt = 0
  BY <1>1, <1>5, DayIsNat DEF Note, IInv
<1> HIDE DEF new
<1>8. Shape'
  BY <1>2, <1>3, <1>4, <1>6, <1>7 DEF IInv, Shape, Note
<1>9. Kept' /\ AttemptsAreOfTheDay'
  BY <1>3 DEF IInv, Kept, AttemptsAreOfTheDay
<1>10. Held'
  <2>1. \A x \in Requests : Holds(req[x])
    BY DEF IInv, Held
  <2> QED BY <1>3, <1>4, <2>1, IdleIsRequest DEF Held, Holds, Holding
<1>12. Owed'
  <2>1. \A e \in Days : announced[e] > 0 => announced'[e] > 0
    BY <1>1, <1>5, <1>6
  <2>2. announced'[d] > 0
    BY <1>5, <1>6
  <2>3. \A x \in Requests, e \in Days : Sees(req[x], e) => Sees(req'[x], e) \/ announced'[e] > 0
    BY <1>0, <1>4, <2>2 DEF Sees
  <2> QED BY <1>3, <2>1, <2>3, OwedKept DEF IInv
<1>13. Numbered'
  <2>1. ASSUME NEW n \in notes'
        PROVE  n.readAt <= day /\ n.id[2] <= announced'[n.id[1]]
    <3>1. CASE n = new
      BY <1>3, <1>5, <1>6, <1>7, <3>1, DayIsNat DEF IInv
    <3>2. CASE n \in notes
      <4>1. n.id[1] \in Days /\ n.id[2] \in Nat /\ n.readAt <= day /\ n.id[2] <= announced[n.id[1]]
        BY <3>2 DEF IInv, Shape, Numbered
      <4>2. announced[n.id[1]] \in Nat /\ announced'[n.id[1]] \in Nat
            /\ announced[n.id[1]] <= announced'[n.id[1]]
        BY <1>5, <1>6, <4>1 DEF IInv, Shape
      <4> QED BY <4>1, <4>2
    <3> QED BY <1>2, <3>1, <3>2
  <2>2. ASSUME NEW n \in notes PROVE n.id # new.id
    <3>1. n.id[1] \in Days /\ n.id[2] \in Nat /\ n.id[2] <= announced[n.id[1]]
      BY DEF IInv, Shape, Numbered
    <3> QED BY <1>5, <1>7, <3>1
  <2>3. \A m, n \in notes' : m.id = n.id => m = n
    BY <1>2, <2>2 DEF IInv, Numbered
  <2> QED BY <1>3, <2>1, <2>3 DEF Numbered
<1> QED BY <1>8, <1>9, <1>10, <1>12, <1>13 DEF IInv

(* Reading some of the notifications loses none of them.                   *)
LEMMA Read ==
    ASSUME IInv, NEW T,
           notes' = {IF n \in T THEN [n EXCEPT !.readAt = day] ELSE n : n \in notes},
           UNCHANGED <<day, announced>>
    PROVE  /\ notes' \subseteq Note /\ Numbered'
           /\ \A n \in notes : \E m \in notes' : m.id = n.id /\ m.readAt >= n.readAt
<1> DEFINE f(n) == IF n \in T THEN [n EXCEPT !.readAt = day] ELSE n
<1>1. ASSUME NEW n \in notes
      PROVE  /\ f(n) \in Note /\ f(n).id = n.id /\ n.id \in Days \X Nat
             /\ f(n).readAt >= n.readAt /\ f(n).readAt <= day
  <2>1. n \in Note /\ n.readAt <= day /\ n.readAt \in Nat /\ day \in 0..MaxDays /\ day \in Nat
    BY DayIsNat DEF IInv, Shape, Numbered, Note
  <2>2. CASE n \in T
    BY <2>1, <2>2 DEF Note
  <2>3. CASE n \notin T
    BY <2>1, <2>3 DEF Note
  <2> QED BY <2>2, <2>3
<1>2. notes' = {f(n) : n \in notes}
  OBVIOUS
<1> HIDE DEF f
<1>3. notes' \subseteq Note
  BY <1>1, <1>2
<1>4. \A n \in notes : \E m \in notes' : m.id = n.id /\ m.readAt >= n.readAt
  BY <1>1, <1>2
<1>5. ASSUME NEW m \in notes' PROVE m.readAt <= day' /\ m.id[2] <= announced'[m.id[1]]
  <2>1. PICK n \in notes : m = f(n)
    BY <1>2
  <2>2. n.id[2] <= announced[n.id[1]]
    BY DEF IInv, Numbered
  <2> QED BY <1>1, <2>1, <2>2
<1>6. ASSUME NEW m \in notes', NEW n \in notes', m.id = n.id PROVE m = n
  <2>1. PICK a \in notes : m = f(a)
    BY <1>2
  <2>2. PICK b \in notes : n = f(b)
    BY <1>2
  <2>3. a.id = b.id
    BY <1>1, <1>6, <2>1, <2>2
  <2>4. a = b
    BY <2>3 DEF IInv, Numbered
  <2> QED BY <2>1, <2>2, <2>4
<1> QED BY <1>3, <1>4, <1>5, <1>6 DEF Numbered

LEMMA SaveRead ==
    ASSUME IInv, NEW q \in Requests, saveRead(q)
    PROVE  /\ notes' \subseteq Note /\ Numbered'
           /\ \A n \in notes : \E m \in notes' : m.id = n.id /\ m.readAt >= n.readAt
<1> DEFINE T == {n \in notes : n.id = req[q].note}
<1>1. notes' = {IF n \in T THEN [n EXCEPT !.readAt = day] ELSE n : n \in notes}
  BY DEF saveRead
<1>2. UNCHANGED <<day, announced>>
  BY DEF saveRead, world
<1> HIDE DEF T
<1> QED BY <1>1, <1>2, Read

LEMMA SaveReadStep ==
    ASSUME IInv, NEW q \in Requests, saveRead(q)
    PROVE  IInv'
<1>1. req[q].st = "reading" /\ req' = [req EXCEPT ![q] = Idle]
  BY DEF saveRead, Done
<1>2. UNCHANGED <<day, active, challenge, cached, attempts, owed, announced>>
  BY DEF saveRead, world, daily
<1>3. /\ req' \in [Requests -> Request]
      /\ req'[q] = Idle /\ \A x \in Requests \ {q} : req'[x] = req[x]
      /\ \A x \in Requests : req'[x].st # "idle" => req'[x].date \in Days
  BY <1>1, IdleIsRequest, Moved DEF IInv
<1>4. notes' \subseteq Note /\ Numbered'
  BY SaveRead
<1>5. Shape'
  BY <1>2, <1>3, <1>4 DEF IInv, Shape, Note
<1>6. Kept' /\ AttemptsAreOfTheDay'
  BY <1>2 DEF IInv, Kept, AttemptsAreOfTheDay
<1>7. Held'
  <2>1. \A x \in Requests : Holds(req[x])
    BY DEF IInv, Held
  <2> QED BY <1>2, <1>3, <2>1, IdleIsRequest DEF Held, Holds, Holding
<1>9. Owed'
  <2>1. \A x \in Requests, e \in Days : Sees(req[x], e) => Sees(req'[x], e)
    BY <1>1, <1>3 DEF Sees
  <2> QED BY <1>2, <2>1, OwedKept DEF IInv
<1> QED BY <1>4, <1>5, <1>6, <1>7, <1>9 DEF IInv

(* A step that no request takes, and that changes only notifications.      *)
LEMMA InboxStep ==
    ASSUME IInv, UNCHANGED <<world, daily, announced, req>>, notes' \subseteq Note, Numbered'
    PROVE  IInv'
<1>1. UNCHANGED <<day, active, challenge, cached, attempts, owed, announced, req>>
  BY DEF world, daily
<1>2. Shape'
  BY <1>1 DEF IInv, Shape, Note
<1>3. Kept' /\ AttemptsAreOfTheDay' /\ Held'
  BY <1>1 DEF IInv, Kept, AttemptsAreOfTheDay, Held, Holds, Holding
<1>5. Owed'
  BY <1>1, OwedKept DEF IInv
<1> QED BY <1>2, <1>3, <1>5 DEF IInv

LEMMA MarkAll ==
    ASSUME IInv, markAllAsRead
    PROVE  /\ notes' \subseteq Note /\ Numbered'
           /\ \A n \in notes : \E m \in notes' : m.id = n.id /\ m.readAt >= n.readAt
<1> DEFINE T == {n \in notes : n.readAt = 0}
<1>1. notes' = {IF n \in T THEN [n EXCEPT !.readAt = day] ELSE n : n \in notes}
  BY DEF markAllAsRead
<1>2. UNCHANGED <<day, announced>>
  BY DEF markAllAsRead, world
<1> HIDE DEF T
<1> QED BY <1>1, <1>2, Read

LEMMA MarkAllStep == ASSUME IInv, markAllAsRead PROVE IInv'
BY MarkAll, InboxStep DEF markAllAsRead

LEMMA PurgeStep == ASSUME IInv, purgeOldNotifications PROVE IInv'
<1>1. UNCHANGED <<world, daily, announced, req>> /\ notes' \subseteq notes
  BY DEF purgeOldNotifications
<1>2. notes' \subseteq Note
  BY <1>1 DEF IInv, Shape, Note
<1>3. Numbered'
  BY <1>1 DEF IInv, Numbered, world
<1> QED BY <1>1, <1>2, <1>3, InboxStep

-----------------------------------------------------------------------------
(* The world *)

LEMMA NextDayStep == ASSUME IInv, NextDay PROVE IInv'
<1>1. UNCHANGED <<active, challenge, cached, attempts, owed, notes, announced, req>>
  BY DEF NextDay, daily, inbox
<1>2. day' \in Days /\ day < day' /\ day \in Nat /\ day' \in Nat
  BY DailyAssumption DEF NextDay, IInv, Shape, Days
<1>3. Shape'
  BY <1>1, <1>2 DEF IInv, Shape
<1>4. Kept' /\ AttemptsAreOfTheDay' /\ Held'
  BY <1>1 DEF IInv, Kept, AttemptsAreOfTheDay, Held, Holds, Holding
<1>6. Owed'
  BY <1>1, OwedKept DEF IInv
<1>7. Numbered'
  <2>1. ASSUME NEW n \in notes PROVE n.readAt <= day'
    <3>1. n.readAt \in Nat /\ n.readAt <= day
      BY DEF IInv, Shape, Numbered
    <3> QED BY <1>2, <3>1
  <2> QED BY <1>1, <2>1 DEF IInv, Numbered
<1> QED BY <1>3, <1>4, <1>6, <1>7 DEF IInv

LEMMA SetActiveStep ==
    ASSUME IInv, NEW S \in SUBSET Lyrics, SetActive(S)
    PROVE  IInv'
<1>1. UNCHANGED <<day, challenge, cached, attempts, notes, announced, req>>
  BY DEF SetActive, inbox
<1>2. /\ active' = S
      /\ owed' = [d \in Days |->
           owed[d] /\ S \cap challenge[d] # {} /\ S \cap challenge[d] \subseteq attempts[d]]
  BY DEF SetActive
<1>3. owed' \in [Days -> BOOLEAN]
  BY <1>2
<1>4. Shape'
  BY <1>1, <1>2, <1>3 DEF IInv, Shape
<1>5. Kept' /\ AttemptsAreOfTheDay' /\ Held' /\ Numbered'
  BY <1>1 DEF IInv, Kept, AttemptsAreOfTheDay, Held, Holds, Holding, Numbered
<1>7. Owed'
  <2> SUFFICES ASSUME NEW d \in Days, owed'[d]
               PROVE  /\ Complete(d, attempts[d])'
                      /\ (announced[d] > 0 \/ \E x \in Requests : Sees(req[x], d))
    BY <1>1 DEF Owed, Sees
  <2>1. owed[d] /\ S \cap challenge[d] # {} /\ S \cap challenge[d] \subseteq attempts[d]
    BY <1>2
  <2>2. Complete(d, attempts[d])'
    BY <1>1, <1>2, <2>1 DEF Complete
  <2> QED BY <2>1, <2>2 DEF IInv, Owed
<1> QED BY <1>4, <1>5, <1>7 DEF IInv

LEMMA CrashStep ==
    ASSUME IInv, NEW p \in Processes, Crash(p)
    PROVE  IInv'
<1>1. UNCHANGED <<day, active, challenge, attempts, notes, announced>>
  BY DEF Crash, inbox
<1>2. /\ cached' = [cached EXCEPT ![p] = [date |-> 0, ids |-> {}]]
      /\ req' = [q \in Requests |-> IF req[q].proc = p THEN Idle ELSE req[q]]
      /\ owed' = [d \in Days |->
           owed[d] /\ ~\E q \in Requests : req[q].proc = p /\ req[q].date = d]
  BY DEF Crash
<1>3. ASSUME NEW x \in Requests
      PROVE  /\ req'[x] \in Request /\ (req'[x] = Idle \/ req'[x] = req[x])
             /\ req[x].proc # p => req'[x] = req[x]
  BY <1>2, IdleIsRequest DEF IInv, Shape
<1>4. req' \in [Requests -> Request]
  BY <1>2, IdleIsRequest DEF IInv, Shape
<1>5. \A x \in Requests : req'[x].st # "idle" => req'[x].date \in Days
  BY <1>3, IdleIsRequest DEF IInv, Shape
<1>6. cached' \in [Processes -> [date : 0..MaxDays, ids : SUBSET Lyrics]]
  BY <1>2, DayIsNat DEF IInv, Shape
<1>7. owed' \in [Days -> BOOLEAN]
  BY <1>2
<1>8. Shape'
  BY <1>1, <1>4, <1>5, <1>6, <1>7 DEF IInv, Shape
<1>9. Kept'
  BY <1>1, <1>2 DEF IInv, Shape, Kept
<1>10. AttemptsAreOfTheDay' /\ Numbered'
  BY <1>1 DEF IInv, AttemptsAreOfTheDay, Numbered
<1>11. Held'
  <2>1. \A x \in Requests : Holds(req[x])
    BY DEF IInv, Held
  <2> QED BY <1>1, <1>3, <2>1, IdleIsRequest DEF Held, Holds, Holding
<1>13. Owed'
  <2> SUFFICES ASSUME NEW d \in Days, owed'[d]
               PROVE  /\ Complete(d, attempts[d])
                      /\ (announced[d] > 0 \/ \E x \in Requests : Sees(req'[x], d))
    BY <1>1 DEF Owed, Sees, Complete
  <2>1. owed[d] /\ \A x \in Requests : req[x].proc = p => req[x].date # d
    BY <1>2
  <2>2. \A x \in Requests : Sees(req[x], d) => Sees(req'[x], d)
    BY <1>3, <2>1 DEF Sees
  <2> QED BY <2>1, <2>2 DEF IInv, Owed
<1> QED BY <1>8, <1>9, <1>10, <1>11, <1>13 DEF IInv

LEMMA DailyInit == Init => IInv
<1> SUFFICES ASSUME Init PROVE IInv
  OBVIOUS
<1>3. \A q \in Requests : req[q] = Idle
  BY DEF Init
<1>4. Shape
  <2>1. day \in Days /\ active \subseteq Lyrics
    BY DailyAssumption DEF Init, Days
  <2>2. req \in [Requests -> Request] /\ \A q \in Requests : req[q].st # "idle" => req[q].date \in Days
    BY IdleIsRequest DEF Init
  <2>3. /\ challenge \in [Days -> SUBSET Lyrics] /\ attempts \in [Days -> SUBSET Lyrics]
        /\ owed \in [Days -> BOOLEAN] /\ announced \in [Days -> Nat] /\ notes = {}
    BY DEF Init
  <2>4. cached \in [Processes -> [date : 0..MaxDays, ids : SUBSET Lyrics]]
    BY DailyAssumption DEF Init
  <2> QED BY <2>1, <2>2, <2>3, <2>4 DEF Shape
<1>5. Kept /\ AttemptsAreOfTheDay /\ Numbered
  BY DEF Init, Kept, AttemptsAreOfTheDay, Numbered
<1>6. Held /\ Owed
  BY <1>3, IdleIsRequest DEF Init, Held, Holds, Holding, Owed
<1> QED BY <1>4, <1>5, <1>6 DEF IInv

LEMMA DailyStep == IInv /\ [Next]_vars => IInv'
<1> SUFFICES ASSUME IInv, [Next]_vars PROVE IInv'
  OBVIOUS
<1>1. ASSUME NEW q \in Requests, Serve(q) PROVE IInv'
  BY <1>1, GuessStep, MarkStep DEF Serve
<1>2. ASSUME NEW q \in Requests, Continue(q) PROVE IInv'
  BY <1>2, LookupStep, PoolStep, StoreStep, CheckStep, AttemptStep, AwardStep,
     CountStep, AnswerStep, StoreNotificationStep, SaveReadStep DEF Continue
<1>3. ASSUME NEW l \in Lyrics, takeDown(l) \/ restore(l) PROVE IInv'
  <2>1. active \ {l} \in SUBSET Lyrics /\ active \cup {l} \in SUBSET Lyrics
    BY DEF IInv, Shape
  <2> QED BY <1>3, <2>1, SetActiveStep DEF takeDown, restore
<1>4. CASE UNCHANGED vars
  <2>1. UNCHANGED <<world, daily, announced, req>> /\ UNCHANGED <<notes, day>>
    BY <1>4 DEF vars, inbox, world
  <2>2. notes' \subseteq Note /\ Numbered'
    BY <2>1 DEF IInv, Shape, Note, Numbered
  <2> QED BY <2>1, <2>2, InboxStep
<1> QED BY <1>1, <1>2, <1>3, <1>4, MarkAllStep, PurgeStep, NextDayStep, CrashStep DEF Next

LEMMA DailyInductive == Spec => []IInv
BY DailyInit, DailyStep, PTL DEF Spec

-----------------------------------------------------------------------------
(* Theorems *)

(* getDaily: every instance and every request serve the stored lyrics of   *)
(* the day, whichever of the requests that chose a set at once was first.  *)
THEOREM SharedSet == Spec => []DailySetShared
<1>1. IInv => DailySetShared
  BY DEF IInv, Kept, Held, Holds, Holding, DailySetShared
<1> QED BY <1>1, DailyInductive, PTL

(* guess: an attempt is stored under the day whose lyrics it answers, also *)
(* when midnight passes between the check and the insert.                  *)
THEOREM AttemptsDated == Spec => []AttemptsAreOfTheDay
<1>1. IInv => AttemptsAreOfTheDay
  BY DEF IInv
<1> QED BY <1>1, DailyInductive, PTL

(* The player whose attempt completed the day is notified by the time the  *)
(* day's requests are over.                                                *)
THEOREM CompletionsNotified == Spec => []CompletionNotified
<1>1. IInv => CompletionNotified
  <2> SUFFICES ASSUME IInv, NEW d \in Days, owed[d],
                      \A q \in Requests : req[q] = Idle \/ req[q].date # d
               PROVE  announced[d] > 0
    BY DEF CompletionNotified
  <2>1. \A q \in Requests : ~Sees(req[q], d)
    BY IdleIsRequest DEF Sees
  <2> QED BY <2>1 DEF IInv, Owed
<1> QED BY <1>1, DailyInductive, PTL

(* purgeOldNotifications, markAsRead and markAllAsRead: no step deletes an *)
(* unread notification or makes one that was read unread.                  *)
THEOREM UnreadStays == Spec => UnreadKept
<1> DEFINE A == \A n \in notes :
      \/ n \in notes'
      \/ \E m \in notes' : m.id = n.id /\ m.readAt >= n.readAt
      \/ n.readAt # 0 /\ \A m \in notes' : m.id # n.id
<1>1. ASSUME IInv, [Next]_vars PROVE A
  <2>1. ASSUME NEW q \in Requests, Serve(q) PROVE A
    BY <2>1 DEF Serve, guess, markAsRead, inbox
  <2>2. ASSUME NEW q \in Requests, Continue(q) PROVE A
    <3>1. CASE storeNotification(q)
      BY <3>1 DEF storeNotification
    <3>2. CASE saveRead(q)
      BY <1>1, <3>2, SaveRead
    <3>3. CASE ~storeNotification(q) /\ ~saveRead(q)
      <4>1. notes' = notes
        BY <2>2, <3>3 DEF Continue, lookup, pool, store, check, attempt, insertAttempt, award,
           count, answer, inbox
      <4> QED BY <4>1
    <3> QED BY <3>1, <3>2, <3>3
  <2>3. CASE markAllAsRead
    BY <1>1, <2>3, MarkAll
  <2>4. CASE purgeOldNotifications
    <3>1. \A m, n \in notes : m.id = n.id => m = n
      BY <1>1 DEF IInv, Numbered
    <3> QED BY <2>4, <3>1 DEF purgeOldNotifications, Old
  <2>5. CASE NextDay \/ (\E l \in Lyrics : takeDown(l) \/ restore(l)) \/ (\E p \in Processes : Crash(p))
    <3>1. notes' = notes
      BY <2>5 DEF NextDay, takeDown, restore, SetActive, Crash, inbox
    <3> QED BY <3>1
  <2>6. CASE UNCHANGED vars
    BY <2>6 DEF vars, inbox
  <2> QED BY <1>1, <2>1, <2>2, <2>3, <2>4, <2>5, <2>6 DEF Next
<1>2. IInv /\ [Next]_vars => [A]_vars
  BY <1>1
<1> QED BY <1>2, DailyInductive, PTL DEF Spec, UnreadKept
=============================================================================
