---------------------------- MODULE RoundsProofs ----------------------------
(***************************************************************************)
(* A round is scored at most once and an announced round never takes a     *)
(* guess, for any number of rounds, requests and sockets and any limits.   *)
(*                                                                         *)
(* Neither is inductive: between the update that closes a round and the    *)
(* result there is nothing in scored, so the invariant says that the guess *)
(* that closed the round is the only one on its way (Sole), that the round *)
(* is closed and has no result yet (Claimed), and that no round is issued  *)
(* again once its row is pruned (Known).  That guessed rounds are kept     *)
(* needs more, about time and the job: see RInv.                           *)
(***************************************************************************)
EXTENDS Rounds, TLAPS

Ids == RoundIds \cup {NoRound}
Row == [issuedAt : Nat, closedAt : Nat \cup {Never}, hintsUsed : Nat]
Request ==
    [pc : {"idle", "serve", "expire", "close", "score"}, round : Ids,
     snap : Row \cup {NoRound}, now : Nat, socket : Sockets \cup {"none"}]

Shape ==
    /\ clock \in Nat /\ issued \subseteq RoundIds
    /\ rounds \in [RoundIds -> Row \cup {NoRound}]
    /\ scored = [r \in RoundIds |-> scored[r]]
    /\ ended \in [RoundIds -> SUBSET {"scored", "expired"}]
    /\ session \in [Sockets -> [state : {"new", "on", "off"}, currentRoundId : Ids]]
    /\ req \in [Slots -> Request]

(* Rows and requests are about rounds that have been issued. *)
Known ==
    /\ \A r \in RoundIds : Exists(r) => r \in issued
    /\ \A x \in Slots : req[x].pc # "idle" => req[x].round \in issued

Settled == \A r \in RoundIds :
    scored[r] # <<>> => Len(scored[r]) = 1 /\ r \in issued /\ ~Open(r)

Scoring(x) == req[x].pc = "score"

Claimed == \A x \in Slots :
    Scoring(x) => scored[req[x].round] = <<>> /\ ~Open(req[x].round)

Sole == \A x, y \in Slots :
    Scoring(x) /\ Scoring(y) /\ req[x].round = req[y].round => x = y

Announced == \A r \in RoundIds : ended[r] # {} => r \in issued /\ ~Open(r)

IInv == Shape /\ Known /\ Settled /\ Claimed /\ Sole /\ Announced

-----------------------------------------------------------------------------
(* A step that returns, announces and claims nothing, and opens no round   *)
(* issued before, keeps the invariant.                                     *)
LEMMA QuietStep ==
    ASSUME IInv, Shape', Known', issued \subseteq issued',
           UNCHANGED <<scored, ended>>,
           \A r \in RoundIds : r \in issued /\ Open(r)' => Open(r),
           \A x \in Slots : Scoring(x)' => req'[x] = req[x]
    PROVE  IInv'
<1>1. Settled'
  BY DEF IInv, Settled
<1>2. Announced'
  BY DEF IInv, Announced
<1>3. \A x \in Slots : Scoring(x)' => Scoring(x) /\ req'[x].round = req[x].round
  BY DEF Scoring
<1>4. \A x \in Slots : Scoring(x) => req[x].round \in issued /\ req[x].round \in RoundIds
  BY DEF IInv, Shape, Known, Scoring
<1>5. Claimed'
  BY <1>3, <1>4 DEF IInv, Claimed
<1>6. Sole'
  BY <1>3 DEF IInv, Sole
<1> QED BY <1>1, <1>2, <1>5, <1>6 DEF IInv

LEMMA InitHolds == Init => IInv
<1> SUFFICES ASSUME Init PROVE IInv
  OBVIOUS
<1>1. Idle \in Request
  BY DEF Idle, Request, Ids
<1>2. Unconnected \in [state : {"new", "on", "off"}, currentRoundId : Ids]
  BY DEF Unconnected, Ids
<1>3. Shape
  BY <1>1, <1>2 DEF Init, Shape
<1>4. Known /\ Settled /\ Claimed /\ Sole /\ Announced
  BY DEF Init, Known, Settled, Claimed, Sole, Announced, Scoring, Exists, Idle
<1> QED BY <1>3, <1>4 DEF IInv

(* Becoming idle is a quiet change of a request. *)
LEMMA DoneIsQuiet ==
    ASSUME IInv, NEW x \in Slots, Done(x)
    PROVE  /\ req' \in [Slots -> Request]
           /\ \A y \in Slots : req'[y] = req[y] \/ req'[y].pc = "idle"
           /\ \A y \in Slots : Scoring(y)' => req'[y] = req[y] /\ y # x
<1>1. Idle \in Request /\ Idle.pc = "idle"
  BY DEF Idle, Request, Ids
<1>2. req \in [Slots -> Request]
  BY DEF IInv, Shape
<1> QED BY <1>1, <1>2 DEF Done, Scoring

LEMMA BeginIsQuiet ==
    ASSUME IInv, NEW x \in Slots, NEW pc \in {"serve", "expire", "close"}, NEW r \in RoundIds,
           NEW snap \in Row \cup {NoRound}, NEW socket \in Sockets \cup {"none"},
           Begin(x, pc, r, snap, socket)
    PROVE  /\ req' \in [Slots -> Request]
           /\ req'[x].round = r
           /\ \A y \in Slots : y # x => req'[y] = req[y]
           /\ \A y \in Slots : Scoring(y)' => req'[y] = req[y]
<1> DEFINE new == [pc |-> pc, round |-> r, snap |-> snap, now |-> clock, socket |-> socket]
<1>1. new \in Request /\ new.pc = pc /\ new.round = r
  BY DEF Request, Ids, IInv, Shape
<1>2. req \in [Slots -> Request] /\ req' = [req EXCEPT ![x] = new]
  BY DEF IInv, Shape, Begin
<1> HIDE DEF new
<1>3. req' \in [Slots -> Request] /\ req'[x] = new /\ \A y \in Slots : y # x => req'[y] = req[y]
  BY <1>1, <1>2
<1>4. \A y \in Slots : Scoring(y)' => req'[y] = req[y]
  BY <1>1, <1>3 DEF Scoring
<1> QED BY <1>1, <1>3, <1>4

(* A new round's row. *)
LEMMA IssueIsQuiet ==
    ASSUME IInv, NEW r \in RoundIds, issueRound(r)
    PROVE  /\ issued' \subseteq RoundIds /\ issued \subseteq issued' /\ r \in issued'
           /\ rounds' \in [RoundIds -> Row \cup {NoRound}]
           /\ \A q \in RoundIds : Exists(q)' => q \in issued'
           /\ \A q \in RoundIds : q \in issued /\ Open(q)' => Open(q)
<1> DEFINE row == [issuedAt |-> clock, closedAt |-> Never, hintsUsed |-> 0]
<1>1. row \in Row
  BY DEF Row, IInv, Shape
<1>2. rounds \in [RoundIds -> Row \cup {NoRound}] /\ rounds' = [rounds EXCEPT ![r] = row]
  BY DEF IInv, Shape, issueRound
<1> HIDE DEF row
<1>3. \A q \in RoundIds : q # r => rounds'[q] = rounds[q]
  BY <1>2
<1>4. r \notin issued /\ issued' = issued \cup {r}
  BY DEF issueRound
<1>5. rounds' \in [RoundIds -> Row \cup {NoRound}]
  BY <1>1, <1>2
<1>6. \A q \in RoundIds : Exists(q)' => q \in issued'
  BY <1>3, <1>4 DEF Exists, IInv, Known
<1>7. \A q \in RoundIds : q \in issued /\ Open(q)' => Open(q)
  BY <1>3, <1>4 DEF Open, Exists
<1> QED BY <1>4, <1>5, <1>6, <1>7 DEF IInv, Shape

(* Only the guess that closes a round claims its result. *)
LEMMA CloseStep ==
    ASSUME IInv, NEW x \in Slots, GuessClose(x)
    PROVE  IInv'
<1>0. PICK r : r = req[x].round
  OBVIOUS
<1> DEFINE claim == [req EXCEPT ![x].pc = "score"]
<1>1. r \in issued /\ r \in RoundIds /\ req[x] \in Request /\ req[x].now \in Nat
  BY <1>0 DEF IInv, Shape, Known, Request, GuessClose
<1>2. CASE Closable(r)
  <2>1. Close(x) /\ req' = claim /\ UNCHANGED <<clock, issued, scored, ended, session>>
    BY <1>0, <1>2 DEF GuessClose
  <2>2. rounds[r] \in Row \cup {NoRound} /\ rounds[r] # NoRound /\ Open(r)
    BY <1>1, <1>2 DEF Closable, Open, Exists, IInv, Shape
  <2> DEFINE row == [rounds[r] EXCEPT !.closedAt = req[x].now]
  <2>3. row \in Row /\ row.closedAt # Never
    BY <1>1, <2>2 DEF Row, Never
  <2>4. rounds' = [rounds EXCEPT ![r] = row]
    BY <1>0, <2>1 DEF Close
  <2> HIDE DEF row
  <2>5. /\ rounds' \in [RoundIds -> Row \cup {NoRound}]
        /\ rounds'[r] = row
        /\ \A q \in RoundIds : q # r => rounds'[q] = rounds[q]
    BY <1>1, <2>3, <2>4 DEF IInv, Shape
  <2>6. ~Open(r)' /\ \A q \in RoundIds : Open(q)' => Open(q)
    BY <1>1, <2>3, <2>5 DEF Open, Exists
  <2>7. req' \in [Slots -> Request] /\ \A y \in Slots : y # x => req'[y] = req[y]
    BY <1>1, <2>1 DEF IInv, Shape, Request
  <2>8. req'[x].round = r
    BY <1>0, <1>1, <2>1 DEF IInv, Shape, Request
  <2> HIDE DEF claim
  <2>9. Shape'
    BY <2>1, <2>5, <2>7 DEF IInv, Shape
  <2>10. Known'
    BY <1>1, <2>1, <2>2, <2>5, <2>7, <2>8 DEF IInv, Known, Exists
  <2>11. Settled' /\ Announced'
    BY <2>1, <2>6 DEF IInv, Settled, Announced
  <2>12. scored[r] = <<>> /\ \A y \in Slots : Scoring(y) => req[y].round # r
    BY <1>1, <2>2 DEF IInv, Settled, Claimed
  <2>13. \A y \in Slots : y # x /\ Scoring(y)' => Scoring(y)
    BY <2>7 DEF Scoring
  <2>14. \A y \in Slots : Scoring(y) => req[y].round \in RoundIds
    BY DEF IInv, Shape, Known, Scoring
  <2>15. Claimed'
    BY <2>1, <2>6, <2>7, <2>8, <2>12, <2>13, <2>14 DEF IInv, Claimed
  <2>16. Sole'
    BY <2>7, <2>8, <2>12, <2>13 DEF IInv, Sole
  <2> QED BY <2>9, <2>10, <2>11, <2>15, <2>16 DEF IInv
<1>3. CASE ~Closable(r)
  <2>1. Done(x) /\ UNCHANGED <<clock, rounds, issued, scored, ended, session>>
    BY <1>0, <1>3 DEF GuessClose
  <2>2. Shape'
    BY <2>1, DoneIsQuiet DEF IInv, Shape
  <2>3. Known'
    BY <2>1, DoneIsQuiet DEF IInv, Known, Exists
  <2> QED BY <2>1, <2>2, <2>3, DoneIsQuiet, QuietStep DEF Open, Exists
<1> QED BY <1>2, <1>3

(* An expired round is closed, by this update or an earlier one, before    *)
(* it is announced.                                                        *)
LEMMA ExpireStep ==
    ASSUME IInv, NEW x \in Slots, GuessExpire(x)
    PROVE  IInv'
<1>0. PICK r : r = req[x].round
  OBVIOUS
<1> DEFINE row == [rounds[r] EXCEPT !.closedAt = req[x].now]
<1>1. r \in issued /\ r \in RoundIds /\ req[x].now \in Nat
  BY <1>0 DEF IInv, Shape, Known, Request, GuessExpire
<1>2. rounds' \in [RoundIds -> Row \cup {NoRound}] /\ ~Open(r)'
      /\ \A q \in RoundIds : q # r => rounds'[q] = rounds[q]
  <2>1. CASE Closable(r)
    <3>1. rounds[r] \in Row
      BY <1>1, <2>1 DEF Closable, Open, Exists, IInv, Shape
    <3>2. row \in Row /\ row.closedAt # Never
      BY <1>1, <3>1 DEF Row, Never
    <3>3. rounds' = [rounds EXCEPT ![r] = row]
      BY <1>0, <2>1 DEF GuessExpire, Close
    <3> HIDE DEF row
    <3> QED BY <1>1, <3>2, <3>3 DEF IInv, Shape, Open, Exists
  <2>2. CASE ~Closable(r)
    BY <1>0, <2>2 DEF GuessExpire, Closable, Open, Exists, IInv, Shape
  <2> QED BY <2>1, <2>2
<1>3. /\ UNCHANGED <<clock, issued, scored, session>> /\ Done(x)
      /\ ended' = [ended EXCEPT ![r] = @ \cup {"expired"}]
  BY <1>0 DEF GuessExpire, emitRoundEnded
<1> HIDE DEF row
<1>4. \A q \in RoundIds : Open(q)' => Open(q)
  BY <1>2 DEF Open, Exists
<1>5. Shape'
  BY <1>1, <1>2, <1>3, DoneIsQuiet DEF IInv, Shape
<1>6. Known'
  <2>1. \A q \in RoundIds : Exists(q)' => q \in issued'
    BY <1>1, <1>2, <1>3 DEF IInv, Known, Exists
  <2> QED BY <2>1, <1>3, DoneIsQuiet DEF IInv, Known
<1>7. Settled'
  BY <1>3, <1>4 DEF IInv, Settled
<1>8. Announced'
  BY <1>1, <1>2, <1>3, <1>4 DEF IInv, Announced, Shape
<1>9. \A y \in Slots : Scoring(y)' => Scoring(y) /\ req'[y] = req[y]
  BY <1>3, DoneIsQuiet DEF Scoring
<1>10. \A y \in Slots : Scoring(y) => req[y].round \in RoundIds
  BY DEF IInv, Shape, Known, Scoring
<1>11. Claimed' /\ Sole'
  BY <1>3, <1>4, <1>9, <1>10 DEF IInv, Claimed, Sole
<1> QED BY <1>5, <1>6, <1>7, <1>8, <1>11 DEF IInv

(* The one guess on its way to a result returns it. *)
LEMMA ScoreStep ==
    ASSUME IInv, NEW x \in Slots, GuessScore(x)
    PROVE  IInv'
<1>0. PICK r : r = req[x].round
  OBVIOUS
<1>1. r \in issued /\ r \in RoundIds /\ Scoring(x)
  BY <1>0 DEF IInv, Shape, Known, Scoring, GuessScore
<1>2. /\ UNCHANGED <<clock, rounds, issued, session>> /\ Done(x)
      /\ ended' = [ended EXCEPT ![r] = @ \cup {"scored"}]
  BY <1>0 DEF GuessScore, emitRoundEnded
<1>3. PICK result : scored' = [scored EXCEPT ![r] = Append(scored[r], result)]
  BY <1>0 DEF GuessScore
<1>4. scored[r] = <<>> /\ ~Open(r)
  BY <1>0, <1>1 DEF IInv, Claimed
<1>5. Len(Append(<<>>, result)) = 1
  <2>1. <<>> \in Seq({result}) /\ result \in {result}
    OBVIOUS
  <2> QED BY <2>1
<1>6. /\ scored' = [q \in RoundIds |-> scored'[q]]
      /\ Len(scored'[r]) = 1
      /\ \A q \in RoundIds : q # r => scored'[q] = scored[q]
  <2>1. scored = [q \in RoundIds |-> scored[q]]
    BY DEF IInv, Shape
  <2> QED BY <1>1, <1>3, <1>4, <1>5, <2>1
<1>7. \A q \in RoundIds : (Open(q)' <=> Open(q)) /\ (Exists(q)' <=> Exists(q))
  BY <1>2 DEF Open, Exists
<1>8. Shape'
  BY <1>1, <1>2, <1>6, DoneIsQuiet DEF IInv, Shape
<1>9. Known'
  BY <1>2, <1>7, DoneIsQuiet DEF IInv, Known
<1>10. Settled'
  BY <1>1, <1>2, <1>4, <1>6, <1>7 DEF IInv, Settled
<1>11. Announced'
  BY <1>1, <1>2, <1>4, <1>7 DEF IInv, Announced, Shape
<1>12. \A y \in Slots : Scoring(y)' =>
          Scoring(y) /\ req'[y] = req[y] /\ req[y].round \in RoundIds /\ req[y].round # r
  BY <1>0, <1>1, <1>2, DoneIsQuiet DEF IInv, Shape, Known, Sole, Scoring
<1>13. Claimed' /\ Sole'
  BY <1>6, <1>7, <1>12 DEF IInv, Claimed, Sole
<1> QED BY <1>8, <1>9, <1>10, <1>11, <1>13 DEF IInv

(* The retention job only removes rows. *)
LEMMA PruneStep ==
    ASSUME IInv, NEW gone \in SUBSET RoundIds, rounds' = Without(gone),
           UNCHANGED <<clock, issued, scored, ended, session, req>>
    PROVE  IInv'
<1>1. \A q \in RoundIds : rounds'[q] = NoRound \/ rounds'[q] = rounds[q]
  BY DEF Without
<1>2. Shape'
  BY DEF IInv, Shape, Without
<1>3. Known'
  BY <1>1 DEF IInv, Known, Exists
<1>4. \A q \in RoundIds : Open(q)' => Open(q)
  BY <1>1 DEF Open, Exists
<1> QED BY <1>2, <1>3, <1>4, QuietStep DEF Scoring

(* A hint changes no round's being open. *)
LEMMA HintStep ==
    ASSUME IInv, NEW r \in RoundIds, UseHint(r)
    PROVE  IInv'
<1> DEFINE row == [rounds[r] EXCEPT !.hintsUsed = @ + 1]
<1>1. rounds[r] \in Row /\ Exists(r)
  BY DEF UseHint, Open, Exists, IInv, Shape
<1>2. row \in Row /\ row.closedAt = rounds[r].closedAt
  BY <1>1 DEF Row
<1>3. rounds' = [rounds EXCEPT ![r] = row]
      /\ UNCHANGED <<clock, issued, scored, ended, session, req>>
  BY DEF UseHint
<1> HIDE DEF row
<1>4. /\ rounds' \in [RoundIds -> Row \cup {NoRound}]
      /\ rounds'[r] = row
      /\ \A q \in RoundIds : q # r => rounds'[q] = rounds[q]
  BY <1>2, <1>3 DEF IInv, Shape
<1>5. \A q \in RoundIds : (Exists(q)' => Exists(q)) /\ (Open(q)' => Open(q))
  BY <1>1, <1>2, <1>4 DEF Open, Exists
<1>6. Shape' /\ Known'
  BY <1>3, <1>4, <1>5 DEF IInv, Shape, Known
<1> QED BY <1>3, <1>5, <1>6, QuietStep DEF Scoring

(* A step that changes none of the invariant's variables but the clock. *)
LEMMA IdleStep ==
    ASSUME IInv, UNCHANGED <<rounds, issued, scored, ended, session, req>>, clock' \in Nat
    PROVE  IInv'
<1>1. Shape' /\ Known'
  BY DEF IInv, Shape, Known, Exists
<1> QED BY <1>1, QuietStep DEF Open, Exists, Scoring

(* A step of the sockets. *)
LEMMA SocketStep ==
    ASSUME IInv, NEW s \in Sockets, Connect(s) \/ Disconnect(s)
    PROVE  IInv'
<1>1. session' \in [Sockets -> [state : {"new", "on", "off"}, currentRoundId : Ids]]
  BY DEF IInv, Shape, Connect, Disconnect, Connected, Disconnected, Ids
<1>2. UNCHANGED <<clock, rounds, issued, scored, ended, req>>
  BY DEF Connect, Disconnect
<1>3. Shape' /\ Known'
  BY <1>1, <1>2 DEF IInv, Shape, Known, Exists
<1> QED BY <1>2, <1>3, QuietStep DEF Open, Exists, Scoring

(* A guess has been read: nothing but the request changes. *)
LEMMA GuessStep ==
    ASSUME IInv, NEW x \in Slots, NEW r \in RoundIds, guessRound(x, r),
           session' \in [Sockets -> [state : {"new", "on", "off"}, currentRoundId : Ids]],
           UNCHANGED <<clock, rounds, issued, scored, ended>>
    PROVE  IInv'
<1>1. PICK pc \in {"serve", "expire", "close"} : Begin(x, pc, r, rounds[r], "none")
  BY DEF guessRound
<1>2. rounds[r] \in Row \cup {NoRound} /\ "none" \in Sockets \cup {"none"} /\ r \in issued
  BY DEF IInv, Shape, Known, guessRound, Open
<1>3. Shape'
  BY <1>1, <1>2, BeginIsQuiet DEF IInv, Shape
<1>4. Known'
  BY <1>1, <1>2, BeginIsQuiet DEF IInv, Known, Exists
<1>5. \A y \in Slots : Scoring(y)' => req'[y] = req[y]
  BY <1>1, <1>2, BeginIsQuiet
<1> QED BY <1>3, <1>4, <1>5, QuietStep DEF Open, Exists

LEMMA NextHolds == IInv /\ [Next]_vars => IInv'
<1> SUFFICES ASSUME IInv, [Next]_vars PROVE IInv'
  OBVIOUS
<1>1. ASSUME NEW r \in RoundIds, ServeLyric(r) PROVE IInv'
  <2>1. issueRound(r) /\ UNCHANGED <<clock, scored, ended, session, req>>
    BY <1>1 DEF ServeLyric
  <2>2. Shape' /\ Known'
    BY <2>1, IssueIsQuiet DEF IInv, Shape, Known
  <2> QED BY <2>1, <2>2, IssueIsQuiet, QuietStep DEF Scoring
<1>2. ASSUME NEW r \in RoundIds, RecordHistory(r) PROVE IInv'
  BY <1>2, IdleStep DEF RecordHistory, IInv, Shape
<1>3. ASSUME NEW x \in Slots, NEW s \in Sockets, NEW r \in RoundIds, RequestLyric(x, s, r)
      PROVE IInv'
  <2>1. issueRound(r) /\ Begin(x, "serve", r, NoRound, s)
        /\ UNCHANGED <<clock, scored, ended, session>>
    BY <1>3 DEF RequestLyric
  <2>2. NoRound \in Row \cup {NoRound} /\ s \in Sockets \cup {"none"}
    OBVIOUS
  <2>3. Shape'
    BY <2>1, <2>2, IssueIsQuiet, BeginIsQuiet DEF IInv, Shape
  <2>4. Known'
    BY <2>1, <2>2, IssueIsQuiet, BeginIsQuiet DEF IInv, Known
  <2>5. \A y \in Slots : Scoring(y)' => req'[y] = req[y]
    BY <2>1, <2>2, BeginIsQuiet
  <2> QED BY <2>1, <2>3, <2>4, <2>5, IssueIsQuiet, QuietStep
<1>4. ASSUME NEW x \in Slots, RequestLyricServed(x) PROVE IInv'
  <2>1. Done(x) /\ UNCHANGED <<clock, rounds, issued, scored, ended>>
    BY <1>4 DEF RequestLyricServed
  <2>2. req[x].round \in Ids /\ req[x].socket \in Sockets \cup {"none"}
    BY DEF IInv, Shape, Request
  <2>3. session' \in [Sockets -> [state : {"new", "on", "off"}, currentRoundId : Ids]]
    BY <1>4, <2>2 DEF IInv, Shape, RequestLyricServed
  <2>4. Shape' /\ Known'
    BY <2>1, <2>3, DoneIsQuiet DEF IInv, Shape, Known, Exists
  <2> QED BY <2>1, <2>4, DoneIsQuiet, QuietStep DEF Open, Exists
<1>5. ASSUME NEW x \in Slots, NEW r \in RoundIds, CheckGuess(x, r) PROVE IInv'
  BY <1>5, GuessStep DEF CheckGuess, IInv, Shape
<1>6. ASSUME NEW x \in Slots, NEW s \in Sockets, SubmitGuess(x, s) PROVE IInv'
  <2> DEFINE r == session[s].currentRoundId
  <2>1. r \in RoundIds
    BY <1>6 DEF SubmitGuess, IInv, Shape, Ids
  <2>2. session' \in [Sockets -> [state : {"new", "on", "off"}, currentRoundId : Ids]]
        /\ UNCHANGED <<clock, rounds, issued, scored, ended>>
    BY <1>6 DEF SubmitGuess, IInv, Shape, Ids
  <2>3. CASE guessRound(x, r)
    BY <2>1, <2>2, <2>3, GuessStep
  <2>4. CASE UNCHANGED req
    <3>1. Shape' /\ Known'
      BY <2>2, <2>4 DEF IInv, Shape, Known, Exists
    <3> QED BY <2>2, <2>4, <3>1, QuietStep DEF Open, Exists, Scoring
  <2> QED BY <1>6, <2>3, <2>4 DEF SubmitGuess
<1>7. ASSUME NEW x \in Slots, GuessFails(x) PROVE IInv'
  <2>1. Done(x) /\ UNCHANGED <<clock, rounds, issued, scored, ended, session>>
    BY <1>7 DEF GuessFails
  <2>2. Shape' /\ Known'
    BY <2>1, DoneIsQuiet DEF IInv, Shape, Known, Exists
  <2> QED BY <2>1, <2>2, DoneIsQuiet, QuietStep DEF Open, Exists
<1>8. CASE PruneStart \/ PruneFails
  BY <1>8, IdleStep DEF PruneStart, PruneFails, IInv, Shape
<1>9. CASE PruneUnguessed
  BY <1>9, PruneStep DEF PruneUnguessed
<1>10. CASE PruneArchive
  BY <1>10, PruneStep DEF PruneArchive
<1>11. CASE PruneDelete
  BY <1>11, PruneStep DEF PruneDelete
<1>12. CASE Tick
  BY <1>12, IdleStep DEF Tick, IInv, Shape
<1>13. CASE UNCHANGED vars
  BY <1>13, IdleStep DEF vars, IInv, Shape
<1> QED
  BY <1>1, <1>2, <1>3, <1>4, <1>5, <1>6, <1>7, <1>8, <1>9, <1>10, <1>11, <1>12, <1>13,
     CloseStep, ExpireStep, ScoreStep, HintStep, SocketStep DEF Next

-----------------------------------------------------------------------------
(* guessRound's conditional update is enough: whatever requests overlap,   *)
(* over HTTP and sockets, and whenever the retention job runs, at most one *)
(* guess at a round is ever scored.                                        *)
THEOREM ScoredAtMostOnce == Spec => []ScoredOnce
<1>1. IInv => ScoredOnce
  <2> SUFFICES ASSUME IInv, NEW r \in RoundIds PROVE Len(scored[r]) =< 1
    BY DEF ScoredOnce
  <2>1. CASE scored[r] = <<>>
    BY <2>1
  <2>2. CASE scored[r] # <<>>
    <3>1. Len(scored[r]) = 1
      BY <2>2 DEF IInv, Settled
    <3> QED BY <3>1
  <2> QED BY <2>1, <2>2
<1> QED BY <1>1, InitHolds, NextHolds, PTL DEF Spec

(* emitRoundEnded is reached only with the round closed: no announced      *)
(* round can take a guess.                                                 *)
THEOREM AnnouncedRoundsStayClosed == Spec => []AnnouncedIsClosed
<1>1. IInv => AnnouncedIsClosed
  BY DEF IInv, Announced, AnnouncedIsClosed
<1> QED BY <1>1, InitHolds, NextHolds, PTL DEF Spec

-----------------------------------------------------------------------------
(* Guessed rounds and the retention job.                                   *)
(*                                                                         *)
(* A guess may close a round, and be scored, between two of the job's      *)
(* statements.  PruneDelete trusts that a closed round it finds old enough *)
(* was already there for PruneArchive to move; Spared says so, and rests   *)
(* on Timely: a round closed since the job began was closed by a request   *)
(* younger than the retention.                                             *)

In(r) == Exists(r) \/ r \in archive \/ r \in history

Kept ==
    /\ \A r \in RoundIds : scored[r] # <<>> => In(r)
    /\ \A x \in Slots : Scoring(x) => In(req[x].round)

Jobs == [pc : {"idle", "unguessed", "archive", "delete"}, now : Nat]

Timely ==
    /\ job \in Jobs /\ job.now =< clock
    /\ \A x \in Slots : req[x] # Idle => clock - req[x].now =< MaxDelay

Overdue(r) == OlderThan(r, Retention) /\ ~Open(r) /\ rounds[r].closedAt < job.now - Retention

Spared == job.pc = "delete" => \A r \in RoundIds : Overdue(r) => r \in history

RInv == Kept /\ Timely /\ Spared

LEMMA Numbers ==
    MaxDelay \in Nat /\ Retention \in Nat /\ MaxDelay < Retention /\ NoRound \notin RoundIds
BY RoundsAssumption

(* A step of a request or of the player: rows are written, never removed,  *)
(* and a row it closes is closed as of a time no longer ago than MaxDelay. *)
LEMMA ServingStep ==
    ASSUME IInv, RInv, Shape', UNCHANGED <<clock, job>>,
           archive \subseteq archive', history \subseteq history',
           \A r \in RoundIds :
              \/ rounds'[r] = rounds[r]
              \/ Exists(r)' /\ (Open(r)' \/ clock - rounds'[r].closedAt =< MaxDelay),
           \A r \in RoundIds : scored'[r] # <<>> => scored[r] # <<>> \/ In(r),
           \A x \in Slots :
              \/ req'[x] = req[x] \/ req'[x] = Idle
              \/ req'[x].now = clock /\ req'[x].pc # "score"
              \/ /\ req[x] # Idle /\ req'[x].now = req[x].now
                 /\ req'[x].round \in RoundIds /\ Exists(req'[x].round)
    PROVE  RInv'
<1>1. clock \in Nat /\ job \in Jobs /\ job.now \in Nat /\ job.now =< clock
  BY DEF IInv, Shape, RInv, Timely, Jobs
<1>2. ASSUME NEW r \in RoundIds, In(r) PROVE In(r)'
  BY <1>2 DEF In, Exists
<1>3. Idle.pc = "idle"
  BY DEF Idle
<1>4. ASSUME NEW x \in Slots, Scoring(x)' PROVE In(req[x].round)'
  <2>1. req'[x] # Idle /\ req'[x].pc = "score"
    BY <1>3, <1>4 DEF Scoring
  <2>2. req'[x].round \in RoundIds /\ In(req'[x].round)
    <3>1. CASE req'[x] = req[x]
      BY <2>1, <3>1 DEF Scoring, RInv, Kept, IInv, Shape, Known
    <3>2. CASE req'[x] # req[x]
      BY <2>1, <3>2 DEF In
    <3> QED BY <3>1, <3>2
  <2>3. PICK r \in RoundIds : r = req'[x].round
    BY <2>2
  <2>4. In(r)'
    BY <1>2, <2>2, <2>3
  <2> QED BY <2>3, <2>4 DEF In, Exists
<1>5. Kept'
  <2>1. ASSUME NEW r \in RoundIds, scored'[r] # <<>> PROVE In(r)'
    BY <1>2, <2>1 DEF RInv, Kept
  <2> QED BY <1>4, <2>1 DEF Kept
<1>6. \A x \in Slots : req'[x] # Idle => clock' - req'[x].now =< MaxDelay
  BY <1>1, Numbers DEF RInv, Timely
<1>7. Timely'
  BY <1>1, <1>6 DEF RInv, Timely
<1>8. ASSUME NEW r \in RoundIds, Overdue(r)' PROVE Overdue(r)
  <2>1. CASE rounds'[r] = rounds[r]
    BY <1>8, <2>1 DEF Overdue, OlderThan, Open, Exists
  <2>2. CASE clock - rounds'[r].closedAt =< MaxDelay /\ Exists(r)'
    <3>1. rounds'[r].closedAt \in Int
      BY <2>2 DEF Shape, Row, Exists, Never
    <3> QED BY <1>1, <1>8, <2>2, <3>1, Numbers DEF Overdue
  <2>3. CASE Open(r)'
    BY <1>8, <2>3 DEF Overdue
  <2> QED BY <2>1, <2>2, <2>3
<1>9. Spared'
  BY <1>8 DEF RInv, Spared
<1> QED BY <1>5, <1>7, <1>9 DEF RInv

LEMMA NoRow == NoRound \notin Row
BY RoundsAssumption DEF Row, Never

(* A row that is closed by request x is closed as of its time. *)
LEMMA ClosingRow ==
    ASSUME IInv, RInv, NEW x \in Slots, req[x].pc \in {"expire", "close"}, Closable(req[x].round), Close(x)
    PROVE  /\ req[x].round \in RoundIds /\ Exists(req[x].round)
           /\ \A r \in RoundIds :
                \/ rounds'[r] = rounds[r]
                \/ Exists(r)' /\ clock - rounds'[r].closedAt =< MaxDelay
<1>1. PICK r : r = req[x].round
  OBVIOUS
<1>2. r \in RoundIds /\ rounds[r] \in Row /\ rounds \in [RoundIds -> Row \cup {NoRound}]
  BY <1>1 DEF IInv, Shape, Known, Closable, Open, Exists
<1>3. clock - req[x].now =< MaxDelay /\ req[x].now \in Nat
  BY DEF RInv, Timely, Idle, IInv, Shape, Request
<1>4. PICK row : row = [rounds[r] EXCEPT !.closedAt = req[x].now]
  OBVIOUS
<1>5. rounds' = [rounds EXCEPT ![r] = row] /\ row.closedAt = req[x].now /\ row \in Row
  BY <1>1, <1>2, <1>3, <1>4 DEF Close, Row
<1>6. row # NoRound
  BY <1>5, NoRow
<1>7. Exists(r)' /\ rounds'[r].closedAt = req[x].now
  BY <1>2, <1>5, <1>6 DEF Exists
<1>8. \A q \in RoundIds : q # r => rounds'[q] = rounds[q]
  BY <1>2, <1>5
<1> QED BY <1>1, <1>2, <1>3, <1>7, <1>8 DEF Closable, Open

(* The steps of requests, sockets and the player. *)
LEMMA ServingSteps ==
    ASSUME IInv, RInv, IInv',
           \/ \E r \in RoundIds : ServeLyric(r) \/ UseHint(r) \/ RecordHistory(r)
           \/ \E s \in Sockets : Connect(s) \/ Disconnect(s)
           \/ \E x \in Slots :
                 \/ \E s \in Sockets, r \in RoundIds : RequestLyric(x, s, r)
                 \/ \E r \in RoundIds : CheckGuess(x, r)
                 \/ \E s \in Sockets : SubmitGuess(x, s)
                 \/ RequestLyricServed(x)
                 \/ GuessExpire(x) \/ GuessClose(x) \/ GuessScore(x) \/ GuessFails(x)
    PROVE  RInv'
<1>1. /\ Shape' /\ clock \in Nat /\ rounds \in [RoundIds -> Row \cup {NoRound}] /\ req \in [Slots -> Request]
  BY DEF IInv, Shape
<1>2. ASSUME NEW r \in RoundIds, issueRound(r)
      PROVE  \A q \in RoundIds : rounds'[q] = rounds[q] \/ (Exists(q)' /\ Open(q)')
  <2>1. PICK row : row = [issuedAt |-> clock, closedAt |-> Never, hintsUsed |-> 0]
    OBVIOUS
  <2>2. row \in Row /\ row # NoRound /\ row.closedAt = Never /\ rounds' = [rounds EXCEPT ![r] = row]
    BY <1>1, <1>2, <2>1, NoRow DEF Row, issueRound
  <2> QED BY <1>1, <2>2 DEF Open, Exists
<1>3. ASSUME NEW x \in Slots, NEW pc \in {"serve", "expire", "close"}, NEW r, NEW snap, NEW socket,
             Begin(x, pc, r, snap, socket)
      PROVE  \A y \in Slots : req'[y] = req[y] \/ (req'[y].now = clock /\ req'[y].pc # "score")
  <2>1. PICK new : new = [pc |-> pc, round |-> r, snap |-> snap, now |-> clock, socket |-> socket]
    OBVIOUS
  <2>2. new.pc # "score" /\ new.now = clock /\ req' = [req EXCEPT ![x] = new]
    BY <1>3, <2>1 DEF Begin
  <2> QED BY <1>1, <2>2
<1>4. ASSUME NEW x \in Slots, Done(x)
      PROVE  \A y \in Slots : req'[y] = req[y] \/ req'[y] = Idle
  BY <1>1, <1>4 DEF Done
<1>5. ASSUME NEW r \in RoundIds, ServeLyric(r) PROVE RInv'
  <2>1. issueRound(r) /\ UNCHANGED <<clock, scored, history, archive, req, job>>
    BY <1>5 DEF ServeLyric
  <2> QED BY <1>1, <1>2, <2>1, ServingStep
<1>6. ASSUME NEW r \in RoundIds, UseHint(r) PROVE RInv'
  <2>1. PICK row : row = [rounds[r] EXCEPT !.hintsUsed = rounds[r].hintsUsed + 1]
    OBVIOUS
  <2>2. /\ UNCHANGED <<clock, scored, history, archive, req, job>> /\ Open(r)
        /\ rounds' = [rounds EXCEPT ![r] = row]
    BY <1>6, <2>1 DEF UseHint
  <2>3. rounds[r] \in Row /\ rounds[r].closedAt = Never
    BY <1>1, <2>2 DEF Open, Exists
  <2>4. row \in Row /\ row.closedAt = Never /\ row # NoRound
    BY <2>1, <2>3, NoRow DEF Row
  <2>5. \A q \in RoundIds : rounds'[q] = rounds[q] \/ (Exists(q)' /\ Open(q)')
    BY <1>1, <2>2, <2>4 DEF Open, Exists
  <2> QED BY <1>1, <2>2, <2>5, ServingStep
<1>7. ASSUME NEW r \in RoundIds, RecordHistory(r) PROVE RInv'
  <2>1. UNCHANGED <<clock, rounds, scored, archive, req, job>> /\ history \subseteq history'
    BY <1>7 DEF RecordHistory
  <2> QED BY <1>1, <2>1, ServingStep
<1>8. ASSUME NEW s \in Sockets, Connect(s) \/ Disconnect(s) PROVE RInv'
  <2>1. UNCHANGED <<clock, rounds, scored, history, archive, req, job>>
    BY <1>8 DEF Connect, Disconnect
  <2> QED BY <1>1, <2>1, ServingStep
<1>9. ASSUME NEW x \in Slots, NEW s \in Sockets, NEW r \in RoundIds, RequestLyric(x, s, r) PROVE RInv'
  <2>1. issueRound(r) /\ Begin(x, "serve", r, NoRound, s) /\ UNCHANGED <<clock, scored, history, archive, job>>
    BY <1>9 DEF RequestLyric
  <2> QED BY <1>1, <1>2, <1>3, <2>1, ServingStep
<1>10. ASSUME NEW x \in Slots, NEW r, guessRound(x, r), UNCHANGED <<clock, rounds, scored, history, archive, job>>
       PROVE  RInv'
  <2>1. PICK pc \in {"serve", "expire", "close"} : Begin(x, pc, r, rounds[r], "none")
    BY <1>10 DEF guessRound
  <2> QED BY <1>1, <1>3, <1>10, <2>1, ServingStep
<1>11. ASSUME NEW x \in Slots, NEW r \in RoundIds, CheckGuess(x, r) PROVE RInv'
  BY <1>10, <1>11 DEF CheckGuess
<1>12. ASSUME NEW x \in Slots, NEW s \in Sockets, SubmitGuess(x, s) PROVE RInv'
  <2>1. /\ guessRound(x, session[s].currentRoundId) \/ UNCHANGED req
        /\ UNCHANGED <<clock, rounds, scored, history, archive, job>>
    BY <1>12 DEF SubmitGuess
  <2> QED BY <1>1, <1>10, <2>1, ServingStep
<1>13. ASSUME NEW x \in Slots, RequestLyricServed(x) \/ GuessFails(x) PROVE RInv'
  <2>1. Done(x) /\ UNCHANGED <<clock, rounds, scored, history, archive, job>>
    BY <1>13 DEF RequestLyricServed, GuessFails
  <2> QED BY <1>1, <1>4, <2>1, ServingStep
<1>14. ASSUME NEW x \in Slots, GuessExpire(x) PROVE RInv'
  <2>1. Done(x) /\ UNCHANGED <<clock, scored, history, archive, job>> /\ req[x].pc = "expire"
    BY <1>14 DEF GuessExpire
  <2>2. \A r \in RoundIds :
          rounds'[r] = rounds[r] \/ (Exists(r)' /\ clock - rounds'[r].closedAt =< MaxDelay)
    BY <1>14, <2>1, ClosingRow DEF GuessExpire
  <2> QED BY <1>1, <1>4, <2>1, <2>2, ServingStep
<1>15. ASSUME NEW x \in Slots, GuessClose(x) PROVE RInv'
  <2>1. UNCHANGED <<clock, scored, history, archive, job>> /\ req[x].pc = "close"
    BY <1>15 DEF GuessClose
  <2>2. CASE Closable(req[x].round)
    <3>1. Close(x) /\ req' = [req EXCEPT ![x].pc = "score"]
      BY <1>15, <2>2 DEF GuessClose
    <3>2. /\ req[x].round \in RoundIds /\ Exists(req[x].round)
          /\ \A r \in RoundIds :
               rounds'[r] = rounds[r] \/ (Exists(r)' /\ clock - rounds'[r].closedAt =< MaxDelay)
      BY <2>1, <2>2, <3>1, ClosingRow
    <3>3. /\ \A y \in Slots : y # x => req'[y] = req[y]
          /\ req'[x].now = req[x].now /\ req'[x].round = req[x].round /\ req[x] # Idle
      BY <1>1, <2>1, <3>1 DEF Request, Idle
    <3> QED BY <1>1, <2>1, <3>2, <3>3, ServingStep
  <2>3. CASE ~Closable(req[x].round)
    <3>1. Done(x) /\ UNCHANGED rounds
      BY <1>15, <2>3 DEF GuessClose
    <3> QED BY <1>1, <1>4, <2>1, <3>1, ServingStep
  <2> QED BY <2>2, <2>3
<1>16. ASSUME NEW x \in Slots, GuessScore(x) PROVE RInv'
  <2>1. Done(x) /\ UNCHANGED <<clock, rounds, history, archive, job>> /\ Scoring(x)
    BY <1>16 DEF GuessScore, Scoring
  <2>2. In(req[x].round)
    BY <2>1 DEF RInv, Kept
  <2>3. PICK result : scored' = [scored EXCEPT ![req[x].round] = Append(scored[req[x].round], result)]
    BY <1>16 DEF GuessScore
  <2>4. \A r \in RoundIds : scored'[r] # <<>> => scored[r] # <<>> \/ In(r)
    <3>1. scored = [r \in RoundIds |-> scored[r]]
      BY DEF IInv, Shape
    <3>2. \A r \in RoundIds : r # req[x].round => scored'[r] = scored[r]
      BY <2>3, <3>1
    <3> QED BY <2>2, <3>2
  <2> QED BY <1>1, <1>4, <2>1, <2>4, ServingStep
<1> QED BY <1>5, <1>6, <1>7, <1>8, <1>9, <1>11, <1>12, <1>13, <1>14, <1>15, <1>16

(* The job removes a guessed round only to the archive, or when the        *)
(* player's record of it exists.                                           *)
LEMMA PruningStep ==
    ASSUME IInv, RInv, NEW gone \in SUBSET RoundIds, rounds' = Without(gone),
           UNCHANGED <<clock, scored, history, req>>, archive \subseteq archive',
           \A r \in gone : Open(r) \/ r \in archive' \/ r \in history
    PROVE  Kept'
<1>1. \A r \in RoundIds : rounds'[r] = IF r \in gone THEN NoRound ELSE rounds[r]
  BY DEF Without
<1>2. ASSUME NEW r \in RoundIds, In(r), ~Open(r) PROVE In(r)'
  BY <1>1, <1>2 DEF In, Exists
<1>3. ASSUME NEW r \in RoundIds, scored'[r] # <<>> PROVE In(r)'
  BY <1>2, <1>3 DEF RInv, Kept, IInv, Settled
<1>4. ASSUME NEW x \in Slots, Scoring(x)' PROVE In(req[x].round)'
  <2>1. Scoring(x)
    BY <1>4 DEF Scoring
  <2>2. PICK r \in RoundIds : r = req[x].round /\ In(r) /\ ~Open(r)
    BY <2>1 DEF RInv, Kept, IInv, Claimed, Shape, Known, Scoring
  <2> QED BY <1>2, <2>2 DEF In, Exists
<1> QED BY <1>3, <1>4 DEF Kept

LEMMA JobSteps ==
    ASSUME IInv, RInv, PruneStart \/ PruneUnguessed \/ PruneArchive \/ PruneDelete \/ PruneFails \/ Tick
    PROVE  RInv'
<1>1. clock \in Nat /\ job \in Jobs /\ job.now \in Nat /\ job.now =< clock
  BY DEF IInv, Shape, RInv, Timely, Jobs
<1>2. NoJob \in Jobs /\ NoJob.now = 0 /\ NoJob.pc = "idle"
  BY DEF NoJob, Jobs
<1>3. ASSUME UNCHANGED <<clock, req>>, job' \in Jobs, job'.now =< clock PROVE Timely'
  BY <1>3 DEF RInv, Timely
<1>4. ASSUME UNCHANGED <<rounds, scored, history, archive, req>> PROVE Kept'
  BY <1>4 DEF RInv, Kept, In, Exists, Scoring
<1>5. CASE PruneStart
  <2>1. UNCHANGED <<clock, rounds, scored, history, archive, req>>
    BY <1>5 DEF PruneStart
  <2>2. job' \in Jobs /\ job'.now = clock /\ job'.pc = "unguessed"
    BY <1>1, <1>5 DEF PruneStart, Jobs
  <2> QED BY <1>1, <1>3, <1>4, <2>1, <2>2 DEF RInv, Spared
<1>6. CASE PruneUnguessed
  <2>1. PICK gone : gone = {r \in RoundIds : OlderThan(r, Seen) /\ Open(r)}
    OBVIOUS
  <2>2. rounds' = Without(gone) /\ UNCHANGED <<clock, scored, history, archive, req>>
    BY <1>6, <2>1 DEF PruneUnguessed
  <2>3. job' \in Jobs /\ job'.now = job.now /\ job'.pc = "archive"
    BY <1>1, <1>6 DEF PruneUnguessed, Jobs
  <2>4. Kept'
    BY <2>1, <2>2, PruningStep
  <2> QED BY <1>1, <1>3, <2>2, <2>3, <2>4 DEF RInv, Spared
<1>7. CASE PruneArchive
  <2>1. PICK moved : moved = {r \in RoundIds : Archivable(r)}
    OBVIOUS
  <2>2. rounds' = Without(moved) /\ archive' = archive \cup moved /\ UNCHANGED <<clock, scored, history, req>>
    BY <1>7, <2>1 DEF PruneArchive
  <2>3. job' \in Jobs /\ job'.now = job.now /\ job'.pc = "delete"
    BY <1>1, <1>7 DEF PruneArchive, Jobs
  <2>4. Kept'
    BY <2>1, <2>2, PruningStep
  <2>5. ASSUME NEW r \in RoundIds, Overdue(r)' PROVE r \in history'
    <3>1. rounds'[r] = rounds[r] /\ r \notin moved
      BY <2>2, <2>5 DEF Without, Overdue, OlderThan, Exists
    <3>2. OlderThan(r, Retention) /\ ~Open(r)
      BY <2>3, <2>5, <3>1 DEF Overdue, OlderThan, Open, Exists
    <3> QED BY <2>1, <2>2, <3>1, <3>2 DEF Archivable
  <2> QED BY <1>1, <1>3, <2>2, <2>3, <2>4, <2>5 DEF RInv, Spared
<1>8. CASE PruneDelete
  <2>1. PICK gone : gone = {r \in RoundIds : Overdue(r)}
    OBVIOUS
  <2>2. rounds' = Without(gone) /\ UNCHANGED <<clock, scored, history, archive, req>> /\ job' = NoJob /\ job.pc = "delete"
    BY <1>8, <2>1 DEF PruneDelete, Overdue
  <2>3. \A r \in gone : r \in history
    BY <2>1, <2>2 DEF RInv, Spared
  <2>4. Kept'
    BY <2>1, <2>2, <2>3, PruningStep
  <2> QED BY <1>1, <1>2, <1>3, <2>2, <2>4 DEF RInv, Spared
<1>9. CASE PruneFails
  <2>1. UNCHANGED <<clock, rounds, scored, history, archive, req>> /\ job' = NoJob
    BY <1>9 DEF PruneFails
  <2> QED BY <1>1, <1>2, <1>3, <1>4, <2>1 DEF RInv, Spared
<1>10. CASE Tick
  <2>1. PICK t \in (clock + 1)..MaxClock :
          (\A x \in Slots : req[x] # Idle => t - req[x].now =< MaxDelay) /\ clock' = t
    BY <1>10 DEF Tick
  <2>2. UNCHANGED <<rounds, scored, history, archive, req, job>>
    BY <1>10 DEF Tick
  <2>3. t \in Int /\ clock < t
    BY <1>1, <2>1
  <2>4. Timely'
    BY <1>1, <2>1, <2>2, <2>3 DEF RInv, Timely
  <2>5. \A r \in RoundIds : Overdue(r)' => Overdue(r)
    BY <2>2 DEF Overdue, OlderThan, Open, Exists
  <2> QED BY <1>4, <2>2, <2>4, <2>5 DEF RInv, Spared
<1> QED BY <1>5, <1>6, <1>7, <1>8, <1>9, <1>10

(* pruneGameRounds, however its statements interleave with guesses and     *)
(* however often it fails, takes a guessed round out of game_rounds only   *)
(* for the archive or when game_history has the player's record of it.     *)
THEOREM GuessedRoundsStay == Spec => []GuessedRoundsKept
<1>1. Init => RInv
  <2> SUFFICES ASSUME Init PROVE RInv
    OBVIOUS
  <2>1. \A x \in Slots : req[x] = Idle
    BY DEF Init
  <2>2. Idle.pc = "idle"
    BY DEF Idle
  <2>3. Kept
    BY <2>1, <2>2 DEF Init, Kept, Scoring
  <2>4. Timely
    BY <2>1 DEF Init, Timely, Jobs, NoJob
  <2>5. Spared
    BY DEF Init, Spared, NoJob
  <2> QED BY <2>3, <2>4, <2>5 DEF RInv
<1>2. ASSUME IInv, RInv, IInv', [Next]_vars PROVE RInv'
  <2>1. CASE UNCHANGED vars
    <3>1. UNCHANGED <<clock, rounds, scored, history, archive, req, job>>
      BY <2>1 DEF vars
    <3>2. Kept' /\ Timely'
      BY <1>2, <3>1 DEF RInv, Kept, Timely, In, Exists, Scoring
    <3>3. \A r \in RoundIds : Overdue(r)' => Overdue(r)
      BY <3>1 DEF Overdue, OlderThan, Open, Exists
    <3> QED BY <1>2, <3>1, <3>2, <3>3 DEF RInv, Spared
  <2> QED BY <1>2, <2>1, ServingSteps, JobSteps DEF Next
<1>3. RInv => GuessedRoundsKept
  BY DEF RInv, Kept, In, GuessedRoundsKept
<1>4. IInv /\ RInv /\ [Next]_vars => IInv' /\ RInv'
  BY <1>2, NextHolds
<1> QED BY <1>1, <1>3, <1>4, InitHolds, PTL DEF Spec
=============================================================================
