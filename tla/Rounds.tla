------------------------------- MODULE Rounds -------------------------------
(***************************************************************************)
(* One player's rounds of the solo game (game.service.ts), played over     *)
(* HTTP and over sockets (game.controller.ts, game.gateway.ts), scored by  *)
(* round-scoring.util.ts and swept by the daily retention job.             *)
(*                                                                         *)
(* The bodies of useHint, checkGuess and of the option-taking issueRound   *)
(* the gateway calls are not in the source; they are modelled from their   *)
(* callers and interfaces.                                                 *)
(***************************************************************************)
EXTENDS Integers, Sequences, FiniteSets

CONSTANTS
    RoundIds,   \* rounds that may be issued
    Slots,      \* requests that may be in flight
    Sockets,    \* connections to the /game namespace
    Window,     \* answerWindowSeconds, in clock ticks
    Timeout,    \* ROUND_TIMEOUT_SECONDS, in clock ticks
    Seen,       \* the seen window of the retention job, in clock ticks
    Retention,  \* the retention of guessed rounds, in clock ticks
    MaxDelay,   \* bound on how long a request may take
    MaxClock,   \* bound on time
    NoRound     \* no row

ASSUME RoundsAssumption ==
    /\ {Window, Timeout, Seen, Retention, MaxDelay, MaxClock} \subseteq Nat \ {0}
    /\ Window =< Timeout
    /\ Timeout + MaxDelay < Retention   \* requests take seconds, retention days
    /\ NoRound \notin RoundIds
    /\ NoRound \notin [issuedAt : Nat, closedAt : Int, hintsUsed : Nat]

-----------------------------------------------------------------------------
(* Scoring, over integers: fractions are numerator over denominator. *)

CORRECT_GUESS        == 100
PARTIAL_MATCH        == 50
MAX_SPEED_BONUS      == 50
HINT_PENALTY_PERCENT == 25
MAX_HINTS            == 3

(* Math.round(n / d) for n >= 0. *)
Round(n, d) == (2 * n + d) \div (2 * d)

Clamp(n, lo, hi) == IF n < lo THEN lo ELSE IF n > hi THEN hi ELSE n

computeSpeedBonus(basePoints, elapsed, window) ==
    IF window =< 0 THEN 0
    ELSE Round(MAX_SPEED_BONUS * basePoints * Clamp(window - elapsed, 0, window),
               CORRECT_GUESS * window)

(* Percent of the points left. *)
hintMultiplier(hintsUsed) == Clamp(100 - hintsUsed * HINT_PENALTY_PERCENT, 0, 100)

(* In halves: x1, x1.5 and x2. *)
difficultyMultiplier(difficulty) ==
    IF difficulty =< 2 THEN 2 ELSE IF difficulty = 3 THEN 3 ELSE 4

(* guessRound passes neither difficulty nor streak: 3 and 0 by default. *)
scoreRound(basePoints, elapsed, window, hintsUsed) ==
    IF elapsed > window \/ basePoints = 0 THEN 0
    ELSE LET gross == Round((basePoints + computeSpeedBonus(basePoints, elapsed, window))
                              * difficultyMultiplier(3), 2)
         IN Round(gross * hintMultiplier(hintsUsed), 100)

-----------------------------------------------------------------------------
Never == -1   \* a null timestamp

GameRound == [issuedAt : 0..MaxClock, closedAt : -1..MaxClock, hintsUsed : 0..MAX_HINTS]

VARIABLES
    clock,
    rounds,     \* game_rounds: a row or NoRound
    issued,     \* rounds ever issued
    scored,     \* the results returned for each round
    ended,      \* the outcomes round.ended has announced for each round
    history,    \* rounds whose lyric game_history has a record of
    archive,    \* game_rounds_archive
    session,    \* the gateway's socket sessions
    req,        \* what each request is doing
    job         \* the retention job

vars == <<clock, rounds, issued, scored, ended, history, archive, session, req, job>>

Idle == [pc |-> "idle", round |-> NoRound, snap |-> NoRound, now |-> 0, socket |-> "none"]

(* Socket sessions: client ids are never used again. *)
Unconnected  == [state |-> "new", currentRoundId |-> NoRound]
Connected    == [state |-> "on", currentRoundId |-> NoRound]
Disconnected == [state |-> "off", currentRoundId |-> NoRound]

expiresAt(row) == row.issuedAt + Timeout
Exists(r)      == rounds[r] # NoRound
Open(r)        == Exists(r) /\ rounds[r].closedAt = Never

Begin(x, pc, r, snap, socket) ==
    /\ req[x] = Idle
    /\ req' = [req EXCEPT ![x] = [pc |-> pc, round |-> r, snap |-> snap, now |-> clock,
                                  socket |-> socket]]
Done(x) == req' = [req EXCEPT ![x] = Idle]

-----------------------------------------------------------------------------
(* Issuing rounds *)

issueRound(r) ==
    /\ r \notin issued
    /\ issued' = issued \cup {r}
    /\ rounds' = [rounds EXCEPT ![r] = [issuedAt |-> clock, closedAt |-> Never, hintsUsed |-> 0]]

(* GET /game/lyric *)
ServeLyric(r) ==
    /\ issueRound(r)
    /\ UNCHANGED <<clock, scored, ended, history, archive, session, req, job>>

(* handleConnection, handleDisconnect *)
Connect(s) ==
    /\ session[s] = Unconnected
    /\ session' = [session EXCEPT ![s] = Connected]
    /\ UNCHANGED <<clock, rounds, issued, scored, ended, history, archive, req, job>>

Disconnect(s) ==
    /\ session[s].state = "on"
    /\ session' = [session EXCEPT ![s] = Disconnected]
    /\ UNCHANGED <<clock, rounds, issued, scored, ended, history, archive, req, job>>

(* requestLyric: a round is issued ... *)
RequestLyric(x, s, r) ==
    /\ session[s].state = "on"
    /\ Begin(x, "serve", r, NoRound, s)
    /\ issueRound(r)
    /\ UNCHANGED <<clock, scored, ended, history, archive, session, job>>

(* ... and becomes the socket's current one when the call returns. *)
RequestLyricServed(x) ==
    /\ req[x].pc = "serve"
    /\ session' = [session EXCEPT ![req[x].socket] =
                     IF @.state = "on" THEN [@ EXCEPT !.currentRoundId = req[x].round] ELSE @]
    /\ Done(x)
    /\ UNCHANGED <<clock, rounds, issued, scored, ended, history, archive, job>>

-----------------------------------------------------------------------------
(* Guessing *)

(* guessRound reads the round; an unknown or closed one is refused.        *)
guessRound(x, r) ==
    /\ Open(r)
    /\ Begin(x, IF expiresAt(rounds[r]) =< clock THEN "expire" ELSE "close", r, rounds[r], "none")

(* POST /game/guess *)
CheckGuess(x, r) ==
    /\ guessRound(x, r)
    /\ UNCHANGED <<clock, rounds, issued, scored, ended, history, archive, session, job>>

(* submitGuess: the current round is taken off the socket before the call. *)
SubmitGuess(x, s) ==
    LET r == session[s].currentRoundId
    IN /\ session[s].state = "on" /\ r # NoRound
       /\ session' = [session EXCEPT ![s].currentRoundId = NoRound]
       /\ IF Open(r) THEN guessRound(x, r) ELSE UNCHANGED req
       /\ UNCHANGED <<clock, rounds, issued, scored, ended, history, archive, job>>

(* Fault for mutation: the update does not ask whether the round is open.  *)
ClosableAny(r) == Exists(r)

(* The condition of the UPDATE that closes a round. *)
Closable(r) == Open(r)

Close(x) == rounds' = [rounds EXCEPT ![req[x].round].closedAt = req[x].now]

emitRoundEnded(x, outcome) == ended' = [ended EXCEPT ![req[x].round] = @ \cup {outcome}]

(* Fault for mutation: the expired round is announced and left open.       *)
GuessExpireUnclosed(x) ==
    /\ req[x].pc = "expire"
    /\ emitRoundEnded(x, "expired")
    /\ Done(x)
    /\ UNCHANGED <<clock, rounds, issued, scored, history, archive, session, job>>

(* Announced whether or not the update found the round open.               *)
GuessExpire(x) ==
    /\ req[x].pc = "expire"
    /\ IF Closable(req[x].round) THEN Close(x) ELSE UNCHANGED rounds
    /\ emitRoundEnded(x, "expired")
    /\ Done(x)
    /\ UNCHANGED <<clock, issued, scored, history, archive, session, job>>

GuessClose(x) ==
    /\ req[x].pc = "close"
    /\ IF Closable(req[x].round)
       THEN Close(x) /\ req' = [req EXCEPT ![x].pc = "score"]
       ELSE Done(x) /\ UNCHANGED rounds
    /\ UNCHANGED <<clock, issued, scored, ended, history, archive, session, job>>

(* checkGuess: a wrong, partial or exact answer; it fails when the lyric   *)
(* is no longer active, and the round stays closed without a score.        *)
checkGuess == {0, PARTIAL_MATCH, CORRECT_GUESS}

GuessScore(x) ==
    LET elapsed == req[x].now - req[x].snap.issuedAt
        hints   == req[x].snap.hintsUsed
    IN /\ req[x].pc = "score"
       /\ \E basePoints \in checkGuess :
             scored' = [scored EXCEPT ![req[x].round] =
                Append(@, [basePoints |-> basePoints, elapsed |-> elapsed, hintsUsed |-> hints,
                           points |-> scoreRound(basePoints, elapsed, Window, hints)])]
       /\ emitRoundEnded(x, "scored")
       /\ Done(x)
       /\ UNCHANGED <<clock, rounds, issued, history, archive, session, job>>

GuessFails(x) ==
    /\ req[x].pc = "score"
    /\ Done(x)
    /\ UNCHANGED <<clock, rounds, issued, scored, ended, history, archive, session, job>>

(* useHint, over HTTP or for the socket's current round. *)
UseHint(r) ==
    /\ Open(r) /\ clock < expiresAt(rounds[r]) /\ rounds[r].hintsUsed < MAX_HINTS
    /\ rounds' = [rounds EXCEPT ![r].hintsUsed = @ + 1]
    /\ UNCHANGED <<clock, issued, scored, ended, history, archive, session, req, job>>

-----------------------------------------------------------------------------
(* Retention: pruneGameRounds, one instance at a time. *)

NoJob == [pc |-> "idle", now |-> 0]

(* A record of the player's guess at the round's lyric. *)
RecordHistory(r) ==
    /\ r \in issued \ history
    /\ history' = history \cup {r}
    /\ UNCHANGED <<clock, rounds, issued, scored, ended, archive, session, req, job>>

PruneStart ==
    /\ job = NoJob
    /\ job' = [pc |-> "unguessed", now |-> clock]
    /\ UNCHANGED <<clock, rounds, issued, scored, ended, history, archive, session, req>>

OlderThan(r, age) == Exists(r) /\ rounds[r].issuedAt < job.now - age

Without(gone) == [r \in RoundIds |-> IF r \in gone THEN NoRound ELSE rounds[r]]

PruneUnguessed ==
    /\ job.pc = "unguessed"
    /\ rounds' = Without({r \in RoundIds : OlderThan(r, Seen) /\ Open(r)})
    /\ job' = [job EXCEPT !.pc = "archive"]
    /\ UNCHANGED <<clock, issued, scored, ended, history, archive, session, req>>

(* Fault for mutation: rounds that do have a record are the ones moved.    *)
ArchivableRecorded(r) == OlderThan(r, Retention) /\ ~Open(r) /\ r \in history

(* archiveGuessedRounds. No migration creates game_rounds_archive or the   *)
(* snake_case columns the statement names: with that schema every run of   *)
(* the job ends here, in PruneFails. With them in place it moves:          *)
Archivable(r) == OlderThan(r, Retention) /\ ~Open(r) /\ r \notin history

PruneArchive ==
    /\ job.pc = "archive"
    /\ LET moved == {r \in RoundIds : Archivable(r)}
       IN archive' = archive \cup moved /\ rounds' = Without(moved)
    /\ job' = [job EXCEPT !.pc = "delete"]
    /\ UNCHANGED <<clock, issued, scored, ended, history, session, req>>

PruneDelete ==
    /\ job.pc = "delete"
    /\ rounds' = Without({r \in RoundIds :
                    /\ OlderThan(r, Retention) /\ ~Open(r)
                    /\ rounds[r].closedAt < job.now - Retention})
    /\ job' = NoJob
    /\ UNCHANGED <<clock, issued, scored, ended, history, archive, session, req>>

(* Any of the statements may fail; the lock is released all the same.      *)
PruneFails ==
    /\ job # NoJob
    /\ job' = NoJob
    /\ UNCHANGED <<clock, rounds, issued, scored, ended, history, archive, session, req>>

(* Time passes, but no request takes longer than MaxDelay. *)
Tick ==
    /\ \E t \in (clock + 1)..MaxClock :
          /\ \A x \in Slots : req[x] # Idle => t - req[x].now =< MaxDelay
          /\ clock' = t
    /\ UNCHANGED <<rounds, issued, scored, ended, history, archive, session, req, job>>

-----------------------------------------------------------------------------
Init ==
    /\ clock = 0
    /\ rounds = [r \in RoundIds |-> NoRound] /\ issued = {}
    /\ scored = [r \in RoundIds |-> <<>>]
    /\ ended = [r \in RoundIds |-> {}]
    /\ history = {} /\ archive = {}
    /\ session = [s \in Sockets |-> Unconnected]
    /\ req = [x \in Slots |-> Idle]
    /\ job = NoJob

Next ==
    \/ \E r \in RoundIds : ServeLyric(r) \/ UseHint(r) \/ RecordHistory(r)
    \/ \E s \in Sockets : Connect(s) \/ Disconnect(s)
    \/ \E x \in Slots :
          \/ \E s \in Sockets, r \in RoundIds : RequestLyric(x, s, r)
          \/ \E r \in RoundIds : CheckGuess(x, r)
          \/ \E s \in Sockets : SubmitGuess(x, s)
          \/ RequestLyricServed(x)
          \/ GuessExpire(x) \/ GuessClose(x) \/ GuessScore(x) \/ GuessFails(x)
    \/ PruneStart \/ PruneUnguessed \/ PruneArchive \/ PruneDelete \/ PruneFails
    \/ Tick

Spec == Init /\ [][Next]_vars

-----------------------------------------------------------------------------
(* Rows, results and requests have the shape of the entities. *)
TypeOK ==
    /\ clock \in 0..MaxClock
    /\ rounds \in [RoundIds -> GameRound \cup {NoRound}]
    /\ ended \in [RoundIds -> SUBSET {"scored", "expired"}]
    /\ issued \subseteq RoundIds /\ history \subseteq issued /\ archive \subseteq issued
    /\ \A r \in RoundIds : \A i \in 1..Len(scored[r]) :
          /\ scored[r][i].points \in Nat /\ scored[r][i].hintsUsed \in 0..MAX_HINTS
    /\ \A s \in Sockets : session[s].currentRoundId \in RoundIds \cup {NoRound}
    /\ \A x \in Slots : req[x].round \in RoundIds \cup {NoRound}

(* guessRound: two concurrent guesses cannot both be scored, and the       *)
(* answer the first one reveals cannot be replayed, over HTTP or sockets.  *)
ScoredOnce == \A r \in RoundIds : Len(scored[r]) =< 1

(* pruneGameRounds: a guessed round leaves game_rounds only for the        *)
(* archive, unless game_history holds its record.                          *)
GuessedRoundsKept ==
    \A r \in RoundIds : scored[r] # <<>> => Exists(r) \/ r \in archive \/ r \in history

(* emitRoundEnded: once a round's end is announced no guess can reopen or  *)
(* close it; its row is closed or gone.                                    *)
AnnouncedIsClosed == \A r \in RoundIds : ended[r] # {} => ~Open(r)
=============================================================================
