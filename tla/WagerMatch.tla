----------------------------- MODULE WagerMatch -----------------------------
(***************************************************************************)
(* One wagered match in the backend: the game-session row, the wager row   *)
(* and the requests and jobs that read and overwrite them                  *)
(* (game-sessions.service.ts, wager.service.ts, wager-refund.job.ts,       *)
(* wager-reconcile.job.ts), calling the escrow contract through            *)
(* stellar-token.service.ts.                                               *)
(*                                                                         *)
(* A handler runs from one await to the next in one step.  It works on the *)
(* rows it read (its snapshots); repository.save writes the whole snapshot *)
(* back over whatever the row has become.  A transaction is sent in one    *)
(* step, lands on the ledger in another, if ever, and the sender stops     *)
(* waiting in a third, having seen it confirmed or not.  The contract is   *)
(* represented by its promise, EscrowPromise.                              *)
(***************************************************************************)
EXTENDS Integers, FiniteSets

CONSTANTS
    Match,        \* the session's id
    UserSlots,    \* requests of players and admins that may be in flight
    JobSlots,     \* runs of the scheduled sweeps that may be in flight
    KeyStores,    \* whether the key store may hold the players' keys
    NoSession,    \* no session row
    NoRow,        \* no wager row
    MaxAttempts,  \* WAGER_RECONCILE_MAX_ATTEMPTS
    MaxOffers,    \* bound on unsigned stake transactions built per player
    MaxCrashes,   \* bound on restarts of the process
    ScorePairs,   \* final scores <<player one, player two>> of the match
    Deadlines     \* which of the deadlines below may pass

Slots == UserSlots \cup JobSlots
Seats == {"a", "b"}

ASSUME WagerAssumption ==
    /\ KeyStores \subseteq BOOLEAN /\ KeyStores # {}
    /\ Deadlines \subseteq {"invitation", "stake", "claim"}
    /\ MaxAttempts \in Nat \ {0} /\ MaxOffers \in Nat /\ MaxCrashes \in Nat

WagerStatus == {"PENDING", "AWAITING_STAKES", "STAKED", "SETTLING",
                "WON", "REFUNDED", "FAILED"}
TERMINAL_WAGER_STATUSES == {"WON", "REFUNDED", "FAILED"}
GameSessionStatus == {"WAITING_FOR_PLAYER", "IN_PROGRESS", "COMPLETED", "ABANDONED"}
SettlementKind == {"payout", "refund"}

(* staked: whose StakeTxHash is recorded; latest: the number of the latest *)
(* stake transaction offered (LatestStakeHash, 0 for null); hash: whether  *)
(* settlementTxHash is set.                                                *)
Wager ==
    [status : WagerStatus, staked : SUBSET Seats, latest : [Seats -> 0..MaxOffers],
     deadline : BOOLEAN, hash : BOOLEAN, kind : SettlementKind \cup {"none"},
     intended : Seats \cup {"none"}, winner : Seats \cup {"none"}]

GameSession == [status : GameSessionStatus, winner : Seats \cup {"none"}]

ASSUME RowAssumption == NoRow \notin Wager /\ NoSession \notin GameSession

Tx == [call : {"open_pot", "refund", "none"}, who : {"none"}]
      \cup [call : {"stake", "resolve"}, who : Seats]
NoTx == [call |-> "none", who |-> "none"]

VARIABLES
    session,    \* the game session row
    wager,      \* the wager row
    opened,     \* the chain: whether the pot exists
    held,       \* the chain: EscrowPromise's stakes held
    reclaimed,  \* the chain: EscrowPromise's stakes taken back
    settled,    \* the chain: EscrowPromise's settlement
    paidTo,     \* the chain: the player the pot was paid to
    late,       \* transactions that may land though nobody waits for them
    req,        \* what each slot is doing
    offered,    \* how many unsigned stakes each player was handed
    attempts,   \* the reconcile job's in-memory attempt counter
    passed,     \* which deadlines have passed
    crashes,    \* restarts so far
    custodial,  \* the deployment: whether the key store holds the players' keys
    decided     \* history: final scores completeWageredGame was called with

chain == <<opened, held, reclaimed, settled, paidTo>>
env   == <<offered, attempts, passed, crashes, decided, custodial>>
vars  == <<session, wager, chain, late, req, env>>

Escrow == INSTANCE EscrowPromise WITH Sessions <- {Match}

Ops == {"idle", "create", "accept", "abandon", "complete", "refundJob",
        "confirm", "fresh", "reconcile", "remove"}

(* s, w: the snapshots; sent: how far its transaction got.                 *)
Idle == [op |-> "idle", pc |-> "idle", s |-> NoSession, w |-> NoRow, tx |-> NoTx,
         sent |-> "no", arg |-> "none", job |-> FALSE, n |-> 0]

-----------------------------------------------------------------------------
(* Slots *)

Begin(r, q)  == req[r] = Idle /\ req' = [req EXCEPT ![r] = q]
At(r, pc)    == req[r].pc = pc
Goto(r, q)   == req' = [req EXCEPT ![r] = q]
Done(r)      == req' = [req EXCEPT ![r] = Idle]
ByUser(r)    == r \in UserSlots
ByJob(r)     == r \in JobSlots

(* A request that has handed tx to the network and polls for it at pc.     *)
Sending(q, pc, call, who) ==
    [q EXCEPT !.pc = pc, !.tx = [call |-> call, who |-> who], !.sent = "pending"]

(* The token service's calls.  A player whose key the store holds stakes   *)
(* at once; another is offered the transaction to sign.                    *)
openEscrow(q) == Sending(q, "opening", "open_pot", "none")

stakeTokens(q, seat) ==
    IF custodial THEN Sending(q, "staking", "stake", seat) ELSE [q EXCEPT !.pc = "offer"]

confirmStake(q, owner) == Sending(q, "confirming", "stake", owner)

(* The envelope handed back is the stake of the player who hands it back.  *)
assertIsStake(seat, owner) == owner = seat

(* A read is simulated on the ledger as it is, or fails.                   *)
readContract(value) == {value, "unknown"}

(* What the contract may say became of the pot.                            *)
getPot == readContract(settled[Match])

(* Fault for mutation: an accepted submission is taken for a settled one.  *)
OutcomesPendingIsSuccess(r) == {"failed", "confirmed"}

(* What toTransactionResult and toFailure report: confirmed only when the  *)
(* ledger has it; submitted, with a hash, when the poll budget ran out or  *)
(* the network refused it; failed when an exception cut the call short,    *)
(* before it was sent or while it was being polled.                        *)
Outcomes(r) ==
    {"failed"} \cup (IF req[r].sent = "landed" THEN {"confirmed"} ELSE {"submitted"})

NotConfirmed(r) == Outcomes(r) # {"confirmed"}

(* The sender stops waiting; what has not landed may still do so.          *)
StopWaiting(r) ==
    late' = IF req[r].sent = "pending" THEN late \cup {req[r].tx} ELSE late

Awaited(r) == [req[r] EXCEPT !.tx = NoTx, !.sent = "no"]

(* The contract's side of a landing transaction.                           *)
Land(tx) ==
    \/ /\ tx.call = "open_pot" /\ ~opened
       /\ opened' = TRUE /\ UNCHANGED <<held, reclaimed, settled, paidTo>>
    \/ /\ tx.call = "stake" /\ opened
       /\ Escrow!Deposit(Match, tx.who) /\ UNCHANGED <<opened, paidTo>>
    \/ /\ tx.call = "resolve" /\ opened
       /\ Escrow!PayWinner(Match) /\ paidTo' = tx.who /\ UNCHANGED opened
    \/ /\ tx.call = "refund" /\ opened
       /\ Escrow!ReturnAll(Match) /\ UNCHANGED <<opened, paidTo>>

LandAwaited(r) ==
    /\ req[r].sent = "pending"
    /\ Land(req[r].tx)
    /\ req' = [req EXCEPT ![r] = [req[r] EXCEPT !.sent = "landed"]]
    /\ UNCHANGED <<session, wager, late, env>>

LandLate(tx) ==
    /\ Land(tx)
    /\ late' = late \ {tx}
    /\ UNCHANGED <<session, wager, req, env>>

(* claim_refund: a player takes their stake back after the pot's deadline. *)
ClaimRefund(seat) ==
    /\ "claim" \in passed
    /\ Escrow!TakeBack(Match, seat)
    /\ UNCHANGED <<session, wager, opened, paidTo, late, req, env>>

-----------------------------------------------------------------------------
(* GameSessionsService.create and WagerService.createWager *)

NewWager ==
    [status |-> "PENDING", staked |-> {}, latest |-> [x \in Seats |-> 0],
     deadline |-> FALSE, hash |-> FALSE, kind |-> "none",
     intended |-> "none", winner |-> "none"]

(* The session row is saved before the wager is attempted: in mode WAGERED  *)
(* or MULTIPLAYER it waits for the other player, in mode SINGLE with a     *)
(* wager it starts at once.                                                *)
Create(r) ==
    /\ ByUser(r) /\ session = NoSession /\ wager = NoRow /\ ~opened
    /\ \A q \in Slots : req[q].op # "create"
    /\ \E status \in {"WAITING_FOR_PLAYER", "IN_PROGRESS"} :
          session' = [status |-> status, winner |-> "none"]
    /\ Begin(r, [Idle EXCEPT !.op = "create", !.pc = "insert"])
    /\ UNCHANGED <<wager, chain, late, env>>

(* Step 1 and 2: record the intent, then open the pot. *)
CreateInsert(r) ==
    /\ req[r].op = "create" /\ At(r, "insert")
    /\ wager' = NewWager
    /\ Goto(r, openEscrow([req[r] EXCEPT !.w = NewWager]))
    /\ UNCHANGED <<session, chain, late, env>>

(* A player is missing or cannot afford the stake. *)
CreateRefused(r) ==
    /\ req[r].op = "create" /\ At(r, "insert")
    /\ Goto(r, [req[r] EXCEPT !.pc = "delete"])
    /\ UNCHANGED <<session, wager, chain, late, env>>

(* Step 3 after the pot opened: stake player one, or offer them the         *)
(* transaction to sign.                                                    *)
CreateOpened(r) ==
    /\ req[r].op = "create" /\ At(r, "opening")
    /\ "confirmed" \in Outcomes(r)
    /\ LET w == [req[r].w EXCEPT !.status = "AWAITING_STAKES"]
           q == [Awaited(r) EXCEPT !.w = w]
       IN /\ wager' = w
          /\ Goto(r, stakeTokens(q, "a"))
    /\ UNCHANGED <<session, chain, late, env>>

MarkFailed(r, pc) ==
    /\ wager' = [req[r].w EXCEPT !.status = "FAILED"]
    /\ Goto(r, [Awaited(r) EXCEPT !.pc = pc])

CreateNotOpened(r) ==
    /\ req[r].op = "create" /\ At(r, "opening")
    /\ NotConfirmed(r)
    /\ MarkFailed(r, "delete")
    /\ StopWaiting(r)
    /\ UNCHANGED <<session, chain, env>>

(* PENDING_SIGNATURE: remember the offer and set the deadline. *)
CreateOffer(r) ==
    /\ req[r].op = "create" /\ At(r, "offer")
    /\ offered["a"] < MaxOffers
    /\ offered' = [offered EXCEPT !["a"] = @ + 1]
    /\ wager' = [req[r].w EXCEPT !.latest["a"] = offered["a"] + 1, !.deadline = TRUE]
    /\ Done(r)
    /\ UNCHANGED <<session, chain, late, attempts, passed, crashes, decided, custodial>>

CreateStaked(r) ==
    /\ req[r].op = "create" /\ At(r, "staking")
    /\ "confirmed" \in Outcomes(r)
    /\ wager' = [req[r].w EXCEPT !.staked = req[r].w.staked \cup {"a"}]
    /\ Done(r)
    /\ UNCHANGED <<session, chain, late, env>>

(* The stake failed, or building the offer did: refund the pot. *)
CreateNotStaked(r) ==
    /\ req[r].op = "create"
    /\ \/ At(r, "staking") /\ NotConfirmed(r)
       \/ At(r, "offer")
    /\ Goto(r, Sending(Awaited(r), "refunding", "refund", "none"))
    /\ StopWaiting(r)
    /\ UNCHANGED <<session, wager, chain, env>>

(* Whatever became of the refund, the wager is marked failed ... *)
CreateFailed(r) ==
    /\ req[r].op = "create" /\ At(r, "refunding")
    /\ MarkFailed(r, "delete")
    /\ StopWaiting(r)
    /\ UNCHANGED <<session, chain, env>>

(* ... and the session deleted. *)
CreateDelete(r) ==
    /\ req[r].op = "create" /\ At(r, "delete")
    /\ session' = NoSession
    /\ Done(r)
    /\ UNCHANGED <<wager, chain, late, env>>

-----------------------------------------------------------------------------
(* GameSessionsService.accept and WagerService.acceptWager *)

(* requireInvitation, then isExpired. *)
AcceptRead(r) ==
    /\ ByUser(r)
    /\ session # NoSession /\ session.status = "WAITING_FOR_PLAYER"
    /\ Begin(r, [Idle EXCEPT !.op = "accept", !.s = session,
                   !.pc = IF "invitation" \in passed THEN "abandon" ELSE "wager"])
    /\ UNCHANGED <<session, wager, chain, late, env>>

AwaitsB(w) == w # NoRow /\ w.status = "AWAITING_STAKES" /\ "b" \notin w.staked

(* Non-custodial: player two is handed a transaction nothing remembers. *)
AcceptWager(r) ==
    /\ req[r].op = "accept" /\ At(r, "wager")
    /\ LET q == [req[r] EXCEPT !.w = wager]
       IN IF ~AwaitsB(wager)
          THEN Done(r) /\ UNCHANGED offered
          ELSE IF custodial
          THEN Goto(r, stakeTokens(q, "b")) /\ UNCHANGED offered
          ELSE \/ /\ offered["b"] < MaxOffers
                  /\ offered' = [offered EXCEPT !["b"] = @ + 1]
                  /\ Goto(r, [q EXCEPT !.pc = "start"])
               \/ Done(r) /\ UNCHANGED offered
    /\ UNCHANGED <<session, wager, chain, late, attempts, passed, crashes, decided, custodial>>

(* Fault for mutation: the other player's stake is not looked at. *)
AfterStakeBUnchecked(w) == [w EXCEPT !.staked = w.staked \cup {"b"}, !.status = "STAKED"]

(* The row once player two's stake is confirmed. *)
AfterStakeB(w) ==
    [w EXCEPT !.staked = w.staked \cup {"b"},
              !.status = IF "a" \in w.staked THEN "STAKED" ELSE w.status]

AcceptStaked(r) ==
    /\ req[r].op = "accept" /\ At(r, "staking")
    /\ "confirmed" \in Outcomes(r)
    /\ wager' = AfterStakeB(req[r].w)
    /\ Goto(r, [Awaited(r) EXCEPT !.pc = "start"])
    /\ UNCHANGED <<session, chain, late, env>>

AcceptNotStaked(r) ==
    /\ req[r].op = "accept" /\ At(r, "staking")
    /\ NotConfirmed(r)
    /\ Done(r)
    /\ StopWaiting(r)
    /\ UNCHANGED <<session, wager, chain, env>>

AcceptStart(r) ==
    /\ req[r].op = "accept" /\ At(r, "start")
    /\ session' = [req[r].s EXCEPT !.status = "IN_PROGRESS"]
    /\ Done(r)
    /\ UNCHANGED <<wager, chain, late, env>>

-----------------------------------------------------------------------------
(* decline, expireInvitations and abandonInvitation *)

AbandonRead(r) ==
    /\ \/ ByUser(r)
       \/ ByJob(r) /\ "invitation" \in passed
    /\ session # NoSession /\ session.status = "WAITING_FOR_PLAYER"
    /\ Begin(r, [Idle EXCEPT !.op = "abandon", !.s = session, !.pc = "abandon"])
    /\ UNCHANGED <<session, wager, chain, late, env>>

(* Also reached from an accept that came too late. *)
AbandonSave(r) ==
    /\ At(r, "abandon")
    /\ session' = [req[r].s EXCEPT !.status = "ABANDONED"]
    /\ Goto(r, [req[r] EXCEPT !.pc = "draw"])
    /\ UNCHANGED <<wager, chain, late, env>>

-----------------------------------------------------------------------------
(* completeWageredGame *)

(* Fault for mutation: a tie goes to player one. *)
WinnerOfTie(one, two) == IF one >= two THEN "a" ELSE "b"

WinnerOf(one, two) ==
    IF one > two THEN "a" ELSE IF two > one THEN "b" ELSE "draw"

CompleteRead(r, one, two) ==
    /\ ByUser(r)
    /\ session # NoSession /\ session.status # "COMPLETED"
    /\ Begin(r, [Idle EXCEPT !.op = "complete", !.s = session, !.arg = WinnerOf(one, two),
                   !.pc = IF WinnerOf(one, two) = "draw" THEN "draw" ELSE "resolve"])
    /\ decided' = decided \cup {<<one, two>>}
    /\ UNCHANGED <<session, wager, chain, late, offered, attempts, passed, crashes, custodial>>

(* The session is saved as completed whatever became of the wager. *)
CompleteSave(r) ==
    /\ req[r].op = "complete" /\ At(r, "finish")
    /\ session' = [req[r].s EXCEPT !.status = "COMPLETED",
                     !.winner = IF req[r].arg = "draw" THEN req[r].s.winner ELSE req[r].arg]
    /\ Done(r)
    /\ UNCHANGED <<wager, chain, late, env>>

-----------------------------------------------------------------------------
(* resolveWagerWithWinner, resolveWagerAsDraw and settle: the intent is    *)
(* saved, the call made, the outcome saved.                                *)

(* Where a settlement's caller continues. *)
AfterSettle(op) ==
    CASE op = "complete"  -> "finish"
      [] op = "refundJob" -> "close"
      [] OTHER            -> "end"

(* The statuses a settlement may start from. *)
Settleable(pc, w) ==
    /\ w # NoRow
    /\ \/ w.status = "STAKED"
       \/ pc = "draw" /\ w.status = "AWAITING_STAKES"

SettleRead(r) ==
    /\ At(r, "draw") \/ At(r, "resolve")
    /\ IF Settleable(req[r].pc, wager)
       THEN Goto(r, [req[r] EXCEPT !.w = wager,
                       !.pc = IF At(r, "draw") THEN "refund" ELSE "payout"])
       ELSE Goto(r, [req[r] EXCEPT !.pc = IF req[r].op = "refundJob" THEN "end"
                                          ELSE AfterSettle(req[r].op)])
    /\ UNCHANGED <<session, wager, chain, late, env>>

(* Fault for mutation: a refund records the caller's argument as a winner. *)
PayeeOfAny(r) == req[r].arg

Payee(r) == IF At(r, "refund") THEN "none" ELSE req[r].arg

SettleSave(r) ==
    /\ At(r, "refund") \/ At(r, "payout")
    /\ LET to == Payee(r)
           w  == [req[r].w EXCEPT !.status = "SETTLING", !.kind = req[r].pc,
                                  !.intended = to]
           call == IF At(r, "refund") THEN "refund" ELSE "resolve"
       IN /\ wager' = w
          /\ Goto(r, Sending([req[r] EXCEPT !.w = w], "settling", call, to))
    /\ UNCHANGED <<session, chain, late, env>>

(* A settlement known to have landed. *)
Finalised(w) ==
    [w EXCEPT !.status = IF w.kind = "payout" THEN "WON" ELSE "REFUNDED",
              !.winner = w.intended, !.hash = TRUE]

(* The row after a settlement call returned. *)
SettledAs(w, outcome) ==
    CASE outcome = "confirmed" -> Finalised(w)
      [] outcome = "submitted" -> [w EXCEPT !.hash = TRUE]
      [] outcome = "failed"    -> [w EXCEPT !.status = "FAILED"]

SettleOutcome(r) ==
    /\ At(r, "settling")
    /\ \E o \in Outcomes(r) :
          /\ wager' = SettledAs(req[r].w, o)
          /\ Goto(r, [Awaited(r) EXCEPT !.pc =
                IF req[r].op = "refundJob" /\ o # "confirmed" THEN "end"
                ELSE AfterSettle(req[r].op)])
    /\ StopWaiting(r)
    /\ UNCHANGED <<session, chain, env>>

-----------------------------------------------------------------------------
(* WagerRefundJob *)

(* JobLockService: one sweep at a time, over all instances. *)
RefundJobRead(r) ==
    /\ ByJob(r) /\ \A q \in Slots : req[q].op # "refundJob"
    /\ wager # NoRow /\ wager.status = "AWAITING_STAKES"
    /\ wager.deadline /\ "stake" \in passed
    /\ Begin(r, [Idle EXCEPT !.op = "refundJob", !.pc = "draw"])
    /\ UNCHANGED <<session, wager, chain, late, env>>

(* An UPDATE by id: nothing happens to a deleted session. *)
RefundJobClose(r) ==
    /\ req[r].op = "refundJob" /\ At(r, "close")
    /\ session' = IF session = NoSession THEN NoSession
                  ELSE [session EXCEPT !.status = "ABANDONED"]
    /\ Done(r)
    /\ UNCHANGED <<wager, chain, late, env>>

EndCall(r) ==
    /\ At(r, "end")
    /\ Done(r)
    /\ UNCHANGED <<session, wager, chain, late, env>>

-----------------------------------------------------------------------------
(* confirmStake: a player hands back, signed, the nth transaction a player  *)
(* was offered.                                                            *)

ConfirmRead(r, seat, owner, n) ==
    /\ ByUser(r)
    /\ wager # NoRow /\ wager.status = "AWAITING_STAKES"
    /\ n \in 1..offered[owner] /\ assertIsStake(seat, owner)
    /\ Begin(r, confirmStake([Idle EXCEPT !.op = "confirm", !.w = wager, !.arg = seat, !.n = n],
                             owner))
    /\ UNCHANGED <<session, wager, chain, late, env>>

(* The hash is recorded even if the stake is not confirmed; an exception   *)
(* leaves no hash, but the snapshot is saved all the same.                 *)
ConfirmOutcome(r) ==
    /\ req[r].op = "confirm" /\ At(r, "confirming")
    /\ \E o \in Outcomes(r) :
          LET w == req[r].w
              seat == req[r].arg
              superseded == o = "confirmed" /\ w.latest[seat] \notin {0, req[r].n}
          IN wager' = IF superseded THEN wager
                      ELSE IF o = "failed" THEN w
                      ELSE [w EXCEPT !.staked = w.staked \cup {seat}]
    /\ Done(r)
    /\ StopWaiting(r)
    /\ UNCHANGED <<session, chain, env>>

(* requestFreshStakeTransaction *)
FreshRead(r, seat) ==
    /\ ByUser(r) /\ ~custodial
    /\ wager # NoRow /\ wager.status = "AWAITING_STAKES" /\ seat \notin wager.staked
    /\ offered[seat] < MaxOffers
    /\ Begin(r, [Idle EXCEPT !.op = "fresh", !.pc = "offer", !.w = wager, !.arg = seat])
    /\ UNCHANGED <<session, wager, chain, late, env>>

FreshOffer(r) ==
    /\ req[r].op = "fresh" /\ At(r, "offer")
    /\ offered[req[r].arg] < MaxOffers
    /\ offered' = [offered EXCEPT ![req[r].arg] = @ + 1]
    /\ wager' = [req[r].w EXCEPT !.latest[req[r].arg] = offered[req[r].arg] + 1]
    /\ Done(r)
    /\ UNCHANGED <<session, chain, late, attempts, passed, crashes, decided, custodial>>

-----------------------------------------------------------------------------
(* reconcileWager, by an operator or by WagerReconcileJob *)

(* The job's sweeps exclude one another by an advisory lock. *)
ReconcileRead(r, job) ==
    /\ IF job THEN ByJob(r) ELSE ByUser(r)
    /\ job => \A q \in Slots : ~req[q].job
    /\ wager # NoRow /\ wager.status = "SETTLING"
    /\ Begin(r, [Idle EXCEPT !.op = "reconcile", !.pc = "lookup", !.w = wager, !.job = job])
    /\ UNCHANGED <<session, wager, chain, late, env>>

(* Fault for mutation: the job never counts its attempts. *)
UnsettledForever(r) == Done(r) /\ UNCHANGED attempts

(* The job counts an attempt that did not settle the wager. *)
Unsettled(r) ==
    IF req[r].job
    THEN /\ attempts' = attempts + 1
         /\ IF attempts + 1 >= MaxAttempts THEN Goto(r, [req[r] EXCEPT !.pc = "giveUp"])
            ELSE Done(r)
    ELSE Done(r) /\ UNCHANGED attempts

(* A settlement without a hash is taken never to have been sent. *)
ReconcileNoHash(r) ==
    /\ req[r].op = "reconcile" /\ At(r, "lookup") /\ ~req[r].w.hash
    /\ wager' = [req[r].w EXCEPT !.status = "FAILED"]
    /\ Unsettled(r)
    /\ UNCHANGED <<session, chain, late, offered, passed, crashes, decided, custodial>>

(* reconcile: the transaction landed, or the pot is already settled. *)
ReconcileSettled(r) ==
    /\ req[r].op = "reconcile" /\ At(r, "lookup") /\ req[r].w.hash
    /\ \E pot \in getPot : pot \notin {"no", "unknown"}
    /\ wager' = Finalised(req[r].w)
    /\ attempts' = IF req[r].job THEN 0 ELSE attempts
    /\ Done(r)
    /\ UNCHANGED <<session, chain, late, offered, passed, crashes, decided, custodial>>

(* Not known yet, or the lookup threw. *)
ReconcileUnsure(r) ==
    /\ req[r].op = "reconcile" /\ At(r, "lookup") /\ req[r].w.hash
    /\ Unsettled(r)
    /\ UNCHANGED <<session, wager, chain, late, offered, passed, crashes, decided, custodial>>

(* An UPDATE guarded by the status it expects. *)
ReconcileGiveUp(r) ==
    /\ req[r].op = "reconcile" /\ At(r, "giveUp")
    /\ wager' = IF wager # NoRow /\ wager.status = "SETTLING"
                THEN [wager EXCEPT !.status = "FAILED"] ELSE wager
    /\ attempts' = 0
    /\ Done(r)
    /\ UNCHANGED <<session, chain, late, offered, passed, crashes, decided, custodial>>

-----------------------------------------------------------------------------
(* remove, time and restarts *)

RemoveRead(r) ==
    /\ ByUser(r)
    /\ session # NoSession
    /\ wager # NoRow => wager.status \in TERMINAL_WAGER_STATUSES
    /\ Begin(r, [Idle EXCEPT !.op = "remove", !.pc = "delete"])
    /\ UNCHANGED <<session, wager, chain, late, env>>

RemoveDelete(r) ==
    /\ req[r].op = "remove" /\ At(r, "delete")
    /\ session' = NoSession
    /\ Done(r)
    /\ UNCHANGED <<wager, chain, late, env>>

(* INVITATION_TTL_MINUTES, WAGER_STAKE_DEADLINE_MINUTES and the contract's *)
(* week-long claim window, which is by far the longest.                    *)
DeadlinePasses(d) ==
    /\ session # NoSession \/ wager # NoRow
    /\ d \notin passed
    /\ d = "claim" => Deadlines \ {"claim"} \subseteq passed
    /\ passed' = passed \cup {d}
    /\ UNCHANGED <<session, wager, chain, late, req, offered, attempts, crashes, decided, custodial>>

(* The process dies and restarts: requests in flight are gone, what they   *)
(* sent is not.                                                            *)
Crash ==
    /\ crashes < MaxCrashes
    /\ crashes' = crashes + 1
    /\ late' = late \cup {req[r].tx : r \in {q \in Slots : req[q].sent = "pending"}}
    /\ req' = [r \in Slots |-> Idle]
    /\ attempts' = 0
    /\ UNCHANGED <<session, wager, chain, offered, passed, decided, custodial>>

Init ==
    /\ session = NoSession /\ wager = NoRow
    /\ opened = FALSE /\ paidTo = "none" /\ Escrow!Init
    /\ late = {}
    /\ req = [r \in Slots |-> Idle]
    /\ offered = [x \in Seats |-> 0]
    /\ attempts = 0 /\ passed = {} /\ crashes = 0 /\ decided = {}
    /\ custodial \in KeyStores

(* The next step of a request in flight, its transaction landing aside.    *)
Progress(r) ==
    \/ CreateInsert(r) \/ CreateRefused(r) \/ CreateOpened(r) \/ CreateNotOpened(r)
    \/ CreateOffer(r) \/ CreateStaked(r) \/ CreateNotStaked(r) \/ CreateFailed(r)
    \/ CreateDelete(r)
    \/ AcceptWager(r) \/ AcceptStaked(r) \/ AcceptNotStaked(r) \/ AcceptStart(r)
    \/ AbandonSave(r) \/ CompleteSave(r)
    \/ SettleRead(r) \/ SettleSave(r) \/ SettleOutcome(r)
    \/ RefundJobClose(r) \/ EndCall(r)
    \/ ConfirmOutcome(r) \/ FreshOffer(r)
    \/ ReconcileNoHash(r) \/ ReconcileSettled(r) \/ ReconcileUnsure(r)
    \/ ReconcileGiveUp(r) \/ RemoveDelete(r)

Arrive(r) ==
    \/ Create(r) \/ AcceptRead(r) \/ AbandonRead(r) \/ RefundJobRead(r) \/ RemoveRead(r)
    \/ \E p \in ScorePairs : CompleteRead(r, p[1], p[2])
    \/ \E seat, owner \in Seats, n \in 1..MaxOffers : ConfirmRead(r, seat, owner, n)
    \/ \E seat \in Seats : FreshRead(r, seat)
    \/ \E job \in BOOLEAN : ReconcileRead(r, job)

Next ==
    \/ \E r \in Slots : Arrive(r) \/ Progress(r) \/ LandAwaited(r)
    \/ \E tx \in late : LandLate(tx)
    \/ \E seat \in Seats : ClaimRefund(seat)
    \/ \E d \in Deadlines : DeadlinePasses(d)
    \/ Crash

Spec == Init /\ [][Next]_vars

(* Every handler in flight goes on, and WagerReconcileJob's cron comes back *)
(* every minute whatever else is running; nobody is assumed to send a       *)
(* request, and nothing to land.                                           *)
FairSpec ==
    /\ Spec
    /\ \A r \in Slots : WF_vars(Progress(r))
    /\ \A r \in JobSlots : SF_vars(ReconcileRead(r, TRUE))

-----------------------------------------------------------------------------
(* Where a request may stand; at SnapshotPcs it holds a wager it read.     *)
SnapshotPcs == {"opening", "offer", "staking", "refunding", "refund", "payout",
                "settling", "confirming", "lookup"}
SessionPcs == {"start", "abandon", "finish"}
Pcs == SnapshotPcs \cup SessionPcs
       \cup {"idle", "insert", "delete", "wager", "draw", "resolve", "close", "end", "giveUp"}

InFlight ==
    [op : Ops, pc : Pcs, s : GameSession \cup {NoSession}, w : Wager \cup {NoRow},
     tx : Tx, sent : {"no", "pending", "landed"}, arg : Seats \cup {"draw", "none"},
     job : BOOLEAN, n : 0..MaxOffers]

(* Rows, snapshots and transactions have the shape of the code's types.    *)
TypeOK ==
    /\ session \in GameSession \cup {NoSession}
    /\ wager \in Wager \cup {NoRow}
    /\ opened \in BOOLEAN
    /\ held \in [{Match} -> SUBSET Seats]
    /\ reclaimed \subseteq {Match}
    /\ settled \in [{Match} -> {"no", "paid", "returned"}]
    /\ paidTo \in Seats \cup {"none"}
    /\ late \subseteq Tx \ {NoTx}
    /\ req \in [Slots -> InFlight]
    /\ offered \in [Seats -> 0..MaxOffers]
    /\ attempts \in Nat /\ custodial \in BOOLEAN

(* settle and reconcileWager: whatever requests, sweeps and restarts       *)
(* interleave, a wager is reported WON or REFUNDED only when the contract  *)
(* has settled the pot.                                                    *)
FinalMeansSettled ==
    wager # NoRow /\ wager.status \in {"WON", "REFUNDED"} => settled[Match] # "no"

(* completeWageredGame: the contract never pays a player no reported final *)
(* score has ahead, however calls overlap, fail or are retried.  The match *)
(* may be reported more than once, with different scores: which of the     *)
(* reports is paid is left open.                                           *)
PaidAsDecided ==
    /\ paidTo = "a" => \E p \in decided : p[1] > p[2]
    /\ paidTo = "b" => \E p \in decided : p[2] > p[1]

(* The wager row tells the truth about the ledger: STAKED while both       *)
(* stakes are in escrow (until the claim window opens), WON once the pot   *)
(* was paid to the recorded winner, REFUNDED once it was returned.         *)
RowMatchesLedger ==
    wager # NoRow =>
       /\ wager.status = "STAKED" => held[Match] = Seats \/ "claim" \in passed
       /\ wager.status = "WON" => settled[Match] = "paid" /\ paidTo = wager.winner
       /\ wager.status = "REFUNDED" => settled[Match] = "returned"

(* SETTLING is not forever: the reconcile job finalises the wager or gives *)
(* it up to an operator.                                                   *)
SettlingEnds ==
    (wager # NoRow /\ wager.status = "SETTLING")
       ~> (wager = NoRow \/ wager.status # "SETTLING")

(* Entity comment: STAKED means both stakes are in escrow.                 *)
StakedMeansFunded ==
    wager # NoRow /\ wager.status = "STAKED" =>
       held[Match] = Seats \/ "claim" \in passed
=============================================================================
