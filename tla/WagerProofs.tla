---------------------------- MODULE WagerProofs ----------------------------
(***************************************************************************)
(* Proofs about WagerMatch for any number of overlapping requests and      *)
(* sweeps, any scores and any bounds: what the lock-free read, call, save  *)
(* pattern of the wager code guarantees however its handlers interleave,   *)
(* crash, and see their transactions land late.                            *)
(***************************************************************************)
EXTENDS WagerMatch, TLAPS

(* A final score in which the seat outscored the other was reported.       *)
Decided(seat) ==
    /\ seat = "a" => \E p \in decided : p[1] > p[2]
    /\ seat = "b" => \E p \in decided : p[2] > p[1]

(* What a request's place in its handler says of the data it carries.      *)
SlotOK(q) ==
    /\ q.pc \in SnapshotPcs => q.w # NoRow
    /\ q.op \in {"accept", "abandon", "complete"} => q.s # NoSession
    /\ q.pc = "abandon" => q.op \in {"accept", "abandon"}
    /\ q.sent # "no" => q.tx # NoTx
    /\ q.pc \in {"resolve", "payout"} => q.op = "complete" /\ q.arg \in Seats
    /\ q.op \in {"confirm", "fresh"} => q.arg \in Seats
    /\ q.pc = "settling" => q.tx.call \in {"resolve", "refund"}

(* No row and no snapshot is ahead of the ledger, and a settlement seen to *)
(* have landed has settled the pot.                                        *)
Ahead(w) == w # NoRow /\ w.status \in {"WON", "REFUNDED"}

NoneAhead ==
    /\ Ahead(wager) => settled[Match] # "no"
    /\ \A r \in Slots :
          /\ Ahead(req[r].w) => settled[Match] # "no"
          /\ req[r].pc = "settling" /\ req[r].sent = "landed" => settled[Match] # "no"

(* Nobody is paid, or about to be paid, without a score to show for it.    *)
PaidByScore ==
    /\ Decided(paidTo)
    /\ \A tx \in late : tx.call = "resolve" => Decided(tx.who)
    /\ \A r \in Slots :
          /\ req[r].tx.call = "resolve" => Decided(req[r].tx.who)
          /\ req[r].op = "complete" => Decided(req[r].arg)

SlotsOK == \A r \in Slots : SlotOK(req[r])

IInv == TypeOK /\ SlotsOK /\ NoneAhead /\ PaidByScore

-----------------------------------------------------------------------------
(* What a slot's new state q and the rows it leaves must satisfy.          *)
StepOK(q) ==
    /\ q \in InFlight /\ SlotOK(q)
    /\ Ahead(q.w) => settled[Match] # "no"
    /\ q.pc = "settling" /\ q.sent = "landed" => settled[Match] # "no"
    /\ q.tx.call = "resolve" => Decided(q.tx.who)
    /\ q.op = "complete" => Decided(q.arg)

RowsOK ==
    /\ session \in GameSession \cup {NoSession}
    /\ wager \in Wager \cup {NoRow}
    /\ Ahead(wager) => settled[Match] # "no"
    /\ offered \in [Seats -> 0..MaxOffers]
    /\ attempts \in Nat

LateOK ==
    /\ late \subseteq Tx \ {NoTx}
    /\ \A tx \in late : tx.call = "resolve" => Decided(tx.who)

(* What the invariant says of one slot and of what is shared.              *)
LEMMA OneSlot ==
    ASSUME IInv, NEW r \in Slots
    PROVE  StepOK(req[r]) /\ RowsOK /\ LateOK
BY DEF IInv, TypeOK, SlotsOK, NoneAhead, PaidByScore, StepOK, RowsOK, LateOK

(* A step of one request that leaves the ledger alone keeps the invariant  *)
(* when the request's new state does.                                      *)
LEMMA OneSlotMoves ==
    ASSUME IInv, NEW r \in Slots, NEW q, req' = [req EXCEPT ![r] = q],
           StepOK(q), RowsOK', LateOK', UNCHANGED <<chain, decided, custodial>>
    PROVE  IInv'
<1>1. \A seat : Decided(seat)' = Decided(seat)
  BY DEF Decided
<1>2. req' \in [Slots -> InFlight]
  BY DEF IInv, TypeOK, StepOK
<1>3. \A x \in Slots : req'[x] = IF x = r THEN q ELSE req[x]
  BY DEF IInv, TypeOK
<1>4. TypeOK'
  BY <1>2 DEF IInv, TypeOK, RowsOK, LateOK, chain
<1>5. SlotsOK'
  BY <1>3 DEF IInv, SlotsOK, SlotOK, StepOK
<1>6. NoneAhead'
  BY <1>3 DEF IInv, NoneAhead, StepOK, RowsOK, Ahead, chain
<1>7. PaidByScore'
  BY <1>1, <1>3 DEF IInv, PaidByScore, StepOK, LateOK, chain
<1>. QED BY <1>4, <1>5, <1>6, <1>7 DEF IInv

(* Nothing is late that was not, or it is what the request was waiting for. *)
LEMMA LateStays ==
    ASSUME LateOK, UNCHANGED <<late, decided>>
    PROVE  LateOK'
BY DEF LateOK, Decided

(* Giving up waiting adds at most the request's own transaction. *)
LEMMA LateAdded ==
    ASSUME LateOK, NEW r \in Slots, StepOK(req[r]), StopWaiting(r), UNCHANGED decided
    PROVE  LateOK'
<1>1. req[r].sent = "pending" => req[r].tx \in Tx \ {NoTx}
  BY DEF StepOK, SlotOK, InFlight
<1>. QED BY <1>1 DEF LateOK, StopWaiting, StepOK, Decided

(* No transaction is a value of its own. *)
LEMMA NoTxIsTx == NoTx \in Tx
BY DEF NoTx, Tx

(* A slot nothing runs in. *)
LEMMA IdleOK == StepOK(Idle)
<1>1. Idle \in InFlight
  BY NoTxIsTx, WagerAssumption DEF WagerAssumption, Idle, InFlight, Ops, Pcs
<1>2. SlotOK(Idle)
  BY DEF Idle, SlotOK, SnapshotPcs, NoTx
<1>. QED BY <1>1, <1>2 DEF Idle, NoTx, StepOK, Ahead

(* The wager row, saved from a request's snapshot. *)
LEMMA SavedRow ==
    ASSUME RowsOK, NEW w \in Wager \cup {NoRow}, Ahead(w) => settled[Match] # "no",
           wager' = w, session' \in GameSession \cup {NoSession},
           offered' \in [Seats -> 0..MaxOffers], attempts' \in Nat, UNCHANGED settled
    PROVE  RowsOK'
BY DEF RowsOK, Ahead, Wager, WagerStatus, Seats, SettlementKind, GameSession, GameSessionStatus

-----------------------------------------------------------------------------
(* How the operators that move a request preserve StepOK. *)

(* Moving on within the handler. *)
LEMMA Goes ==
    ASSUME NEW q, StepOK(q), NEW pc \in Pcs \ {"abandon", "settling", "resolve", "payout"},
           pc \in SnapshotPcs => q.w # NoRow
    PROVE  StepOK([q EXCEPT !.pc = pc])
<1>. DEFINE g == [q EXCEPT !.pc = pc]
<1>1. g \in InFlight
  BY DEF StepOK, InFlight
<1>2. /\ g.pc = pc /\ g.op = q.op /\ g.s = q.s /\ g.w = q.w
      /\ g.tx = q.tx /\ g.sent = q.sent /\ g.arg = q.arg
  BY DEF StepOK, InFlight
<1>. HIDE DEF g
<1>3. SlotOK(g)
  BY <1>2 DEF StepOK, SlotOK
<1>4. StepOK(g)
  BY <1>1, <1>2, <1>3 DEF StepOK
<1>. QED BY <1>4 DEF g

(* Moving on once a network call has returned. *)
LEMMA Awaits ==
    ASSUME NEW r \in Slots, StepOK(req[r]),
           NEW pc \in Pcs \ {"abandon", "settling", "resolve", "payout"},
           pc \in SnapshotPcs => req[r].w # NoRow
    PROVE  /\ StepOK([Awaited(r) EXCEPT !.pc = pc])
           /\ req[r].pc # "settling" => StepOK(Awaited(r))
           /\ Awaited(r).w = req[r].w
<1>. DEFINE a == Awaited(r)
            g == [a EXCEPT !.pc = pc]
<1>1. a \in InFlight /\ g \in InFlight
  BY NoTxIsTx DEF StepOK, InFlight, Awaited
<1>2. /\ a.op = req[r].op /\ a.s = req[r].s /\ a.w = req[r].w /\ a.pc = req[r].pc
      /\ a.tx = NoTx /\ a.sent = "no" /\ a.arg = req[r].arg
  BY DEF StepOK, InFlight, Awaited
<1>. HIDE DEF a
<1>3. /\ g.op = a.op /\ g.s = a.s /\ g.w = a.w /\ g.pc = pc
      /\ g.tx = a.tx /\ g.sent = a.sent /\ g.arg = a.arg
  BY <1>1 DEF InFlight
<1>. HIDE DEF g
<1>4. NoTx.call = "none"
  BY DEF NoTx
<1>5. SlotOK(g) /\ (req[r].pc # "settling" => SlotOK(a))
  BY <1>2, <1>3 DEF StepOK, SlotOK
<1>6. StepOK(g) /\ (req[r].pc # "settling" => StepOK(a)) /\ a.w = req[r].w
  BY <1>1, <1>2, <1>3, <1>4, <1>5 DEF StepOK
<1>. QED BY <1>6 DEF g, a

(* The same, staying where it is. *)
LEMMA AwaitsInPlace ==
    ASSUME NEW r \in Slots, StepOK(req[r]), req[r].pc # "settling"
    PROVE  StepOK(Awaited(r)) /\ Awaited(r).w = req[r].w
<1>1. "end" \in Pcs \ {"abandon", "settling", "resolve", "payout"} /\ "end" \notin SnapshotPcs
  BY DEF Pcs, SnapshotPcs
<1>. QED BY <1>1, Awaits

(* Reading the wager row. *)
LEMMA Takes ==
    ASSUME NEW q, StepOK(q), NEW w \in Wager \cup {NoRow},
           q.pc \in SnapshotPcs => w # NoRow, Ahead(w) => settled[Match] # "no"
    PROVE  StepOK([q EXCEPT !.w = w]) /\ [q EXCEPT !.w = w].w = w
<1>. DEFINE g == [q EXCEPT !.w = w]
<1>1. g \in InFlight
  BY DEF StepOK, InFlight
<1>2. /\ g.op = q.op /\ g.s = q.s /\ g.w = w /\ g.pc = q.pc
      /\ g.tx = q.tx /\ g.sent = q.sent /\ g.arg = q.arg
  BY DEF StepOK, InFlight
<1>. HIDE DEF g
<1>3. SlotOK(g)
  BY <1>2 DEF StepOK, SlotOK
<1>4. StepOK(g) /\ g.w = w
  BY <1>1, <1>2, <1>3 DEF StepOK
<1>. QED BY <1>4 DEF g

(* Handing a transaction to the network. *)
LEMMA Sends ==
    ASSUME NEW q, StepOK(q), q.w # NoRow,
           NEW pc \in Pcs \ {"abandon", "resolve", "payout"}, NEW call, NEW who,
           [call |-> call, who |-> who] \in Tx, call # "none",
           pc = "settling" => call \in {"resolve", "refund"},
           call = "resolve" => Decided(who)
    PROVE  StepOK(Sending(q, pc, call, who))
<1>. DEFINE tx == [call |-> call, who |-> who]
            g == [q EXCEPT !.pc = pc, !.tx = tx, !.sent = "pending"]
<1>1. tx # NoTx /\ tx.call = call /\ tx.who = who
  BY DEF NoTx
<1>. HIDE DEF tx
<1>2. g \in InFlight
  BY DEF StepOK, InFlight, tx
<1>3. /\ g.op = q.op /\ g.s = q.s /\ g.w = q.w /\ g.pc = pc
      /\ g.tx = tx /\ g.sent = "pending" /\ g.arg = q.arg
  BY DEF StepOK, InFlight
<1>. HIDE DEF g
<1>4. SlotOK(g)
  BY <1>1, <1>3 DEF StepOK, SlotOK
<1>5. StepOK(g)
  BY <1>1, <1>2, <1>3, <1>4 DEF StepOK
<1>. QED BY <1>5 DEF g, tx, Sending

(* The transactions the backend sends. *)
LEMMA Txs ==
    /\ [call |-> "open_pot", who |-> "none"] \in Tx
    /\ [call |-> "refund", who |-> "none"] \in Tx
    /\ \A x \in Seats : [call |-> "stake", who |-> x] \in Tx /\ [call |-> "resolve", who |-> x] \in Tx
BY DEF Tx

(* Every way the code rewrites a wager it read keeps its type, and only    *)
(* Finalised makes it final.                                               *)
LEMMA Rewrites ==
    ASSUME NEW w \in Wager
    PROVE  /\ \A x \in {"AWAITING_STAKES", "FAILED"} :
                 [w EXCEPT !.status = x] \in Wager /\ ~Ahead([w EXCEPT !.status = x])
           /\ \A x \in Seats :
                 /\ [w EXCEPT !.staked = w.staked \cup {x}] \in Wager
                 /\ Ahead([w EXCEPT !.staked = w.staked \cup {x}]) => Ahead(w)
           /\ AfterStakeB(w) \in Wager /\ (Ahead(AfterStakeB(w)) => Ahead(w))
           /\ [w EXCEPT !.hash = TRUE] \in Wager /\ (Ahead([w EXCEPT !.hash = TRUE]) => Ahead(w))
           /\ Finalised(w) \in Wager
<1>1. w # NoRow
  BY RowAssumption
<1>2. \A x \in {"AWAITING_STAKES", "FAILED"} :
         [w EXCEPT !.status = x] \in Wager /\ [w EXCEPT !.status = x].status = x
  BY DEF Wager, WagerStatus
<1>3. \A x \in Seats :
         /\ [w EXCEPT !.staked = w.staked \cup {x}] \in Wager
         /\ [w EXCEPT !.staked = w.staked \cup {x}].status = w.status
  BY DEF Wager
<1>4. /\ AfterStakeB(w) \in Wager
      /\ AfterStakeB(w).status \in {w.status, "STAKED"}
  BY DEF Wager, WagerStatus, Seats, AfterStakeB
<1>5. [w EXCEPT !.hash = TRUE] \in Wager /\ [w EXCEPT !.hash = TRUE].status = w.status
  BY DEF Wager
<1>6. Finalised(w) \in Wager
  BY DEF Wager, WagerStatus, Seats, Finalised
<1>. QED BY <1>1, <1>2, <1>3, <1>4, <1>5, <1>6 DEF Ahead

(* createWager's first row. *)
LEMMA NewWagerOK == NewWager \in Wager /\ ~Ahead(NewWager)
BY WagerAssumption DEF WagerAssumption, NewWager, Wager, WagerStatus, Seats, Ahead

-----------------------------------------------------------------------------
(* One lemma per handler: each of its steps keeps the invariant. *)

(* create and createWager. *)
LEMMA CreateKeeps ==
    ASSUME IInv, NEW r \in Slots,
           \/ CreateInsert(r) \/ CreateRefused(r) \/ CreateOpened(r) \/ CreateNotOpened(r)
           \/ CreateOffer(r) \/ CreateStaked(r) \/ CreateNotStaked(r) \/ CreateFailed(r)
           \/ CreateDelete(r)
    PROVE  IInv'
<1>1. StepOK(req[r]) /\ RowsOK /\ LateOK
  BY OneSlot
<1>2. req[r].w # NoRow => req[r].w \in Wager
  BY <1>1 DEF StepOK, InFlight
<1>3. CASE CreateInsert(r)
  <2>. DEFINE q0 == [req[r] EXCEPT !.w = NewWager]
  <2>1. req[r].pc \notin SnapshotPcs
    BY <1>3 DEF CreateInsert, At, SnapshotPcs
  <2>2. StepOK(q0) /\ q0.w = NewWager
    BY <1>1, <2>1, NewWagerOK, Takes
  <2>. HIDE DEF q0
  <2>3. StepOK(Sending(q0, "opening", "open_pot", "none"))
    BY <2>2, NewWagerOK, RowAssumption, Txs, Sends DEF Pcs, SnapshotPcs
  <2>4. RowsOK'
    BY <1>1, <1>3, NewWagerOK, SavedRow DEF CreateInsert, RowsOK, env, chain
  <2>5. LateOK'
    BY <1>1, <1>3, LateStays DEF CreateInsert, env
  <2>. QED BY <1>3, <2>3, <2>4, <2>5, OneSlotMoves DEF CreateInsert, openEscrow, Goto, env, q0
<1>4. CASE CreateRefused(r)
  <2>1. StepOK([req[r] EXCEPT !.pc = "delete"])
    BY <1>1, Goes DEF Pcs, SnapshotPcs
  <2>2. RowsOK' /\ LateOK'
    BY <1>1, <1>4, LateStays DEF CreateRefused, RowsOK, env, chain, Ahead
  <2>. QED BY <1>4, <2>1, <2>2, OneSlotMoves DEF CreateRefused, Goto, env
<1>5. CASE CreateOpened(r)
  <2>. DEFINE w == [req[r].w EXCEPT !.status = "AWAITING_STAKES"]
              q == [Awaited(r) EXCEPT !.w = w]
  <2>1. req[r].pc = "opening" /\ req[r].w \in Wager
    BY <1>1, <1>2, <1>5 DEF CreateOpened, At, StepOK, SlotOK, SnapshotPcs
  <2>2. w \in Wager /\ ~Ahead(w)
    BY <2>1, Rewrites
  <2>2a. w # NoRow
    BY <2>2, RowAssumption
  <2>3. StepOK(Awaited(r))
    BY <1>1, <2>1, AwaitsInPlace
  <2>4. StepOK(q) /\ q.w = w
    BY <2>2, <2>2a, <2>3, Takes
  <2>. HIDE DEF w, q
  <2>5. StepOK(Sending(q, "staking", "stake", "a")) /\ StepOK([q EXCEPT !.pc = "offer"])
    BY <2>2a, <2>4, Txs, Sends, Goes DEF Pcs, SnapshotPcs, Seats
  <2>6. RowsOK'
    BY <1>1, <1>5, <2>2, SavedRow DEF CreateOpened, RowsOK, env, chain, w
  <2>7. LateOK'
    BY <1>1, <1>5, LateStays DEF CreateOpened, env
  <2>8. CASE custodial
    BY <1>5, <2>5, <2>6, <2>7, <2>8, OneSlotMoves DEF CreateOpened, stakeTokens, Goto, env, w, q
  <2>9. CASE ~custodial
    BY <1>5, <2>5, <2>6, <2>7, <2>9, OneSlotMoves DEF CreateOpened, stakeTokens, Goto, env, w, q
  <2>. QED BY <2>8, <2>9
<1>6. CASE CreateNotOpened(r) \/ CreateFailed(r)
  <2>. DEFINE w == [req[r].w EXCEPT !.status = "FAILED"]
  <2>1. req[r].w \in Wager
    BY <1>1, <1>2, <1>6 DEF CreateNotOpened, CreateFailed, At, StepOK, SlotOK, SnapshotPcs
  <2>2. w \in Wager /\ ~Ahead(w)
    BY <2>1, Rewrites
  <2>3. StepOK([Awaited(r) EXCEPT !.pc = "delete"])
    BY <1>1, Awaits DEF Pcs, SnapshotPcs
  <2>. HIDE DEF w
  <2>4. RowsOK'
    BY <1>1, <1>6, <2>2, SavedRow
    DEF CreateNotOpened, CreateFailed, MarkFailed, RowsOK, env, chain, w
  <2>5. LateOK'
    BY <1>1, <1>6, LateAdded DEF CreateNotOpened, CreateFailed, env
  <2>. QED BY <1>6, <2>3, <2>4, <2>5, OneSlotMoves
           DEF CreateNotOpened, CreateFailed, MarkFailed, Goto, env
<1>7. CASE CreateOffer(r)
  <2>. DEFINE w == [req[r].w EXCEPT !.latest["a"] = offered["a"] + 1, !.deadline = TRUE]
  <2>1. req[r].w \in Wager /\ req[r].w # NoRow
    BY <1>1, <1>2, <1>7 DEF CreateOffer, At, StepOK, SlotOK, SnapshotPcs
  <2>2. offered["a"] + 1 \in 0..MaxOffers /\ [offered EXCEPT !["a"] = offered["a"] + 1] \in [Seats -> 0..MaxOffers]
    BY <1>1, <1>7, WagerAssumption DEF CreateOffer, RowsOK, Seats, WagerAssumption
  <2>3. w \in Wager /\ w.status = req[r].w.status
    BY <2>1, <2>2 DEF Wager, Seats
  <2>4. Ahead(w) => settled[Match] # "no"
    BY <1>1, <2>1, <2>3 DEF Ahead, StepOK
  <2>. HIDE DEF w
  <2>5. RowsOK'
    BY <1>1, <1>7, <2>2, <2>3, <2>4, SavedRow DEF CreateOffer, RowsOK, chain, w
  <2>6. LateOK'
    BY <1>1, <1>7, LateStays DEF CreateOffer
  <2>. QED BY <1>7, <2>5, <2>6, IdleOK, OneSlotMoves DEF CreateOffer, Done
<1>8. CASE CreateStaked(r)
  <2>. DEFINE w == [req[r].w EXCEPT !.staked = req[r].w.staked \cup {"a"}]
  <2>1. req[r].w \in Wager
    BY <1>1, <1>2, <1>8 DEF CreateStaked, At, StepOK, SlotOK, SnapshotPcs
  <2>2. w \in Wager /\ (Ahead(w) => settled[Match] # "no")
    BY <1>1, <2>1, Rewrites DEF StepOK, Seats
  <2>. HIDE DEF w
  <2>3. RowsOK'
    BY <1>1, <1>8, <2>2, SavedRow DEF CreateStaked, RowsOK, env, chain, w
  <2>4. LateOK'
    BY <1>1, <1>8, LateStays DEF CreateStaked, env
  <2>. QED BY <1>8, <2>3, <2>4, IdleOK, OneSlotMoves DEF CreateStaked, Done, env
<1>9. CASE CreateNotStaked(r)
  <2>1. req[r].pc # "settling" /\ req[r].w # NoRow /\ req[r].pc \in Pcs
    BY <1>1, <1>9 DEF CreateNotStaked, At, StepOK, SlotOK, SnapshotPcs, Pcs
  <2>2. StepOK(Awaited(r)) /\ Awaited(r).w = req[r].w
    BY <1>1, <2>1, AwaitsInPlace
  <2>3. StepOK(Sending(Awaited(r), "refunding", "refund", "none"))
    BY <2>1, <2>2, Txs, Sends DEF Pcs, SnapshotPcs
  <2>4. RowsOK'
    BY <1>1, <1>9 DEF CreateNotStaked, RowsOK, env, chain, Ahead
  <2>5. LateOK'
    BY <1>1, <1>9, LateAdded DEF CreateNotStaked, env
  <2>. QED BY <1>9, <2>3, <2>4, <2>5, OneSlotMoves DEF CreateNotStaked, Goto, env
<1>10. CASE CreateDelete(r)
  <2>1. RowsOK' /\ LateOK'
    BY <1>1, <1>10, LateStays DEF CreateDelete, RowsOK, env, chain, Ahead
  <2>. QED BY <1>10, <2>1, IdleOK, OneSlotMoves DEF CreateDelete, Done, env
<1>. QED BY <1>3, <1>4, <1>5, <1>6, <1>7, <1>8, <1>9, <1>10

(* accept and acceptWager. *)
LEMMA AcceptKeeps ==
    ASSUME IInv, NEW r \in Slots,
           \/ AcceptWager(r) \/ AcceptStaked(r) \/ AcceptNotStaked(r) \/ AcceptStart(r)
    PROVE  IInv'
<1>1. StepOK(req[r]) /\ RowsOK /\ LateOK
  BY OneSlot
<1>2. req[r].w # NoRow => req[r].w \in Wager
  BY <1>1 DEF StepOK, InFlight
<1>3. CASE AcceptWager(r)
  <2>. DEFINE q == [req[r] EXCEPT !.w = wager]
  <2>1. req[r].pc \notin SnapshotPcs
    BY <1>3 DEF AcceptWager, At, SnapshotPcs
  <2>2. StepOK(q) /\ q.w = wager
    BY <1>1, <2>1, Takes DEF RowsOK
  <2>. HIDE DEF q
  <2>3. wager # NoRow => StepOK(Sending(q, "staking", "stake", "b"))
    BY <2>2, Txs, Sends DEF Pcs, SnapshotPcs, Seats
  <2>4. StepOK([q EXCEPT !.pc = "start"])
    BY <2>2, Goes DEF Pcs, SnapshotPcs, SessionPcs
  <2>5. offered["b"] < MaxOffers =>
           [offered EXCEPT !["b"] = offered["b"] + 1] \in [Seats -> 0..MaxOffers]
    BY <1>1, WagerAssumption DEF RowsOK, Seats, WagerAssumption
  <2>6. RowsOK' /\ LateOK'
    BY <1>1, <1>3, <2>5, LateStays DEF AcceptWager, RowsOK, chain, Ahead
  <2>7. /\ UNCHANGED <<chain, decided, custodial>>
        /\ \/ Done(r)
           \/ wager # NoRow /\ Goto(r, Sending(q, "staking", "stake", "b"))
           \/ Goto(r, [q EXCEPT !.pc = "start"])
    BY <1>3 DEF AcceptWager, stakeTokens, AwaitsB, q
  <2>. QED BY <2>3, <2>4, <2>6, <2>7, IdleOK, OneSlotMoves DEF Done, Goto
<1>4. CASE AcceptStaked(r)
  <2>. DEFINE w == AfterStakeB(req[r].w)
  <2>1. req[r].w \in Wager
    BY <1>1, <1>2, <1>4 DEF AcceptStaked, At, StepOK, SlotOK, SnapshotPcs
  <2>2. w \in Wager /\ (Ahead(w) => settled[Match] # "no")
    BY <1>1, <2>1, Rewrites DEF StepOK
  <2>3. StepOK([Awaited(r) EXCEPT !.pc = "start"])
    BY <1>1, Awaits DEF Pcs, SnapshotPcs, SessionPcs
  <2>. HIDE DEF w
  <2>4. RowsOK'
    BY <1>1, <1>4, <2>2, SavedRow DEF AcceptStaked, RowsOK, env, chain, w
  <2>5. LateOK'
    BY <1>1, <1>4, LateStays DEF AcceptStaked, env
  <2>. QED BY <1>4, <2>3, <2>4, <2>5, OneSlotMoves DEF AcceptStaked, Goto, env
<1>5. CASE AcceptNotStaked(r)
  <2>1. RowsOK'
    BY <1>1, <1>5 DEF AcceptNotStaked, RowsOK, env, chain, Ahead
  <2>2. LateOK'
    BY <1>1, <1>5, LateAdded DEF AcceptNotStaked, env
  <2>. QED BY <1>5, <2>1, <2>2, IdleOK, OneSlotMoves DEF AcceptNotStaked, Done, env
<1>6. CASE AcceptStart(r)
  <2>1. req[r].s \in GameSession
    BY <1>1, <1>6 DEF AcceptStart, StepOK, SlotOK, InFlight
  <2>2. session' \in GameSession
    BY <1>6, <2>1 DEF AcceptStart, GameSession, GameSessionStatus
  <2>3. RowsOK' /\ LateOK'
    BY <1>1, <1>6, <2>2, LateStays DEF AcceptStart, RowsOK, env, chain, Ahead
  <2>. QED BY <1>6, <2>3, IdleOK, OneSlotMoves DEF AcceptStart, Done, env
<1>. QED BY <1>3, <1>4, <1>5, <1>6

(* The steps that only write the session row. *)
LEMMA CloseKeeps ==
    ASSUME IInv, NEW r \in Slots,
           \/ AbandonSave(r) \/ CompleteSave(r) \/ RefundJobClose(r) \/ EndCall(r)
           \/ RemoveDelete(r)
    PROVE  IInv'
<1>1. StepOK(req[r]) /\ RowsOK /\ LateOK
  BY OneSlot
<1>2. req[r].op \in {"accept", "abandon", "complete"} => req[r].s \in GameSession
  BY <1>1 DEF StepOK, SlotOK, InFlight
<1>3. CASE AbandonSave(r)
  <2>1. req[r].s \in GameSession
    BY <1>1, <1>2, <1>3 DEF AbandonSave, At, StepOK, SlotOK
  <2>2. session' \in GameSession
    BY <1>3, <2>1 DEF AbandonSave, GameSession, GameSessionStatus
  <2>3. RowsOK' /\ LateOK'
    BY <1>1, <1>3, <2>2, LateStays DEF AbandonSave, RowsOK, env, chain, Ahead
  <2>4. StepOK([req[r] EXCEPT !.pc = "draw"])
    BY <1>1, Goes DEF Pcs, SnapshotPcs
  <2>. QED BY <1>3, <2>3, <2>4, OneSlotMoves DEF AbandonSave, Goto, env
<1>4. CASE CompleteSave(r)
  <2>1. req[r].s \in GameSession /\ req[r].arg \in Seats \cup {"draw", "none"}
    BY <1>1, <1>2, <1>4 DEF CompleteSave, StepOK, InFlight
  <2>2. session' \in GameSession
    BY <1>4, <2>1 DEF CompleteSave, GameSession, GameSessionStatus
  <2>3. RowsOK' /\ LateOK'
    BY <1>1, <1>4, <2>2, LateStays DEF CompleteSave, RowsOK, env, chain, Ahead
  <2>. QED BY <1>4, <2>3, IdleOK, OneSlotMoves DEF CompleteSave, Done, env
<1>5. CASE RefundJobClose(r)
  <2>1. session' \in GameSession \cup {NoSession}
    BY <1>1, <1>5 DEF RefundJobClose, RowsOK, GameSession, GameSessionStatus
  <2>2. RowsOK' /\ LateOK'
    BY <1>1, <1>5, <2>1, LateStays DEF RefundJobClose, RowsOK, env, chain, Ahead
  <2>. QED BY <1>5, <2>2, IdleOK, OneSlotMoves DEF RefundJobClose, Done, env
<1>6. CASE EndCall(r)
  <2>1. RowsOK' /\ LateOK'
    BY <1>1, <1>6, LateStays DEF EndCall, RowsOK, env, chain, Ahead
  <2>. QED BY <1>6, <2>1, IdleOK, OneSlotMoves DEF EndCall, Done, env
<1>7. CASE RemoveDelete(r)
  <2>1. RowsOK' /\ LateOK'
    BY <1>1, <1>7, LateStays DEF RemoveDelete, RowsOK, env, chain, Ahead
  <2>. QED BY <1>7, <2>1, IdleOK, OneSlotMoves DEF RemoveDelete, Done, env
<1>. QED BY <1>3, <1>4, <1>5, <1>6, <1>7

(* SettleRead takes the row and moves on to the call, or skips it. *)
LEMMA SettleReadKeeps ==
    ASSUME IInv, NEW r \in Slots, SettleRead(r)
    PROVE  IInv'
<1>1. StepOK(req[r]) /\ RowsOK /\ LateOK
  BY OneSlot
<1>2. RowsOK' /\ LateOK'
  BY <1>1, LateStays DEF SettleRead, RowsOK, env, chain, Ahead
<1>3. CASE Settleable(req[r].pc, wager)
  <2>. DEFINE pc == IF At(r, "draw") THEN "refund" ELSE "payout"
              q  == [req[r] EXCEPT !.w = wager, !.pc = pc]
  <2>1. wager \in Wager /\ wager # NoRow
    BY <1>1, <1>3, RowAssumption DEF RowsOK, Settleable
  <2>2. pc \in {"refund", "payout"} /\ (pc = "payout" => req[r].op = "complete" /\ req[r].arg \in Seats)
    BY <1>1 DEF SettleRead, At, StepOK, SlotOK
  <2>3. q \in InFlight
    BY <1>1, <2>1, <2>2, ZenonT(40) DEF StepOK, InFlight, Pcs, SnapshotPcs
  <2>4. /\ q.op = req[r].op /\ q.s = req[r].s /\ q.w = wager /\ q.pc = pc
        /\ q.tx = req[r].tx /\ q.sent = req[r].sent /\ q.arg = req[r].arg
    BY <1>1 DEF StepOK, InFlight
  <2>5. req' = [req EXCEPT ![r] = q]
    BY <1>3 DEF SettleRead, Goto
  <2>. HIDE DEF q, pc
  <2>6. SlotOK(q)
    BY <1>1, <2>1, <2>2, <2>4 DEF StepOK, SlotOK
  <2>7. StepOK(q)
    BY <1>1, <2>2, <2>3, <2>4, <2>6 DEF StepOK, RowsOK
  <2>. QED BY <1>2, <2>5, <2>7, OneSlotMoves DEF SettleRead, env
<1>4. CASE ~Settleable(req[r].pc, wager)
  <2>. DEFINE pc == IF req[r].op = "refundJob" THEN "end" ELSE AfterSettle(req[r].op)
  <2>1. pc \in {"end", "finish", "close"}
    BY DEF AfterSettle
  <2>2. req' = [req EXCEPT ![r] = [req[r] EXCEPT !.pc = pc]]
    BY <1>4 DEF SettleRead, Goto
  <2>. HIDE DEF pc
  <2>3. StepOK([req[r] EXCEPT !.pc = pc])
    BY <1>1, <2>1, Goes DEF Pcs, SnapshotPcs, SessionPcs
  <2>. QED BY <1>2, <2>2, <2>3, OneSlotMoves DEF SettleRead, env
<1>. QED BY <1>3, <1>4

(* SettleSave commits the intent and sends what it says. *)
LEMMA SettleSaveKeeps ==
    ASSUME IInv, NEW r \in Slots, SettleSave(r)
    PROVE  IInv'
<1>1. StepOK(req[r]) /\ RowsOK /\ LateOK
  BY OneSlot
<1>. DEFINE to == Payee(r)
            w  == [req[r].w EXCEPT !.status = "SETTLING", !.kind = req[r].pc, !.intended = to]
            q  == [req[r] EXCEPT !.w = w]
            call == IF At(r, "refund") THEN "refund" ELSE "resolve"
<1>2. req[r].w \in Wager /\ req[r].pc \in {"refund", "payout"}
  BY <1>1 DEF SettleSave, At, StepOK, SlotOK, InFlight, SnapshotPcs
<1>3. to \in Seats \cup {"none"} /\ (call = "resolve" => to \in Seats /\ Decided(to))
      /\ (call = "refund" => to = "none") /\ call \in {"refund", "resolve"}
  BY <1>1, <1>2 DEF Payee, At, StepOK, SlotOK
<1>4. /\ wager' = w
      /\ req' = [req EXCEPT ![r] = Sending(q, "settling", call, to)]
      /\ UNCHANGED <<session, chain, late, env>>
  BY DEF SettleSave, Goto
<1>. HIDE DEF to, call
<1>5. w \in Wager /\ w.status = "SETTLING"
  BY <1>2, <1>3 DEF Wager, WagerStatus, SettlementKind
<1>6. w # NoRow /\ ~Ahead(w)
  BY <1>5, RowAssumption DEF Ahead
<1>. HIDE DEF w
<1>7. StepOK(q) /\ q.w = w
  BY <1>1, <1>5, <1>6, Takes
<1>. HIDE DEF q
<1>8. [call |-> call, who |-> to] \in Tx
  BY <1>3, Txs
<1>9. StepOK(Sending(q, "settling", call, to))
  BY <1>3, <1>6, <1>7, <1>8, Sends DEF Pcs, SnapshotPcs
<1>10. RowsOK'
  BY <1>1, <1>4, <1>5, <1>6, SavedRow DEF RowsOK, env, chain
<1>11. LateOK'
  BY <1>1, <1>4, LateStays DEF env
<1>. QED BY <1>4, <1>9, <1>10, <1>11, OneSlotMoves DEF env

(* SettleOutcome reports a final state only for what has landed. *)
LEMMA SettleOutcomeKeeps ==
    ASSUME IInv, NEW r \in Slots, SettleOutcome(r)
    PROVE  IInv'
<1>1. StepOK(req[r]) /\ RowsOK /\ LateOK
  BY OneSlot
<1>2. req[r].w \in Wager /\ req[r].pc = "settling"
  BY <1>1 DEF SettleOutcome, At, StepOK, SlotOK, InFlight, SnapshotPcs
<1>3. PICK o \in Outcomes(r) :
         /\ wager' = SettledAs(req[r].w, o)
         /\ Goto(r, [Awaited(r) EXCEPT !.pc =
                IF req[r].op = "refundJob" /\ o # "confirmed" THEN "end"
                ELSE AfterSettle(req[r].op)])
  BY DEF SettleOutcome
<1>. DEFINE pc == IF req[r].op = "refundJob" /\ o # "confirmed" THEN "end"
                  ELSE AfterSettle(req[r].op)
<1>4. pc \in {"end", "finish", "close"}
  BY DEF AfterSettle
<1>5. req' = [req EXCEPT ![r] = [Awaited(r) EXCEPT !.pc = pc]]
  BY <1>3 DEF Goto
<1>. HIDE DEF pc
<1>6. StepOK([Awaited(r) EXCEPT !.pc = pc])
  BY <1>1, <1>4, Awaits DEF Pcs, SnapshotPcs, SessionPcs
<1>7. o \in {"failed", "confirmed", "submitted"}
      /\ (o = "confirmed" => settled[Match] # "no")
  BY <1>1, <1>2 DEF Outcomes, StepOK
<1>8. wager' \in Wager /\ (Ahead(wager') => settled[Match] # "no")
  <2>1. CASE o = "confirmed"
    BY <1>2, <1>3, <1>7, <2>1, Rewrites DEF SettledAs
  <2>2. CASE o = "submitted"
    BY <1>1, <1>2, <1>3, <2>2, Rewrites DEF SettledAs, StepOK
  <2>3. CASE o = "failed"
    BY <1>2, <1>3, <2>3, Rewrites DEF SettledAs
  <2>. QED BY <1>7, <2>1, <2>2, <2>3
<1>9. RowsOK'
  BY <1>1, <1>8, SavedRow DEF SettleOutcome, RowsOK, env, chain
<1>10. LateOK'
  BY <1>1, LateAdded DEF SettleOutcome, env
<1>. QED BY <1>5, <1>6, <1>9, <1>10, OneSlotMoves DEF SettleOutcome, env

(* confirmStake and requestFreshStakeTransaction. *)
LEMMA StakesKeep ==
    ASSUME IInv, NEW r \in Slots, ConfirmOutcome(r) \/ FreshOffer(r)
    PROVE  IInv'
<1>1. StepOK(req[r]) /\ RowsOK /\ LateOK
  BY OneSlot
<1>2. req[r].w \in Wager /\ req[r].arg \in Seats
  BY <1>1 DEF ConfirmOutcome, FreshOffer, At, StepOK, SlotOK, InFlight, SnapshotPcs
<1>3. CASE ConfirmOutcome(r)
  <2>. DEFINE w == [req[r].w EXCEPT !.staked = req[r].w.staked \cup {req[r].arg}]
  <2>1. w \in Wager /\ (Ahead(w) => settled[Match] # "no")
    BY <1>1, <1>2, Rewrites DEF StepOK
  <2>2. wager' \in {wager, req[r].w, w}
    BY <1>3 DEF ConfirmOutcome
  <2>. HIDE DEF w
  <2>3. wager' \in Wager \cup {NoRow} /\ (Ahead(wager') => settled[Match] # "no")
    BY <1>1, <1>2, <2>1, <2>2 DEF RowsOK, StepOK
  <2>4. RowsOK'
    BY <1>1, <1>3, <2>3, SavedRow DEF ConfirmOutcome, RowsOK, env, chain
  <2>5. LateOK'
    BY <1>1, <1>3, LateAdded DEF ConfirmOutcome, env
  <2>. QED BY <1>3, <2>4, <2>5, IdleOK, OneSlotMoves DEF ConfirmOutcome, Done, env
<1>4. CASE FreshOffer(r)
  <2>. DEFINE n == offered[req[r].arg] + 1
              w == [req[r].w EXCEPT !.latest[req[r].arg] = n]
  <2>1. n \in 0..MaxOffers /\ [offered EXCEPT ![req[r].arg] = n] \in [Seats -> 0..MaxOffers]
    BY <1>1, <1>2, <1>4, WagerAssumption DEF FreshOffer, RowsOK, WagerAssumption
  <2>2. offered' = [offered EXCEPT ![req[r].arg] = n] /\ wager' = w
    BY <1>4 DEF FreshOffer
  <2>. HIDE DEF n
  <2>3. w \in Wager /\ w.status = req[r].w.status
    BY <1>2, <2>1 DEF Wager
  <2>. HIDE DEF w
  <2>4. Ahead(w) => settled[Match] # "no"
    BY <1>1, <1>2, <2>3, RowAssumption DEF Ahead, StepOK
  <2>5. RowsOK'
    BY <1>1, <1>4, <2>1, <2>2, <2>3, <2>4, SavedRow DEF FreshOffer, RowsOK, chain
  <2>6. LateOK'
    BY <1>1, <1>4, LateStays DEF FreshOffer
  <2>. QED BY <1>4, <2>5, <2>6, IdleOK, OneSlotMoves DEF FreshOffer, Done
<1>. QED BY <1>3, <1>4

(* Reconciliation reports a final state only for a settled pot. *)
LEMMA ReconcileKeeps ==
    ASSUME IInv, NEW r \in Slots,
           \/ ReconcileNoHash(r) \/ ReconcileSettled(r) \/ ReconcileUnsure(r)
           \/ ReconcileGiveUp(r)
    PROVE  IInv'
<1>1. StepOK(req[r]) /\ RowsOK /\ LateOK
  BY OneSlot
<1>2. LateOK' /\ UNCHANGED <<session, chain, decided, custodial, offered>>
  BY <1>1, LateStays DEF ReconcileNoHash, ReconcileSettled, ReconcileUnsure, ReconcileGiveUp
<1>3. Unsettled(r) => /\ attempts' \in Nat
                      /\ \E q : StepOK(q) /\ req' = [req EXCEPT ![r] = q]
  <2>1. StepOK([req[r] EXCEPT !.pc = "giveUp"])
    BY <1>1, Goes DEF Pcs, SnapshotPcs
  <2>. QED BY <1>1, <2>1, IdleOK DEF Unsettled, Done, Goto, RowsOK
<1>4. req[r].pc = "lookup" => req[r].w \in Wager
  BY <1>1 DEF StepOK, SlotOK, InFlight, SnapshotPcs
<1>5. /\ wager' \in Wager \cup {NoRow} /\ (Ahead(wager') => settled[Match] # "no")
      /\ attempts' \in Nat
      /\ \E q : StepOK(q) /\ req' = [req EXCEPT ![r] = q]
  <2>1. CASE ReconcileNoHash(r)
    BY <1>3, <1>4, <2>1, Rewrites DEF ReconcileNoHash, At
  <2>2. CASE ReconcileSettled(r)
    BY <1>1, <1>4, <2>2, Rewrites, IdleOK DEF ReconcileSettled, getPot, readContract, At, Done, RowsOK
  <2>3. CASE ReconcileUnsure(r)
    BY <1>1, <1>3, <2>3 DEF ReconcileUnsure, RowsOK
  <2>4. CASE ReconcileGiveUp(r)
    BY <1>1, <2>4, Rewrites, IdleOK DEF ReconcileGiveUp, Done, RowsOK
  <2>. QED BY <2>1, <2>2, <2>3, <2>4
<1>6. RowsOK'
  BY <1>1, <1>2, <1>5, SavedRow DEF RowsOK, chain
<1>. QED BY <1>2, <1>5, <1>6, OneSlotMoves

-----------------------------------------------------------------------------
(* Requests arriving, except completions. *)
LEMMA ArriveKeeps ==
    ASSUME IInv, NEW r \in Slots,
           \/ Create(r) \/ AcceptRead(r) \/ AbandonRead(r) \/ RefundJobRead(r) \/ RemoveRead(r)
           \/ \E seat, owner \in Seats, n \in 1..MaxOffers : ConfirmRead(r, seat, owner, n)
           \/ \E seat \in Seats : FreshRead(r, seat)
           \/ \E job \in BOOLEAN : ReconcileRead(r, job)
    PROVE  IInv'
<1>1. StepOK(req[r]) /\ RowsOK /\ LateOK
  BY OneSlot
<1>1a. Idle \in InFlight /\ session \in GameSession \cup {NoSession} /\ wager \in Wager \cup {NoRow}
  BY <1>1, IdleOK DEF StepOK, RowsOK
<1>2. LateOK' /\ UNCHANGED <<wager, chain, offered, attempts, decided, custodial>>
  BY <1>1, LateStays DEF Create, AcceptRead, AbandonRead, RefundJobRead, RemoveRead,
       ConfirmRead, FreshRead, ReconcileRead, env
<1>3. session' \in GameSession \cup {NoSession}
  <2>1. CASE Create(r)
    BY <2>1 DEF Create, GameSession, GameSessionStatus
  <2>2. CASE ~Create(r)
    BY <1>1a, <2>2 DEF AcceptRead, AbandonRead, RefundJobRead, RemoveRead,
       ConfirmRead, FreshRead, ReconcileRead
  <2>. QED BY <2>1, <2>2
<1>4. RowsOK'
  BY <1>1, <1>2, <1>3 DEF RowsOK, chain, Ahead
<1>5. SUFFICES \E q : StepOK(q) /\ req' = [req EXCEPT ![r] = q]
  BY <1>2, <1>4, OneSlotMoves
<1>6. CASE Create(r)
  <2>. DEFINE q == [Idle EXCEPT !.op = "create", !.pc = "insert"]
  <2>1. q \in InFlight
    BY IdleOK DEF StepOK, InFlight, Ops, Pcs
  <2>2. StepOK(q)
    BY <2>1 DEF Idle, StepOK, SlotOK, Ahead, SnapshotPcs, NoTx
  <2>. QED BY <1>6, <2>2 DEF Create, Begin
<1>7. CASE AcceptRead(r)
  <2>. DEFINE pc == IF "invitation" \in passed THEN "abandon" ELSE "wager"
              q == [Idle EXCEPT !.op = "accept", !.s = session, !.pc = pc]
  <2>1. pc \in {"abandon", "wager"} /\ req' = [req EXCEPT ![r] = q] /\ session # NoSession
    BY <1>7 DEF AcceptRead, Begin
  <2>. HIDE DEF pc
  <2>2. q \in InFlight
    BY <1>1a, <2>1, ZenonT(40) DEF InFlight, Ops, Pcs, SessionPcs
  <2>3. StepOK(q)
    BY <2>1, <2>2 DEF Idle, StepOK, SlotOK, Ahead, SnapshotPcs, NoTx
  <2>. QED BY <2>1, <2>3
<1>8. CASE AbandonRead(r)
  <2>. DEFINE q == [Idle EXCEPT !.op = "abandon", !.s = session, !.pc = "abandon"]
  <2>1. req' = [req EXCEPT ![r] = q] /\ session # NoSession
    BY <1>8 DEF AbandonRead, Begin
  <2>2. q \in InFlight
    BY <1>1a, <2>1, ZenonT(40) DEF InFlight, Ops, Pcs, SessionPcs
  <2>3. StepOK(q)
    BY <2>1, <2>2 DEF Idle, StepOK, SlotOK, Ahead, SnapshotPcs, NoTx
  <2>. QED BY <2>1, <2>3
<1>9. CASE RefundJobRead(r)
  <2>. DEFINE q == [Idle EXCEPT !.op = "refundJob", !.pc = "draw"]
  <2>1. q \in InFlight
    BY IdleOK DEF StepOK, InFlight, Ops, Pcs
  <2>2. StepOK(q)
    BY <2>1 DEF Idle, StepOK, SlotOK, Ahead, SnapshotPcs, NoTx
  <2>. QED BY <1>9, <2>2 DEF RefundJobRead, Begin
<1>10. CASE RemoveRead(r)
  <2>. DEFINE q == [Idle EXCEPT !.op = "remove", !.pc = "delete"]
  <2>1. q \in InFlight
    BY IdleOK, ZenonT(40) DEF StepOK, InFlight, Ops, Pcs
  <2>2. StepOK(q)
    BY <2>1 DEF Idle, StepOK, SlotOK, Ahead, SnapshotPcs, NoTx
  <2>. QED BY <1>10, <2>2 DEF RemoveRead, Begin
<1>11. ASSUME NEW seat \in Seats, NEW owner \in Seats,
           NEW n \in 1..MaxOffers, ConfirmRead(r, seat, owner, n)
       PROVE  \E q : StepOK(q) /\ req' = [req EXCEPT ![r] = q]
  <2>. DEFINE q0 == [Idle EXCEPT !.op = "confirm", !.w = wager, !.arg = seat, !.n = n]
  <2>1. wager # NoRow /\ req' = [req EXCEPT ![r] = Sending(q0, "confirming", "stake", seat)]
    BY <1>11 DEF ConfirmRead, Begin, confirmStake, assertIsStake
  <2>2. n \in 0..MaxOffers
    BY WagerAssumption DEF WagerAssumption
  <2>3. q0 \in InFlight
    BY <1>1a, <2>2 DEF InFlight, Ops
  <2>4. StepOK(q0) /\ q0.w = wager
    BY <1>1, <2>3 DEF Idle, StepOK, SlotOK, SnapshotPcs, NoTx, RowsOK
  <2>. HIDE DEF q0
  <2>5. StepOK(Sending(q0, "confirming", "stake", seat))
    BY <2>1, <2>4, Txs, Sends DEF Pcs, SnapshotPcs
  <2>. QED BY <2>1, <2>5
<1>12. ASSUME NEW seat \in Seats, FreshRead(r, seat)
       PROVE  \E q : StepOK(q) /\ req' = [req EXCEPT ![r] = q]
  <2>. DEFINE q == [Idle EXCEPT !.op = "fresh", !.pc = "offer", !.w = wager, !.arg = seat]
  <2>1. wager # NoRow /\ req' = [req EXCEPT ![r] = q]
    BY <1>12 DEF FreshRead, Begin
  <2>2. q \in InFlight
    <3>1. "fresh" \in Ops /\ "offer" \in Pcs
      BY DEF Ops, Pcs, SnapshotPcs
    <3>. QED BY <1>1a, <3>1 DEF InFlight
  <2>3. StepOK(q)
    BY <1>1, <2>1, <2>2 DEF Idle, StepOK, SlotOK, SnapshotPcs, NoTx, RowsOK
  <2>. QED BY <2>1, <2>3
<1>13. ASSUME NEW job \in BOOLEAN, ReconcileRead(r, job)
       PROVE  \E q : StepOK(q) /\ req' = [req EXCEPT ![r] = q]
  <2>. DEFINE q == [Idle EXCEPT !.op = "reconcile", !.pc = "lookup", !.w = wager, !.job = job]
  <2>1. wager # NoRow /\ req' = [req EXCEPT ![r] = q]
    BY <1>13 DEF ReconcileRead, Begin
  <2>2. q \in InFlight
    BY <1>1a, ZenonT(40) DEF InFlight, Ops, Pcs, SnapshotPcs
  <2>3. StepOK(q)
    BY <1>1, <2>1, <2>2 DEF Idle, StepOK, SlotOK, SnapshotPcs, NoTx, RowsOK
  <2>. QED BY <2>1, <2>3
<1>. QED BY <1>6, <1>7, <1>8, <1>9, <1>10, <1>11, <1>12, <1>13

(* A completion records the score its winner comes from. *)
LEMMA CompleteReadKeeps ==
    ASSUME IInv, NEW r \in Slots, NEW one, NEW two, CompleteRead(r, one, two)
    PROVE  IInv'
<1>1. StepOK(req[r]) /\ RowsOK /\ LateOK
  BY OneSlot
<1>1a. Idle \in InFlight /\ session \in GameSession \cup {NoSession}
  BY <1>1, IdleOK DEF StepOK, RowsOK
<1>. DEFINE x == WinnerOf(one, two)
            pc == IF x = "draw" THEN "draw" ELSE "resolve"
            q == [Idle EXCEPT !.op = "complete", !.s = session, !.arg = x, !.pc = pc]
<1>2. /\ req' = [req EXCEPT ![r] = q] /\ session # NoSession
      /\ decided' = decided \cup {<<one, two>>}
      /\ UNCHANGED <<session, wager, chain, late, offered, attempts, custodial>>
  BY DEF CompleteRead, Begin
<1>3. x \in Seats \cup {"draw"} /\ pc \in {"draw", "resolve"} /\ (pc = "resolve" => x \in Seats)
  BY DEF WinnerOf, Seats
<1>4. \A seat : Decided(seat) => Decided(seat)'
  BY <1>2 DEF Decided
<1>5. Decided(x)'
  <2>1. <<one, two>> \in decided' /\ <<one, two>>[1] = one /\ <<one, two>>[2] = two
    BY <1>2
  <2>2. (x = "a" => one > two) /\ (x = "b" => two > one)
    BY DEF WinnerOf
  <2>. QED BY <2>1, <2>2 DEF Decided
<1>. HIDE DEF x, pc
<1>6. q \in InFlight
  <2>1. "complete" \in Ops /\ pc \in Pcs /\ x \in Seats \cup {"draw", "none"}
    BY <1>3 DEF Ops, Pcs
  <2>. QED BY <1>1a, <2>1 DEF InFlight
<1>7. /\ q.op = "complete" /\ q.s = session /\ q.w = NoRow /\ q.pc = pc
      /\ q.tx.call = "none" /\ q.sent = "no" /\ q.arg = x
  BY DEF Idle, NoTx
<1>. HIDE DEF q
<1>8. SlotOK(q)
  BY <1>2, <1>3, <1>7 DEF SlotOK, SnapshotPcs
<1>9. \A y \in Slots : req'[y] = IF y = r THEN q ELSE req[y]
  BY <1>2 DEF IInv, TypeOK
<1>10. TypeOK'
  BY <1>2, <1>6 DEF IInv, TypeOK, chain
<1>11. SlotsOK'
  BY <1>8, <1>9 DEF IInv, SlotsOK, SlotOK
<1>12. NoneAhead'
  BY <1>2, <1>3, <1>7, <1>9 DEF IInv, NoneAhead, Ahead, chain
<1>13. PaidByScore'
  BY <1>2, <1>4, <1>5, <1>7, <1>9 DEF IInv, PaidByScore, chain
<1>. QED BY <1>10, <1>11, <1>12, <1>13 DEF IInv

(* What a landing transaction does to the ledger. *)
LEMMA Landing ==
    ASSUME TypeOK, Decided(paidTo), NEW tx \in Tx, Land(tx),
           tx.call = "resolve" => Decided(tx.who), UNCHANGED decided
    PROVE  /\ opened' \in BOOLEAN /\ held' \in [{Match} -> SUBSET Seats] /\ reclaimed' \subseteq {Match}
           /\ settled' \in [{Match} -> {"no", "paid", "returned"}]
           /\ paidTo' \in Seats \cup {"none"} /\ Decided(paidTo)'
           /\ settled[Match] # "no" => settled'[Match] # "no"
           /\ tx.call \in {"resolve", "refund"} => settled'[Match] # "no"
<1>. USE DEF TypeOK, Decided
<1>1. CASE tx.call = "open_pot"
  BY <1>1 DEF Land
<1>2. CASE tx.call = "stake"
  <2>1. tx.who \in Seats
    BY <1>2 DEF Tx
  <2>. QED BY <1>2, <2>1 DEF Land, Escrow!Deposit
<1>3. CASE tx.call = "resolve"
  <2>1. tx.who \in Seats
    BY <1>3 DEF Tx
  <2>. QED BY <1>3, <2>1 DEF Land, Escrow!PayWinner
<1>4. CASE tx.call = "refund"
  BY <1>4 DEF Land, Escrow!ReturnAll
<1>. QED BY <1>1, <1>2, <1>3, <1>4 DEF Land

(* A transaction lands while its sender polls. *)
LEMMA LandAwaitedKeeps ==
    ASSUME IInv, NEW r \in Slots, LandAwaited(r)
    PROVE  IInv'
<1>1. StepOK(req[r])
  BY OneSlot
<1>. DEFINE q == [req[r] EXCEPT !.sent = "landed"]
<1>2. /\ req' = [req EXCEPT ![r] = q] /\ Land(req[r].tx) /\ req[r].sent = "pending"
      /\ UNCHANGED <<session, wager, late, offered, attempts, decided, custodial>>
  BY DEF LandAwaited, env
<1>3. /\ q \in InFlight /\ q.op = req[r].op /\ q.s = req[r].s /\ q.w = req[r].w
      /\ q.pc = req[r].pc /\ q.tx = req[r].tx /\ q.arg = req[r].arg /\ q.sent = "landed"
      /\ req[r].tx \in Tx
  BY <1>1 DEF StepOK, InFlight
<1>. HIDE DEF q
<1>4. /\ opened' \in BOOLEAN /\ held' \in [{Match} -> SUBSET Seats] /\ reclaimed' \subseteq {Match}
      /\ settled' \in [{Match} -> {"no", "paid", "returned"}]
      /\ paidTo' \in Seats \cup {"none"} /\ Decided(paidTo)'
      /\ settled[Match] # "no" => settled'[Match] # "no"
      /\ req[r].tx.call \in {"resolve", "refund"} => settled'[Match] # "no"
  BY <1>1, <1>2, <1>3, Landing DEF IInv, PaidByScore, StepOK
<1>5. \A y \in Slots : req'[y] = IF y = r THEN q ELSE req[y]
  BY <1>2 DEF IInv, TypeOK
<1>6. \A seat : Decided(seat)' = Decided(seat)
  BY <1>2 DEF Decided
<1>7. TypeOK'
  BY <1>2, <1>3, <1>4 DEF IInv, TypeOK
<1>8. SlotOK(q)
  BY <1>1, <1>2, <1>3 DEF StepOK, SlotOK
<1>9. SlotsOK'
  BY <1>5, <1>8 DEF IInv, SlotsOK, SlotOK
<1>10. q.pc = "settling" => settled'[Match] # "no"
  BY <1>3, <1>4, <1>8 DEF SlotOK
<1>11. NoneAhead'
  BY <1>2, <1>3, <1>4, <1>5, <1>10 DEF IInv, NoneAhead, Ahead
<1>12. PaidByScore'
  BY <1>2, <1>3, <1>4, <1>5, <1>6 DEF IInv, PaidByScore
<1>. QED BY <1>7, <1>9, <1>11, <1>12 DEF IInv

(* A transaction lands late, or a player claims a stake back. *)
LEMMA ChainKeeps ==
    ASSUME IInv,
           (\E tx \in late : LandLate(tx)) \/ (\E seat \in Seats : ClaimRefund(seat))
    PROVE  IInv'
<1>1. UNCHANGED <<session, wager, req, offered, attempts, decided, custodial>> /\ late' \subseteq late
  BY DEF LandLate, ClaimRefund, env
<1>2. /\ opened' \in BOOLEAN /\ held' \in [{Match} -> SUBSET Seats] /\ reclaimed' \subseteq {Match}
      /\ settled' \in [{Match} -> {"no", "paid", "returned"}]
      /\ paidTo' \in Seats \cup {"none"} /\ Decided(paidTo)'
      /\ settled[Match] # "no" => settled'[Match] # "no"
  <2>1. ASSUME NEW tx \in late, LandLate(tx)
        PROVE  <1>2!1 /\ <1>2!2 /\ <1>2!3 /\ <1>2!4
    BY <1>1, <2>1, Landing DEF LandLate, IInv, TypeOK, PaidByScore
  <2>2. ASSUME NEW seat \in Seats, ClaimRefund(seat)
        PROVE  <1>2!1 /\ <1>2!2 /\ <1>2!3 /\ <1>2!4
    BY <1>1, <2>2 DEF ClaimRefund, Escrow!TakeBack, IInv, TypeOK, PaidByScore, Decided
  <2>. QED BY <2>1, <2>2
<1>3. \A seat : Decided(seat)' = Decided(seat)
  BY <1>1 DEF Decided
<1>4. TypeOK'
  BY <1>1, <1>2 DEF IInv, TypeOK
<1>5. SlotsOK'
  BY <1>1 DEF IInv, SlotsOK, SlotOK
<1>6. NoneAhead'
  BY <1>1, <1>2 DEF IInv, NoneAhead, Ahead
<1>7. PaidByScore'
  BY <1>1, <1>2, <1>3 DEF IInv, PaidByScore
<1>. QED BY <1>4, <1>5, <1>6, <1>7 DEF IInv

(* A restart forgets the requests and keeps what they sent. *)
LEMMA CrashKeeps ==
    ASSUME IInv, Crash
    PROVE  IInv'
<1>1. /\ req' = [r \in Slots |-> Idle] /\ attempts' = 0
      /\ UNCHANGED <<session, wager, chain, offered, decided, custodial>>
      /\ late' = late \cup {req[r].tx : r \in {q \in Slots : req[q].sent = "pending"}}
  BY DEF Crash
<1>2. \A tx \in late' : tx \in Tx \ {NoTx} /\ (tx.call = "resolve" => Decided(tx.who))
  <2>1. ASSUME NEW r \in Slots, req[r].sent = "pending"
        PROVE  req[r].tx \in Tx \ {NoTx} /\ (req[r].tx.call = "resolve" => Decided(req[r].tx.who))
    BY <2>1, OneSlot DEF StepOK, SlotOK, InFlight
  <2>. QED BY <1>1, <2>1 DEF IInv, TypeOK, PaidByScore
<1>3. \A seat : Decided(seat)' = Decided(seat)
  BY <1>1 DEF Decided
<1>4. StepOK(Idle)
  BY IdleOK
<1>5. Idle.w = NoRow /\ Idle.tx.call = "none" /\ Idle.pc = "idle" /\ Idle.op = "idle"
  BY DEF Idle, NoTx
<1>6. TypeOK'
  BY <1>1, <1>2, <1>4 DEF IInv, TypeOK, StepOK, chain
<1>7. SlotsOK'
  BY <1>1, <1>4 DEF SlotsOK, StepOK, SlotOK
<1>8. NoneAhead'
  BY <1>1, <1>5 DEF IInv, NoneAhead, Ahead, chain
<1>9. PaidByScore'
  BY <1>1, <1>2, <1>3, <1>5 DEF IInv, PaidByScore, chain
<1>. QED BY <1>6, <1>7, <1>8, <1>9 DEF IInv

-----------------------------------------------------------------------------
(* The invariant holds initially, ... *)
LEMMA InitOK == Init => IInv
<1>. SUFFICES ASSUME Init PROVE IInv
  OBVIOUS
<1>1. TypeOK
  <2>1. Idle \in InFlight
    BY IdleOK DEF StepOK
  <2>2. /\ held \in [{Match} -> SUBSET Seats] /\ reclaimed \subseteq {Match}
        /\ settled \in [{Match} -> {"no", "paid", "returned"}]
    BY DEF Init, Escrow!Init
  <2>3. offered \in [Seats -> 0..MaxOffers] /\ custodial \in BOOLEAN
    BY WagerAssumption DEF WagerAssumption, Init
  <2>. QED BY <2>1, <2>2, <2>3 DEF Init, TypeOK
<1>2. SlotsOK
  BY IdleOK DEF Init, SlotsOK, StepOK
<1>3. NoneAhead
  BY DEF Init, NoneAhead, Ahead, Idle
<1>4. PaidByScore
  BY DEF Init, PaidByScore, Decided, Idle, NoTx
<1>. QED BY <1>1, <1>2, <1>3, <1>4 DEF IInv

(* ... is kept by every step, ... *)
LEMMA NextKeeps == IInv /\ [Next]_vars => IInv'
<1>. SUFFICES ASSUME IInv, [Next]_vars PROVE IInv'
  OBVIOUS
<1>1. ASSUME NEW r \in Slots, Arrive(r) PROVE IInv'
  BY <1>1, ArriveKeeps, CompleteReadKeeps DEF Arrive
<1>2. ASSUME NEW r \in Slots, Progress(r) PROVE IInv'
  BY <1>2, CreateKeeps, AcceptKeeps, CloseKeeps, SettleReadKeeps, SettleSaveKeeps,
     SettleOutcomeKeeps, StakesKeep, ReconcileKeeps DEF Progress
<1>3. ASSUME NEW r \in Slots, LandAwaited(r) PROVE IInv'
  BY <1>3, LandAwaitedKeeps
<1>4. CASE (\E tx \in late : LandLate(tx)) \/ (\E seat \in Seats : ClaimRefund(seat))
  BY <1>4, ChainKeeps
<1>5. CASE Crash
  BY <1>5, CrashKeeps
<1>6. CASE (\E d \in Deadlines : DeadlinePasses(d)) \/ UNCHANGED vars
  <2>1. UNCHANGED <<session, wager, chain, late, req, offered, attempts, decided, custodial>>
    BY <1>6 DEF DeadlinePasses, vars, env
  <2>. QED BY <2>1 DEF IInv, TypeOK, SlotsOK, SlotOK, NoneAhead, Ahead, PaidByScore, Decided, chain
<1>. QED BY <1>1, <1>2, <1>3, <1>4, <1>5, <1>6 DEF Next

(* ... and so always holds. *)
LEMMA Invariant == Spec => []IInv
BY InitOK, NextKeeps, PTL DEF Spec

(* However many requests and sweeps of game-sessions.service.ts and        *)
(* wager.service.ts overlap, rows, snapshots and transactions keep the     *)
(* shape of the code's types.                                              *)
THEOREM WagerTypeCorrect == Spec => []TypeOK
<1>1. IInv => TypeOK
  BY DEF IInv
<1>. QED BY <1>1, Invariant, PTL

(* settle and reconcileWager never report WON or REFUNDED for a pot the    *)
(* contract has not settled, whatever overlaps, crashes or lands late.     *)
THEOREM FinalIsSettled == Spec => []FinalMeansSettled
<1>1. IInv => FinalMeansSettled
  BY DEF IInv, NoneAhead, Ahead, FinalMeansSettled
<1>. QED BY <1>1, Invariant, PTL

(* The contract pays a seat only if some reported final score of           *)
(* completeWageredGame has it ahead, for any scores, overlaps and retries. *)
THEOREM PaidOnlyAsDecided == Spec => []PaidAsDecided
<1>1. IInv => PaidAsDecided
  BY DEF IInv, PaidByScore, Decided, PaidAsDecided
<1>. QED BY <1>1, Invariant, PTL

=============================================================================
