------------------------------- MODULE Escrow -------------------------------
(***************************************************************************)
(* The Soroban escrow contract of wagered matches                          *)
(* (contracts/lyricsflip-escrow/src/lib.rs) together with the token        *)
(* balances its transfers move.  One pot per game session: two players     *)
(* stake the same amount, the resolver pays the pot to one of them or      *)
(* refunds it, and after the deadline a player may take their own stake    *)
(* back.  An invocation is atomic: a call that returns an error, panics or *)
(* makes a failing transfer changes nothing, so it is a disabled action.   *)
(*                                                                         *)
(* open_pot, stake, claim_refund and set_resolver are described in the     *)
(* contract's header, exercised by its tests and called by the backend,    *)
(* but their bodies are not in lib.rs: they are modelled from that use.    *)
(***************************************************************************)
EXTENDS Integers, FiniteSetsExt

CONSTANTS
    Sessions,       \* game session ids
    Players,        \* accounts that may take part in a pot
    Operators,      \* accounts that may become admin or resolver
    Contract,       \* the contract's own address
    NoReceiver,     \* fee_receiver: None
    NoPot,          \* no pot stored under a session id
    Stakes,         \* stake amounts open_pot is called with
    FeeBps,         \* fees set_fee is called with
    InitialBalance, \* token balance of every player before the first stake
    ClaimWindow,    \* CLAIM_WINDOW_LEDGERS
    MaxLedger,      \* bound on the ledger sequence
    I128Max         \* largest token amount; an overflowing product panics

Accounts == Players \cup Operators \cup {Contract}

ASSUME AccountsAssumption ==
    /\ Contract \notin Players \cup Operators
    /\ NoReceiver \notin Accounts
ASSUME SessionsAssumption == IsFiniteSet(Sessions)
ASSUME AmountsAssumption ==
    /\ Stakes \subseteq Nat
    /\ FeeBps \subseteq Nat
    /\ InitialBalance \in Nat
    /\ ClaimWindow \in Nat
    /\ MaxLedger \in Nat
    /\ I128Max \in Nat

(* Fault for mutation: the cap was meant for a larger denominator. *)
CapTooHigh == 2000
MAX_FEE_BPS == 1000
BPS_DENOMINATOR == 10000

PotStatus == {"Open", "Funded", "Resolved", "Refunded"}

Pot == [player_a : Players, player_b : Players, stake : Nat,
        funded_a : BOOLEAN, funded_b : BOOLEAN, status : PotStatus,
        deadline_ledger : Nat]

ASSUME NoPotAssumption == NoPot \notin Pot

Config == [admin : Operators, resolver : Operators, fee_bps : Nat,
           fee_receiver : Accounts \cup {NoReceiver}]

VARIABLES
    config,     \* instance storage: Config
    pots,       \* persistent storage: Pot(session_id)
    balance,    \* the token's balances
    ledger,     \* current ledger sequence
    claimed,    \* pots a player has claimed from: closed to stake and resolve
    flow        \* history: what each pot took in less what it paid out

escrowVars == <<config, pots, balance, ledger, claimed, flow>>

(* a, b: what player_a and player_b paid into the pot less what it paid     *)
(* them; fee: what it paid the fee receiver.                               *)
Flow == [a : Int, b : Int, fee : Nat]

-----------------------------------------------------------------------------
(* The token: a transfer fails unless the payer can cover it. *)

transfer(bal, from, to, amount) ==
    IF from = to THEN bal
    ELSE [bal EXCEPT ![from] = @ - amount, ![to] = @ + amount]

(* The history after da and db more net deposits and f more in fees.       *)
Moved(s, da, db, f) ==
    [flow EXCEPT ![s] = [a |-> flow[s].a + da, b |-> flow[s].b + db,
                         fee |-> flow[s].fee + f]]

Exists(s) == pots[s] # NoPot
Live(s)   == Exists(s) /\ pots[s].status \in {"Open", "Funded"}

(* resolve's fee: payout * fee_bps / 10_000, rounded down; the product is  *)
(* an i128, and the release profile panics on overflow.                    *)
Payout(s)    == pots[s].stake * 2
Fee(s)       == (Payout(s) * config.fee_bps) \div BPS_DENOMINATOR
NoOverflow(s) == Payout(s) * config.fee_bps <= I128Max
(* Fault for mutation: the fee is paid on top of the prize. *)
PrizeUnreduced(s) == Payout(s)
Prize(s)     == Payout(s) - Fee(s)

(* Fault for mutation: both halves are returned, funded or not. *)
ReturnUnchecked(s) == [a |-> pots[s].stake, b |-> pots[s].stake]
(* refund's share of each player: only a funded half is returned. *)
ToReturn(s) ==
    [a |-> IF pots[s].funded_a THEN pots[s].stake ELSE 0,
     b |-> IF pots[s].funded_b THEN pots[s].stake ELSE 0]

(* Faults for mutation: a dropped check on the pot. *)
StakeAfterClaim(s) == Exists(s) /\ pots[s].status = "Open"
RefundAnyStatus(s) == Exists(s)
ReclaimOpenOnly(s) == Live(s) /\ pots[s].status = "Open" /\ ledger > pots[s].deadline_ledger

(* What each call demands of the pot it is made on. *)
Stakeable(s)   == Exists(s) /\ pots[s].status = "Open" /\ s \notin claimed
Resolvable(s, winner) ==
    /\ Exists(s)
    /\ pots[s].status = "Funded"
    /\ winner \in {pots[s].player_a, pots[s].player_b}
Refundable(s)  == Live(s)
Reclaimable(s) == Live(s) /\ ledger > pots[s].deadline_ledger

-----------------------------------------------------------------------------
(* __constructor, run once at deployment. *)
Init ==
    /\ config \in [admin : Operators, resolver : Operators, fee_bps : {0},
                   fee_receiver : {NoReceiver}]
    /\ pots = [s \in Sessions |-> NoPot]
    /\ balance = [a \in Accounts |-> IF a \in Players THEN InitialBalance ELSE 0]
    /\ ledger = 0
    /\ claimed = {}
    /\ flow = [s \in Sessions |-> [a |-> 0, b |-> 0, fee |-> 0]]

set_admin(caller, new_admin) ==
    /\ caller = config.admin
    /\ config' = [config EXCEPT !.admin = new_admin]
    /\ UNCHANGED <<pots, balance, ledger, claimed, flow>>

set_resolver(caller, new_resolver) ==
    /\ caller = config.admin
    /\ config' = [config EXCEPT !.resolver = new_resolver]
    /\ UNCHANGED <<pots, balance, ledger, claimed, flow>>

set_fee(caller, fee_bps, receiver) ==
    /\ caller = config.admin
    /\ fee_bps <= MAX_FEE_BPS
    /\ fee_bps > 0 => receiver # NoReceiver
    /\ config' = [config EXCEPT !.fee_bps = fee_bps, !.fee_receiver = receiver]
    /\ UNCHANGED <<pots, balance, ledger, claimed, flow>>

open_pot(caller, s, a, b, amount) ==
    /\ caller = config.resolver
    /\ ~Exists(s)
    /\ amount > 0
    /\ a # b
    /\ ledger + ClaimWindow < MaxLedger   \* bound: every deadline can pass
    /\ pots' = [pots EXCEPT ![s] =
                  [player_a |-> a, player_b |-> b, stake |-> amount,
                   funded_a |-> FALSE, funded_b |-> FALSE, status |-> "Open",
                   deadline_ledger |-> ledger + ClaimWindow]]
    /\ UNCHANGED <<config, balance, ledger, claimed, flow>>

(* The player authorises the call; the contract pulls the stake. *)
stake(p, s) ==
    /\ Stakeable(s)
    /\ balance[p] >= pots[s].stake
    /\ \/ /\ p = pots[s].player_a
          /\ ~pots[s].funded_a
          /\ pots' = [pots EXCEPT ![s] = [pots[s] EXCEPT !.funded_a = TRUE,
                        !.status = IF pots[s].funded_b THEN "Funded" ELSE "Open"]]
          /\ flow' = Moved(s, pots[s].stake, 0, 0)
       \/ /\ p = pots[s].player_b
          /\ ~pots[s].funded_b
          /\ pots' = [pots EXCEPT ![s] = [pots[s] EXCEPT !.funded_b = TRUE,
                        !.status = IF pots[s].funded_a THEN "Funded" ELSE "Open"]]
          /\ flow' = Moved(s, 0, pots[s].stake, 0)
    /\ balance' = transfer(balance, p, Contract, pots[s].stake)
    /\ UNCHANGED <<config, ledger, claimed>>

(* The winner is paid payout - fee whether or not a receiver is stored; the *)
(* fee leaves the contract only when one is.                               *)
resolve(caller, s, winner) ==
    /\ caller = config.resolver
    /\ Resolvable(s, winner)
    /\ NoOverflow(s)
    /\ balance[Contract] >= Payout(s)
    /\ LET paidFee == IF config.fee_receiver = NoReceiver THEN 0 ELSE Fee(s)
           afterFee == IF paidFee = 0 THEN balance
                       ELSE transfer(balance, Contract, config.fee_receiver, paidFee)
           prize == Prize(s)
       IN /\ balance' = transfer(afterFee, Contract, winner, prize)
          /\ flow' = IF winner = pots[s].player_a
                     THEN Moved(s, -prize, 0, paidFee)
                     ELSE Moved(s, 0, -prize, paidFee)
    /\ pots' = [pots EXCEPT ![s] = [pots[s] EXCEPT !.status = "Resolved"]]
    /\ UNCHANGED <<config, ledger, claimed>>

refund(caller, s) ==
    /\ caller = config.resolver
    /\ Refundable(s)
    /\ LET toA == ToReturn(s).a
           toB == ToReturn(s).b
       IN /\ balance[Contract] >= toA + toB
          /\ balance' = transfer(transfer(balance, Contract, pots[s].player_a, toA),
                                 Contract, pots[s].player_b, toB)
          /\ flow' = Moved(s, -toA, -toB, 0)
    /\ pots' = [pots EXCEPT ![s] = [pots[s] EXCEPT !.status = "Refunded"]]
    /\ UNCHANGED <<config, ledger, claimed>>

(* Needs neither resolver nor admin. The claim empties the player's half   *)
(* and, as the header has it, blocks resolve for good: the pot is not      *)
(* funded, and no stake is taken that would fund it again. The other half  *)
(* stays reclaimable. Pot has no field for this; where the contract keeps  *)
(* it is not in lib.rs.                                                    *)
claim_refund(p, s) ==
    /\ Reclaimable(s)
    /\ balance[Contract] >= pots[s].stake
    /\ \/ /\ p = pots[s].player_a
          /\ pots[s].funded_a
          /\ pots' = [pots EXCEPT ![s] = [pots[s] EXCEPT !.funded_a = FALSE, !.status = "Open"]]
          /\ flow' = Moved(s, -pots[s].stake, 0, 0)
       \/ /\ p = pots[s].player_b
          /\ pots[s].funded_b
          /\ pots' = [pots EXCEPT ![s] = [pots[s] EXCEPT !.funded_b = FALSE, !.status = "Open"]]
          /\ flow' = Moved(s, 0, -pots[s].stake, 0)
    /\ balance' = transfer(balance, Contract, p, pots[s].stake)
    /\ claimed' = claimed \cup {s}
    /\ UNCHANGED <<config, ledger>>

(* The network closes a ledger. *)
CloseLedger ==
    /\ ledger < MaxLedger
    /\ ledger' = ledger + 1
    /\ UNCHANGED <<config, pots, balance, claimed, flow>>

Next ==
    \/ \E c, n \in Operators : set_admin(c, n) \/ set_resolver(c, n)
    \/ \E c \in Operators, f \in FeeBps, r \in Accounts \cup {NoReceiver} :
          set_fee(c, f, r)
    \/ \E c \in Operators, s \in Sessions, a, b \in Players, x \in Stakes :
          open_pot(c, s, a, b, x)
    \/ \E p \in Players, s \in Sessions : stake(p, s) \/ claim_refund(p, s)
    \/ \E c \in Operators, s \in Sessions, w \in Players \cup Operators : resolve(c, s, w)
    \/ \E c \in Operators, s \in Sessions : refund(c, s)
    \/ CloseLedger

Spec == Init /\ [][Next]_escrowVars

(* Recourse without the backend: players may always submit claim_refund and *)
(* the network keeps closing ledgers; nobody else is assumed to act.        *)
Recourse ==
    /\ WF_escrowVars(CloseLedger)
    /\ \A p \in Players, s \in Sessions : WF_escrowVars(claim_refund(p, s))

FairSpec == Spec /\ Recourse

-----------------------------------------------------------------------------
(* What the contract still owes for a session. *)
Owed(s) ==
    IF ~Live(s) THEN 0
    ELSE (IF pots[s].funded_a THEN pots[s].stake ELSE 0)
       + (IF pots[s].funded_b THEN pots[s].stake ELSE 0)

(* The stored data has the shape of the contract's types. *)
TypeOK ==
    /\ config \in Config
    /\ pots \in [Sessions -> Pot \cup {NoPot}]
    /\ balance \in [Accounts -> Nat]
    /\ ledger \in Nat
    /\ claimed \subseteq Sessions
    /\ flow \in [Sessions -> Flow]

(* resolve, refund, claim_refund: for every pot, what the players put in is *)
(* what the contract paid out for that pot, fee included, plus what it still *)
(* owes: no settlement touches another pot's stakes or leaves a remainder.  *)
PotAccounted ==
    \A s \in Sessions :
       flow[s].a + flow[s].b = flow[s].fee + Owed(s)

(* The contract's token balance covers the stakes of all live pots, so the *)
(* transfers of resolve, refund and claim_refund cannot fail for lack of   *)
(* funds, whatever the admin sets the fee and its receiver to.             *)
Solvent == balance[Contract] >= MapThenSumSet(Owed, Sessions)

(* Header: refunds never take a fee.  A refunded pot, after any mix of     *)
(* stakes and claims, has returned to each player exactly what that player *)
(* put in.                                                                 *)
RefundMakesWhole ==
    \A s \in Sessions : Exists(s) /\ pots[s].status = "Refunded" =>
       flow[s] = [a |-> 0, b |-> 0, fee |-> 0]

(* MAX_FEE_BPS: whatever fees were set before the pot was resolved, one     *)
(* player receives at least 90% of the two stakes, which both lay in the   *)
(* pot at resolve since no player had claimed, and the other nothing.      *)
WinnerKeepsNinetyPercent ==
    \A s \in Sessions : Exists(s) /\ pots[s].status = "Resolved" =>
       LET gain(net) == pots[s].stake - net   \* received from the pot
       IN \/ 10 * gain(flow[s].a) >= 9 * Payout(s) /\ gain(flow[s].b) = 0
          \/ 10 * gain(flow[s].b) >= 9 * Payout(s) /\ gain(flow[s].a) = 0

(* Tests: a pot cannot be resolved twice, sessions cannot be reused.  Once  *)
(* a pot is Resolved or Refunded nothing is paid into or out of it again.  *)
SettledOnce ==
    [][\A s \in Sessions :
          Exists(s) /\ pots[s].status \in {"Resolved", "Refunded"} =>
             pots'[s] = pots[s] /\ flow'[s] = flow[s]]_escrowVars

(* The contract keeps the players' promise: a pot's funded flags are the   *)
(* stakes held until its status says it was settled.                       *)
HeldSeats(s) ==
    IF ~Live(s) THEN {}
    ELSE (IF pots[s].funded_a THEN {"a"} ELSE {})
         \cup (IF pots[s].funded_b THEN {"b"} ELSE {})
Settlement(s) ==
    IF ~Exists(s) \/ Live(s) THEN "no"
    ELSE IF pots[s].status = "Resolved" THEN "paid" ELSE "returned"

(* Header, "Reclaiming a stuck stake": with the resolver and the admin gone *)
(* each player's stake still leaves the contract once the deadline passes. *)
StakeNeverStuck ==
    \A s \in Sessions, seat \in {"a", "b"} :
       (seat \in HeldSeats(s)) ~> (seat \notin HeldSeats(s))

heldStakes  == [s \in Sessions |-> HeldSeats(s)]
settlements == [s \in Sessions |-> Settlement(s)]

Promise == INSTANCE EscrowPromise WITH
    held <- heldStakes, reclaimed <- claimed, settled <- settlements

(* Every step of the contract is one of the promise, or leaves it alone:   *)
(* whatever the order of stakes, claims and settlements, a stake leaves    *)
(* only to its owner or in a settlement, and after the first claim the pot *)
(* takes no stake and pays no winner any more (header, "permanently        *)
(* blocked").                                                              *)
KeepsPromise == Promise!Spec
=============================================================================
