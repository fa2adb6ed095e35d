---------------------------- MODULE EscrowProofs ----------------------------
(* Proofs about the escrow contract, for any number of sessions, players,  *)
(* stakes and fees.                                                        *)
EXTENDS Escrow, FiniteSetTheorems, WellFoundedInduction, TLAPS

(* The fee is bounded by the cap and always has somewhere to go.           *)
FeeInv ==
    /\ config.fee_bps <= MAX_FEE_BPS
    /\ config.fee_bps > 0 => config.fee_receiver # NoReceiver

NoFlow == [a |-> 0, b |-> 0, fee |-> 0]

(* What the history of one pot is in each of its states.                   *)
PotInv(s) ==
    IF pots[s] = NoPot THEN flow[s] = NoFlow
    ELSE /\ pots[s].status \in {"Open", "Funded"} =>
              /\ flow[s].a = (IF pots[s].funded_a THEN pots[s].stake ELSE 0)
              /\ flow[s].b = (IF pots[s].funded_b THEN pots[s].stake ELSE 0)
              /\ flow[s].fee = 0
         /\ pots[s].status = "Funded" => pots[s].funded_a /\ pots[s].funded_b /\ s \notin claimed
         /\ pots[s].status = "Refunded" => flow[s] = NoFlow
         /\ pots[s].status = "Resolved" =>
              /\ flow[s].a + flow[s].b = flow[s].fee
              /\ 10 * flow[s].fee <= Payout(s)
              /\ flow[s].a = pots[s].stake \/ flow[s].b = pots[s].stake

IInv == TypeOK /\ FeeInv /\ \A s \in Sessions : PotInv(s)

-----------------------------------------------------------------------------
(* A fee within the cap takes at most a tenth of the payout.               *)
LEMMA FeeBound ==
    ASSUME NEW p \in Nat, NEW b \in Nat, b <= 1000
    PROVE  /\ (p * b) \div 10000 \in Nat
           /\ 10 * ((p * b) \div 10000) <= p
<1>1. p * b <= p * 1000
  BY SMT
<1>2. p * b \in Nat
  BY SMT
<1>3. \A x \in Nat : x <= p * 1000 => x \div 10000 \in Nat /\ 10 * (x \div 10000) <= p
  BY SMT
<1> QED
  BY <1>1, <1>2, <1>3

(* A covered transfer keeps every balance a natural number.                *)
LEMMA TransferType ==
    ASSUME NEW bal \in [Accounts -> Nat], NEW f \in Accounts, NEW t \in Accounts,
           NEW x \in Nat, bal[f] >= x
    PROVE  /\ transfer(bal, f, t, x) \in [Accounts -> Nat]
           /\ transfer(bal, f, t, x)[f] >= bal[f] - x
BY DEF transfer

(* The deployed contract holds nothing and charges nothing.                *)
LEMMA InitIInv == Init => IInv
<1> SUFFICES ASSUME Init PROVE IInv
  OBVIOUS
<1>1. TypeOK
  BY AmountsAssumption DEF Init, TypeOK, Config, Flow
<1>2. FeeInv
  BY DEF Init, FeeInv, MAX_FEE_BPS
<1>3. \A s \in Sessions : PotInv(s)
  BY DEF Init, PotInv, NoFlow
<1> QED
  BY <1>1, <1>2, <1>3 DEF IInv

(* The admin's calls touch the configuration only.                         *)
LEMMA AdminStep ==
    ASSUME IInv, NEW c \in Operators,
           \/ \E n \in Operators : set_admin(c, n) \/ set_resolver(c, n)
           \/ \E f \in FeeBps, r \in Accounts \cup {NoReceiver} : set_fee(c, f, r)
    PROVE  IInv'
<1> USE DEF IInv, TypeOK, Config, FeeInv, MAX_FEE_BPS
<1>0. config \in Config
  BY DEF TypeOK
<1>1. config' \in Config /\ FeeInv'
  <2>1. ASSUME NEW n \in Operators, set_admin(c, n)
        PROVE  config' \in Config /\ FeeInv'
    BY <2>1, <1>0 DEF set_admin
  <2>2. ASSUME NEW n \in Operators, set_resolver(c, n)
        PROVE  config' \in Config /\ FeeInv'
    BY <2>2, <1>0 DEF set_resolver
  <2>3. ASSUME NEW f \in FeeBps, NEW r \in Accounts \cup {NoReceiver}, set_fee(c, f, r)
        PROVE  config' \in Config /\ FeeInv'
    <3>1. /\ f \in Nat /\ config' = [config EXCEPT !.fee_bps = f, !.fee_receiver = r]
          /\ f <= 1000 /\ (f > 0 => r # NoReceiver)
      BY <2>3, AmountsAssumption, ZenonT(40) DEF set_fee
    <3>2. config' \in Config /\ config'.fee_bps = f /\ config'.fee_receiver = r
      BY <3>1, <1>0, ZenonT(40)
    <3> QED
      BY <3>1, <3>2
  <2> QED
    BY <2>1, <2>2, <2>3, <1>0
<1>2. UNCHANGED <<pots, balance, ledger, claimed, flow>>
  BY ZenonT(40) DEF set_admin, set_resolver, set_fee
<1>3. \A s \in Sessions : PotInv(s)'
  BY <1>2 DEF PotInv, Payout
<1> QED
  BY <1>1, <1>2, <1>3

LEMMA OpenStep ==
    ASSUME IInv, NEW c \in Operators, NEW s \in Sessions, NEW a \in Players,
           NEW b \in Players, NEW x \in Stakes, open_pot(c, s, a, b, x)
    PROVE  IInv'
<1> USE DEF IInv, TypeOK
<1> DEFINE new == [player_a |-> a, player_b |-> b, stake |-> x,
                   funded_a |-> FALSE, funded_b |-> FALSE, status |-> "Open",
                   deadline_ledger |-> ledger + ClaimWindow]
<1>1. new \in Pot
  BY AmountsAssumption DEF Pot, PotStatus
<1>2. pots' = [pots EXCEPT ![s] = new] /\ pots[s] = NoPot
  BY DEF open_pot, Exists
<1>3. UNCHANGED <<config, balance, ledger, claimed, flow>>
  BY DEF open_pot
<1>4. pots' \in [Sessions -> Pot \cup {NoPot}]
  BY <1>1, <1>2
<1>5. PotInv(s)'
  BY <1>1, <1>2, <1>3, NoPotAssumption DEF PotInv, NoFlow
<1>6. \A t \in Sessions \ {s} : PotInv(t)'
  BY <1>2, <1>3 DEF PotInv, Payout
<1> QED
  BY <1>3, <1>4, <1>5, <1>6 DEF FeeInv

(* A step that changes one pot, its history and some balances preserves    *)
(* the invariant if it does so for that pot.                               *)
LEMMA OnePotStep ==
    ASSUME IInv, NEW s \in Sessions, NEW pot,
           pots' = [pots EXCEPT ![s] = pot], pot \in Pot,
           flow' \in [Sessions -> Flow],
           \A t \in Sessions \ {s} : flow'[t] = flow[t],
           balance' \in [Accounts -> Nat],
           claimed' = claimed \/ claimed' = claimed \cup {s},
           UNCHANGED <<config, ledger>>,
           PotInv(s)'
    PROVE  IInv'
<1>1. TypeOK'
  BY DEF IInv, TypeOK
<1>2. FeeInv'
  BY DEF IInv, FeeInv
<1>3. \A t \in Sessions \ {s} : PotInv(t)'
  BY DEF IInv, TypeOK, PotInv, Payout
<1> QED
  BY <1>1, <1>2, <1>3 DEF IInv

(* A seat's half of what its player has at risk in a live pot.             *)
LEMMA LiveFlow ==
    ASSUME IInv, NEW s \in Sessions, Live(s)
    PROVE  /\ pots[s] \in Pot /\ pots[s] # NoPot /\ flow[s] \in Flow
           /\ pots[s].stake \in Nat
           /\ pots[s].funded_a \in BOOLEAN /\ pots[s].funded_b \in BOOLEAN
           /\ flow[s].a \in Int /\ flow[s].b \in Int /\ flow[s].fee = 0
           /\ flow[s].a = (IF pots[s].funded_a THEN pots[s].stake ELSE 0)
           /\ flow[s].b = (IF pots[s].funded_b THEN pots[s].stake ELSE 0)
           /\ pots[s].status = "Funded" => pots[s].funded_a /\ pots[s].funded_b /\ s \notin claimed
<1>1. pots[s] \in Pot /\ pots[s] # NoPot /\ flow[s] \in Flow /\ PotInv(s)
  BY DEF IInv, TypeOK, Live, Exists
<1>2. pots[s].status \in {"Open", "Funded"}
  BY DEF Live
<1> QED
  BY <1>1, <1>2 DEF PotInv, Pot, Flow

(* What Moved does to the history of its pot.                              *)
MovedFacts(s, da, db, f) ==
    /\ Moved(s, da, db, f) \in [Sessions -> Flow]
    /\ \A t \in Sessions \ {s} : Moved(s, da, db, f)[t] = flow[t]
    /\ Moved(s, da, db, f)[s].a = flow[s].a + da
    /\ Moved(s, da, db, f)[s].b = flow[s].b + db
    /\ Moved(s, da, db, f)[s].fee = flow[s].fee + f

LEMMA MovedLemma ==
    ASSUME flow \in [Sessions -> Flow], NEW s \in Sessions,
           NEW da \in Int, NEW db \in Int, NEW f \in Nat
    PROVE  MovedFacts(s, da, db, f)
BY DEF Moved, MovedFacts, Flow

LEMMA StakeStep ==
    ASSUME IInv, NEW p \in Players, NEW s \in Sessions, stake(p, s)
    PROVE  IInv'
<1>1. /\ pots \in [Sessions -> Pot \cup {NoPot}] /\ flow \in [Sessions -> Flow]
      /\ balance \in [Accounts -> Nat] /\ p \in Accounts /\ Contract \in Accounts
  BY DEF IInv, TypeOK, Accounts
<1>2. Live(s) /\ pots[s].status = "Open" /\ s \notin claimed
  BY DEF stake, Stakeable, Live
<1>3. balance' \in [Accounts -> Nat] /\ UNCHANGED <<config, ledger, claimed>>
  BY <1>1, <1>2, LiveFlow, TransferType DEF stake, Stakeable
<1> DEFINE stA  == IF pots[s].funded_b THEN "Funded" ELSE "Open"
           potA == [pots[s] EXCEPT !.funded_a = TRUE, !.status = stA]
           stB  == IF pots[s].funded_a THEN "Funded" ELSE "Open"
           potB == [pots[s] EXCEPT !.funded_b = TRUE, !.status = stB]
<1>4. CASE /\ ~pots[s].funded_a
           /\ pots' = [pots EXCEPT ![s] = potA]
           /\ flow' = Moved(s, pots[s].stake, 0, 0)
  <2>1. /\ potA \in Pot /\ potA # NoPot
        /\ potA.funded_a = TRUE /\ potA.funded_b = pots[s].funded_b
        /\ potA.stake = pots[s].stake
        /\ potA.status = stA
    <3>1. stA \in PotStatus
      BY DEF PotStatus
    <3>2. pots[s] \in Pot
      BY <1>2, LiveFlow
    <3> HIDE DEF stA
    <3> QED
      BY <3>1, <3>2, NoPotAssumption DEF Pot
  <2>2. MovedFacts(s, pots[s].stake, 0, 0)
    BY <1>1, <1>2, LiveFlow, MovedLemma
  <2>3. pots'[s] = potA
    BY <1>4, <1>1
  <2>4. PotInv(s)'
    <3> HIDE DEF potA
    <3> QED
      BY <1>2, <1>3, <1>4, <2>1, <2>2, <2>3, LiveFlow DEF PotInv, MovedFacts
  <2> QED
    BY <1>3, <1>4, <2>1, <2>2, <2>4, OnePotStep DEF MovedFacts
<1>5. CASE /\ ~pots[s].funded_b
           /\ pots' = [pots EXCEPT ![s] = potB]
           /\ flow' = Moved(s, 0, pots[s].stake, 0)
  <2>1. /\ potB \in Pot /\ potB # NoPot
        /\ potB.funded_b = TRUE /\ potB.funded_a = pots[s].funded_a
        /\ potB.stake = pots[s].stake
        /\ potB.status = stB
    <3>1. stB \in PotStatus
      BY DEF PotStatus
    <3>2. pots[s] \in Pot
      BY <1>2, LiveFlow
    <3> HIDE DEF stB
    <3> QED
      BY <3>1, <3>2, NoPotAssumption DEF Pot
  <2>2. MovedFacts(s, 0, pots[s].stake, 0)
    BY <1>1, <1>2, LiveFlow, MovedLemma
  <2>3. pots'[s] = potB
    BY <1>5, <1>1
  <2>4. PotInv(s)'
    <3> HIDE DEF potB
    <3> QED
      BY <1>2, <1>3, <1>5, <2>1, <2>2, <2>3, LiveFlow DEF PotInv, MovedFacts
  <2> QED
    BY <1>3, <1>5, <2>1, <2>2, <2>4, OnePotStep DEF MovedFacts
<1> QED
  BY <1>4, <1>5 DEF stake, Stakeable

LEMMA ClaimStep ==
    ASSUME IInv, NEW p \in Players, NEW s \in Sessions, claim_refund(p, s)
    PROVE  IInv'
<1>1. /\ pots \in [Sessions -> Pot \cup {NoPot}] /\ flow \in [Sessions -> Flow]
      /\ balance \in [Accounts -> Nat] /\ p \in Accounts /\ Contract \in Accounts
  BY DEF IInv, TypeOK, Accounts
<1>2. Live(s)
  BY DEF claim_refund, Reclaimable
<1>3. balance' \in [Accounts -> Nat] /\ UNCHANGED <<config, ledger>> /\ claimed' = claimed \cup {s}
  BY <1>1, <1>2, LiveFlow, TransferType DEF claim_refund, Reclaimable
<1>4. pots[s] \in Pot
  BY <1>2, LiveFlow
<1> DEFINE potA == [pots[s] EXCEPT !.funded_a = FALSE, !.status = "Open"]
           potB == [pots[s] EXCEPT !.funded_b = FALSE, !.status = "Open"]
<1>5. CASE /\ pots[s].funded_a
           /\ pots' = [pots EXCEPT ![s] = potA]
           /\ flow' = Moved(s, -pots[s].stake, 0, 0)
  <2>1. /\ potA \in Pot /\ potA # NoPot
        /\ potA.funded_a = FALSE /\ potA.funded_b = pots[s].funded_b
        /\ potA.stake = pots[s].stake /\ potA.status = "Open"
    BY <1>4, NoPotAssumption DEF Pot, PotStatus
  <2>2. MovedFacts(s, -pots[s].stake, 0, 0)
    BY <1>1, <1>2, LiveFlow, MovedLemma
  <2>3. pots'[s] = potA
    BY <1>5, <1>1
  <2>4. PotInv(s)'
    <3> HIDE DEF potA
    <3> QED
      BY <1>2, <1>5, <2>1, <2>2, <2>3, LiveFlow DEF PotInv, MovedFacts
  <2> QED
    BY <1>3, <1>5, <2>1, <2>2, <2>4, OnePotStep DEF MovedFacts
<1>6. CASE /\ pots[s].funded_b
           /\ pots' = [pots EXCEPT ![s] = potB]
           /\ flow' = Moved(s, 0, -pots[s].stake, 0)
  <2>1. /\ potB \in Pot /\ potB # NoPot
        /\ potB.funded_b = FALSE /\ potB.funded_a = pots[s].funded_a
        /\ potB.stake = pots[s].stake /\ potB.status = "Open"
    BY <1>4, NoPotAssumption DEF Pot, PotStatus
  <2>2. MovedFacts(s, 0, -pots[s].stake, 0)
    BY <1>1, <1>2, LiveFlow, MovedLemma
  <2>3. pots'[s] = potB
    BY <1>6, <1>1
  <2>4. PotInv(s)'
    <3> HIDE DEF potB
    <3> QED
      BY <1>2, <1>6, <2>1, <2>2, <2>3, LiveFlow DEF PotInv, MovedFacts
  <2> QED
    BY <1>3, <1>6, <2>1, <2>2, <2>4, OnePotStep DEF MovedFacts
<1> QED
  BY <1>5, <1>6 DEF claim_refund, Reclaimable

LEMMA RefundStep ==
    ASSUME IInv, NEW c \in Operators, NEW s \in Sessions, refund(c, s)
    PROVE  IInv'
<1> DEFINE toA == IF pots[s].funded_a THEN pots[s].stake ELSE 0
           toB == IF pots[s].funded_b THEN pots[s].stake ELSE 0
           mid == transfer(balance, Contract, pots[s].player_a, toA)
           pot == [pots[s] EXCEPT !.status = "Refunded"]
<1>1. /\ pots \in [Sessions -> Pot \cup {NoPot}] /\ flow \in [Sessions -> Flow]
      /\ balance \in [Accounts -> Nat] /\ Contract \in Accounts
  BY DEF IInv, TypeOK, Accounts
<1>2. Live(s) /\ pots' = [pots EXCEPT ![s] = pot] /\ flow' = Moved(s, -toA, -toB, 0)
      /\ balance[Contract] >= toA + toB
      /\ balance' = transfer(mid, Contract, pots[s].player_b, toB)
      /\ UNCHANGED <<config, ledger, claimed>>
  BY DEF refund, Refundable, ToReturn
<1>3. pots[s] \in Pot /\ toA \in Nat /\ toB \in Nat
      /\ pots[s].player_a \in Accounts /\ pots[s].player_b \in Accounts
  BY <1>2, LiveFlow DEF Pot, Accounts
<1>4. balance' \in [Accounts -> Nat]
  <2> HIDE DEF toA, toB
  <2>0. balance[Contract] \in Nat /\ balance[Contract] >= toA
    BY <1>1, <1>2, <1>3
  <2>1. mid \in [Accounts -> Nat] /\ mid[Contract] >= balance[Contract] - toA
    BY <2>0, <1>1, <1>3, TransferType
  <2> HIDE DEF mid
  <2>2. mid[Contract] >= toB
    BY <2>0, <2>1, <1>1, <1>2, <1>3
  <2> QED
    BY <2>1, <2>2, <1>1, <1>2, <1>3, TransferType
<1>5. /\ pot \in Pot /\ pot # NoPot /\ pot.status = "Refunded"
  BY <1>3, NoPotAssumption DEF Pot, PotStatus
<1>6. MovedFacts(s, -toA, -toB, 0)
  BY <1>1, <1>3, MovedLemma
<1>7. pots'[s] = pot
  BY <1>1, <1>2
<1>8. flow'[s] = NoFlow
  <2>1. flow[s].a = toA /\ flow[s].b = toB /\ flow[s].fee = 0
    BY <1>2, LiveFlow
  <2>2. flow'[s] = [a |-> flow[s].a - toA, b |-> flow[s].b - toB, fee |-> flow[s].fee + 0]
    BY <1>1, <1>2, <1>3, <2>1 DEF Moved
  <2> QED
    BY <2>1, <2>2, <1>3 DEF NoFlow
<1>9. PotInv(s)'
  BY <1>5, <1>7, <1>8 DEF PotInv
<1> QED
  BY <1>2, <1>4, <1>5, <1>6, <1>9, OnePotStep DEF MovedFacts

LEMMA ResolveStep ==
    ASSUME IInv, NEW c \in Operators, NEW s \in Sessions, NEW w \in Players \cup Operators,
           resolve(c, s, w)
    PROVE  IInv'
<1> DEFINE paidFee == IF config.fee_receiver = NoReceiver THEN 0 ELSE Fee(s)
           afterFee == IF paidFee = 0 THEN balance
                       ELSE transfer(balance, Contract, config.fee_receiver, paidFee)
           prize == Prize(s)
           pot == [pots[s] EXCEPT !.status = "Resolved"]
<1>1. /\ pots \in [Sessions -> Pot \cup {NoPot}] /\ flow \in [Sessions -> Flow]
      /\ balance \in [Accounts -> Nat] /\ Contract \in Accounts /\ w \in Accounts
      /\ config \in Config
  BY DEF IInv, TypeOK, Accounts
<1>2. /\ Live(s) /\ pots[s].status = "Funded"
      /\ w \in {pots[s].player_a, pots[s].player_b}
      /\ balance[Contract] >= Payout(s)
      /\ balance' = transfer(afterFee, Contract, w, prize)
      /\ flow' = IF w = pots[s].player_a THEN Moved(s, -prize, 0, paidFee)
                                         ELSE Moved(s, 0, -prize, paidFee)
      /\ pots' = [pots EXCEPT ![s] = pot]
      /\ UNCHANGED <<config, ledger, claimed>>
  BY DEF resolve, Resolvable, Live
<1>3. /\ pots[s] \in Pot /\ pots[s].stake \in Nat
      /\ flow[s].a = pots[s].stake /\ flow[s].b = pots[s].stake /\ flow[s].fee = 0
  BY <1>2, LiveFlow
<1>4. Payout(s) \in Nat /\ Payout(s) = 2 * pots[s].stake
  BY <1>3 DEF Payout
<1>5. Fee(s) \in Nat /\ 10 * Fee(s) <= Payout(s)
  <2>1. config.fee_bps \in Nat /\ config.fee_bps <= 1000
    BY <1>1 DEF IInv, FeeInv, MAX_FEE_BPS, Config
  <2> QED
    BY <2>1, <1>4, FeeBound DEF Fee, BPS_DENOMINATOR
<1>6. paidFee = Fee(s)
  <2>1. CASE config.fee_receiver # NoReceiver
    BY <2>1
  <2>2. CASE config.fee_receiver = NoReceiver
    <3>1. config.fee_bps = 0
      BY <2>2, <1>1 DEF IInv, FeeInv, Config
    <3>2. Fee(s) = 0
      BY <3>1, <1>4 DEF Fee, BPS_DENOMINATOR
    <3> QED
      BY <3>2, <2>2
  <2> QED
    BY <2>1, <2>2
<1>7. prize \in Nat /\ prize + Fee(s) = Payout(s)
  BY <1>4, <1>5 DEF Prize
<1>8. balance' \in [Accounts -> Nat]
  <2> HIDE DEF paidFee, prize
  <2>0. balance[Contract] \in Nat /\ balance[Contract] >= paidFee /\ paidFee \in Nat
    BY <1>1, <1>2, <1>4, <1>5, <1>6
  <2>1. afterFee \in [Accounts -> Nat] /\ afterFee[Contract] >= balance[Contract] - paidFee
    <3>1. CASE paidFee = 0
      BY <3>1, <2>0, <1>1
    <3>2. CASE paidFee # 0
      <4>1. config.fee_receiver \in Accounts
        BY <3>2, <1>1 DEF paidFee, Config
      <4> QED
        BY <4>1, <3>2, <2>0, <1>1, TransferType
    <3> QED
      BY <3>1, <3>2
  <2> HIDE DEF afterFee
  <2>2. afterFee[Contract] >= prize
    BY <2>0, <2>1, <1>1, <1>2, <1>4, <1>5, <1>6, <1>7
  <2> QED
    BY <2>1, <2>2, <1>1, <1>2, <1>7, TransferType
<1>9. /\ pot \in Pot /\ pot # NoPot /\ pot.status = "Resolved" /\ pot.stake = pots[s].stake
  BY <1>3, NoPotAssumption DEF Pot, PotStatus
<1>10. pots'[s] = pot
  BY <1>1, <1>2
<1> HIDE DEF paidFee, prize, pot
<1>11. Payout(s)' = Payout(s)
  BY <1>9, <1>10 DEF Payout
<1>12. CASE w = pots[s].player_a
  <2>0. -prize \in Int /\ paidFee \in Nat
    BY <1>5, <1>6, <1>7
  <2>a. MovedFacts(s, -prize, 0, paidFee)
    BY <2>0, <1>1, MovedLemma
  <2>1. MovedFacts(s, -prize, 0, paidFee) /\ flow' = Moved(s, -prize, 0, paidFee)
    BY <2>a, <1>2, <1>12
  <2>2. PotInv(s)'
    BY <2>1, <1>3, <1>4, <1>5, <1>6, <1>7, <1>9, <1>10, <1>11 DEF PotInv, MovedFacts
  <2> QED
    BY <2>1, <2>2, <1>2, <1>8, <1>9, OnePotStep DEF MovedFacts
<1>13. CASE w # pots[s].player_a
  <2>0. -prize \in Int /\ paidFee \in Nat
    BY <1>5, <1>6, <1>7
  <2>a. MovedFacts(s, 0, -prize, paidFee)
    BY <2>0, <1>1, MovedLemma
  <2>1. MovedFacts(s, 0, -prize, paidFee) /\ flow' = Moved(s, 0, -prize, paidFee)
    BY <2>a, <1>2, <1>13
  <2>2. PotInv(s)'
    BY <2>1, <1>3, <1>4, <1>5, <1>6, <1>7, <1>9, <1>10, <1>11 DEF PotInv, MovedFacts
  <2> QED
    BY <2>1, <2>2, <1>2, <1>8, <1>9, OnePotStep DEF MovedFacts
<1> QED
  BY <1>12, <1>13

(* Every step preserves the inductive invariant.                           *)
LEMMA NextIInv == IInv /\ [Next]_escrowVars => IInv'
<1> SUFFICES ASSUME IInv, [Next]_escrowVars PROVE IInv'
  OBVIOUS
<1>1. CASE UNCHANGED escrowVars
  BY <1>1 DEF escrowVars, IInv, TypeOK, FeeInv, PotInv, Payout
<1>2. CASE CloseLedger
  <2>1. ledger' \in Nat
    BY <1>2 DEF CloseLedger, IInv, TypeOK
  <2>2. UNCHANGED <<config, pots, balance, claimed, flow>>
    BY <1>2 DEF CloseLedger
  <2> QED
    BY <2>1, <2>2 DEF IInv, TypeOK, FeeInv, PotInv, Payout
<1> QED
  BY <1>1, <1>2, AdminStep, OpenStep, StakeStep, ClaimStep, RefundStep, ResolveStep
  DEF Next

(* For every configuration of sessions, players, stakes and fees, the      *)
(* stored data keeps the contract's types: balances never go negative.     *)
THEOREM TypeCorrect == Spec => []TypeOK
<1>1. IInv => TypeOK
  BY DEF IInv
<1> QED
  BY InitIInv, NextIInv, <1>1, PTL DEF Spec

(* For every pot: deposits = payouts + fee + what is still owed.           *)
THEOREM PotsAccounted == Spec => []PotAccounted
<1>1. IInv => PotAccounted
  <2> SUFFICES ASSUME IInv, NEW s \in Sessions
               PROVE  flow[s].a + flow[s].b = flow[s].fee + Owed(s)
    BY DEF PotAccounted
  <2>0. flow[s].fee \in Nat
    BY DEF IInv, TypeOK, Flow
  <2>1. CASE Live(s)
    BY <2>1, LiveFlow DEF Owed
  <2>2. CASE ~Live(s)
    BY <2>0, <2>2 DEF IInv, TypeOK, PotInv, Live, Exists, Owed, NoFlow, Pot, PotStatus
  <2> QED
    BY <2>1, <2>2
<1> QED
  BY InitIInv, NextIInv, <1>1, PTL DEF Spec

(* A refunded pot has returned to each player exactly what they put in.    *)
THEOREM RefundsMakeWhole == Spec => []RefundMakesWhole
<1>1. IInv => RefundMakesWhole
  BY DEF IInv, RefundMakesWhole, PotInv, Exists, NoFlow
<1> QED
  BY InitIInv, NextIInv, <1>1, PTL DEF Spec

(* The winner of a resolved pot keeps at least 90% of the two stakes.      *)
THEOREM FeeIsCapped == Spec => []WinnerKeepsNinetyPercent
<1>1. IInv => WinnerKeepsNinetyPercent
  <2> SUFFICES ASSUME IInv, NEW s \in Sessions, Exists(s), pots[s].status = "Resolved"
               PROVE  \/ /\ 10 * (pots[s].stake - flow[s].a) >= 9 * Payout(s)
                         /\ pots[s].stake - flow[s].b = 0
                      \/ /\ 10 * (pots[s].stake - flow[s].b) >= 9 * Payout(s)
                         /\ pots[s].stake - flow[s].a = 0
    BY DEF WinnerKeepsNinetyPercent
  <2>1. pots[s] \in Pot /\ flow[s] \in Flow /\ PotInv(s) /\ pots[s] # NoPot
    BY DEF IInv, TypeOK, Exists
  <2>2. /\ pots[s].stake \in Nat /\ flow[s].a \in Int /\ flow[s].b \in Int
        /\ flow[s].fee \in Nat
    BY <2>1 DEF Pot, Flow
  <2>3. /\ flow[s].a + flow[s].b = flow[s].fee
        /\ 10 * flow[s].fee <= 2 * pots[s].stake
        /\ flow[s].a = pots[s].stake \/ flow[s].b = pots[s].stake
    BY <2>1, <2>2 DEF PotInv, Payout
  <2> QED
    BY <2>2, <2>3 DEF Payout
<1> QED
  BY InitIInv, NextIInv, <1>1, PTL DEF Spec

-----------------------------------------------------------------------------
(* The contract implements the players' promise.                           *)

(* A step that leaves pot t alone leaves its promise alone.                *)
LEMMA SamePot ==
    ASSUME NEW t \in Sessions, pots'[t] = pots[t]
    PROVE  HeldSeats(t)' = HeldSeats(t) /\ Settlement(t)' = Settlement(t)
BY DEF HeldSeats, Settlement, Live, Exists

(* A step on one pot changes the promise at that session only.             *)
LEMMA MapOnePot ==
    ASSUME NEW s \in Sessions, NEW pot, pots \in [Sessions -> Pot \cup {NoPot}],
           pots' = [pots EXCEPT ![s] = pot]
    PROVE  /\ heldStakes[s] = HeldSeats(s) /\ settlements[s] = Settlement(s)
           /\ heldStakes' = [heldStakes EXCEPT ![s] = HeldSeats(s)']
           /\ settlements' = [settlements EXCEPT ![s] = Settlement(s)']
           /\ Settlement(s)' = Settlement(s) => settlements' = settlements
           /\ HeldSeats(s)' = HeldSeats(s) => heldStakes' = heldStakes
<1>1. \A t \in Sessions \ {s} : HeldSeats(t)' = HeldSeats(t) /\ Settlement(t)' = Settlement(t)
  BY SamePot
<1> QED
  BY <1>1 DEF heldStakes, settlements

LEMMA StepKeepsPromise ==
    ASSUME IInv, Next
    PROVE  [Promise!Next]_<<heldStakes, claimed, settlements>>
<1>1. pots \in [Sessions -> Pot \cup {NoPot}]
  BY DEF IInv, TypeOK
<1>2. CASE UNCHANGED <<pots, claimed>>
  BY <1>2, SamePot DEF heldStakes, settlements
<1>3. ASSUME NEW c \in Operators, NEW s \in Sessions, NEW a \in Players,
             NEW b \in Players, NEW x \in Stakes, open_pot(c, s, a, b, x)
      PROVE  UNCHANGED <<heldStakes, claimed, settlements>>
  <2> DEFINE pot == [player_a |-> a, player_b |-> b, stake |-> x,
                     funded_a |-> FALSE, funded_b |-> FALSE, status |-> "Open",
                     deadline_ledger |-> ledger + ClaimWindow]
  <2>1. pots' = [pots EXCEPT ![s] = pot] /\ pots[s] = NoPot
    BY <1>3 DEF open_pot, Exists
  <2>0. ledger + ClaimWindow \in Nat
    BY AmountsAssumption DEF IInv, TypeOK
  <2>2. pot \in Pot /\ pot # NoPot
    <3>1. pot \in Pot
      BY <2>0, AmountsAssumption DEF Pot, PotStatus
    <3> QED
      BY <3>1, NoPotAssumption
  <2>3. pots'[s] = pot
    BY <2>1, <1>1
  <2>4. HeldSeats(s)' = HeldSeats(s) /\ Settlement(s)' = Settlement(s)
    BY <2>1, <2>2, <2>3 DEF HeldSeats, Settlement, Live, Exists
  <2> QED
    BY <1>1, <1>3, <2>1, <2>4, MapOnePot DEF open_pot
<1>4. ASSUME NEW p \in Players, NEW s \in Sessions, stake(p, s)
      PROVE  \E seat \in {"a", "b"} : Promise!Deposit(s, seat)
  <2> DEFINE stA  == IF pots[s].funded_b THEN "Funded" ELSE "Open"
             potA == [pots[s] EXCEPT !.funded_a = TRUE, !.status = stA]
             stB  == IF pots[s].funded_a THEN "Funded" ELSE "Open"
             potB == [pots[s] EXCEPT !.funded_b = TRUE, !.status = stB]
  <2>1. pots[s] \in Pot /\ pots[s] # NoPot /\ pots[s].status = "Open" /\ Live(s)
        /\ s \notin claimed /\ UNCHANGED claimed
    BY <1>1, <1>4 DEF stake, Stakeable, Exists, Live
  <2>2. CASE ~pots[s].funded_a /\ pots' = [pots EXCEPT ![s] = potA]
    <3>1. potA \in Pot /\ potA # NoPot /\ potA.funded_a = TRUE
          /\ potA.funded_b = pots[s].funded_b /\ potA.status \in {"Open", "Funded"}
      <4>1. stA \in {"Open", "Funded"}
        OBVIOUS
      <4> HIDE DEF stA
      <4> QED
        BY <2>1, <4>1, NoPotAssumption DEF Pot, PotStatus
    <3>2. pots'[s] = potA
      BY <2>2, <1>1
    <3> HIDE DEF potA
    <3>3. HeldSeats(s)' = HeldSeats(s) \cup {"a"} /\ "a" \notin HeldSeats(s)
          /\ Settlement(s) = "no" /\ Settlement(s)' = "no"
      BY <2>1, <2>2, <3>1, <3>2 DEF HeldSeats, Settlement, Live, Exists
    <3>4. Promise!Deposit(s, "a")
      BY <1>1, <2>1, <2>2, <3>3, MapOnePot DEF Promise!Deposit
    <3> QED
      BY <3>4
  <2>3. CASE ~pots[s].funded_b /\ pots' = [pots EXCEPT ![s] = potB]
    <3>1. potB \in Pot /\ potB # NoPot /\ potB.funded_b = TRUE
          /\ potB.funded_a = pots[s].funded_a /\ potB.status \in {"Open", "Funded"}
      <4>1. stB \in {"Open", "Funded"}
        OBVIOUS
      <4> HIDE DEF stB
      <4> QED
        BY <2>1, <4>1, NoPotAssumption DEF Pot, PotStatus
    <3>2. pots'[s] = potB
      BY <2>3, <1>1
    <3> HIDE DEF potB
    <3>3. HeldSeats(s)' = HeldSeats(s) \cup {"b"} /\ "b" \notin HeldSeats(s)
          /\ Settlement(s) = "no" /\ Settlement(s)' = "no"
      BY <2>1, <2>3, <3>1, <3>2 DEF HeldSeats, Settlement, Live, Exists
    <3>4. Promise!Deposit(s, "b")
      BY <1>1, <2>1, <2>3, <3>3, MapOnePot DEF Promise!Deposit
    <3> QED
      BY <3>4
  <2> QED
    BY <1>4, <2>2, <2>3 DEF stake, Stakeable
<1>5. ASSUME NEW p \in Players, NEW s \in Sessions, claim_refund(p, s)
      PROVE  \E seat \in {"a", "b"} : Promise!TakeBack(s, seat)
  <2> DEFINE potA == [pots[s] EXCEPT !.funded_a = FALSE, !.status = "Open"]
             potB == [pots[s] EXCEPT !.funded_b = FALSE, !.status = "Open"]
  <2>1. Live(s) /\ pots[s] \in Pot /\ pots[s] # NoPot /\ claimed' = claimed \cup {s}
    BY <1>1, <1>5 DEF claim_refund, Reclaimable, Exists, Live
  <2>2. CASE pots[s].funded_a /\ pots' = [pots EXCEPT ![s] = potA]
    <3>1. potA \in Pot /\ potA # NoPot /\ potA.funded_a = FALSE
          /\ potA.funded_b = pots[s].funded_b /\ potA.status = "Open"
      BY <2>1, NoPotAssumption DEF Pot, PotStatus
    <3>2. pots'[s] = potA
      BY <2>2, <1>1
    <3> HIDE DEF potA
    <3>3. HeldSeats(s)' = HeldSeats(s) \ {"a"} /\ "a" \in HeldSeats(s)
          /\ Settlement(s) = "no" /\ Settlement(s)' = "no"
      BY <2>1, <2>2, <3>1, <3>2 DEF HeldSeats, Settlement, Live, Exists
    <3>4. Promise!TakeBack(s, "a")
      BY <1>1, <2>1, <2>2, <3>3, MapOnePot DEF Promise!TakeBack
    <3> QED
      BY <3>4
  <2>3. CASE pots[s].funded_b /\ pots' = [pots EXCEPT ![s] = potB]
    <3>1. potB \in Pot /\ potB # NoPot /\ potB.funded_b = FALSE
          /\ potB.funded_a = pots[s].funded_a /\ potB.status = "Open"
      BY <2>1, NoPotAssumption DEF Pot, PotStatus
    <3>2. pots'[s] = potB
      BY <2>3, <1>1
    <3> HIDE DEF potB
    <3>3. HeldSeats(s)' = HeldSeats(s) \ {"b"} /\ "b" \in HeldSeats(s)
          /\ Settlement(s) = "no" /\ Settlement(s)' = "no"
      BY <2>1, <2>3, <3>1, <3>2 DEF HeldSeats, Settlement, Live, Exists
    <3>4. Promise!TakeBack(s, "b")
      BY <1>1, <2>1, <2>3, <3>3, MapOnePot DEF Promise!TakeBack
    <3> QED
      BY <3>4
  <2> QED
    BY <1>5, <2>2, <2>3 DEF claim_refund, Reclaimable
<1>6. ASSUME NEW c \in Operators, NEW s \in Sessions, NEW w \in Players \cup Operators, resolve(c, s, w)
      PROVE  Promise!PayWinner(s)
  <2> DEFINE pot == [pots[s] EXCEPT !.status = "Resolved"]
  <2>1. /\ pots' = [pots EXCEPT ![s] = pot] /\ Live(s)
        /\ pots[s].funded_a /\ pots[s].funded_b
        /\ s \notin claimed /\ UNCHANGED claimed
    BY <1>6, LiveFlow DEF resolve, Resolvable, Live
  <2>2. pots[s] \in Pot /\ pots'[s] = pot
    BY <2>1, <1>1 DEF Live, Exists
  <2>3. pot # NoPot /\ pot.status = "Resolved"
    BY <2>2, NoPotAssumption DEF Pot, PotStatus
  <2> HIDE DEF pot
  <2>4. HeldSeats(s) = {"a", "b"} /\ Settlement(s) = "no"
        /\ HeldSeats(s)' = {} /\ Settlement(s)' = "paid"
    BY <2>1, <2>2, <2>3 DEF HeldSeats, Settlement, Live, Exists
  <2> QED
    BY <1>1, <2>1, <2>4, MapOnePot DEF Promise!PayWinner, Promise!Seats
<1>7. ASSUME NEW c \in Operators, NEW s \in Sessions, refund(c, s)
      PROVE  Promise!ReturnAll(s)
  <2> DEFINE pot == [pots[s] EXCEPT !.status = "Refunded"]
  <2>1. pots' = [pots EXCEPT ![s] = pot] /\ Live(s) /\ UNCHANGED claimed
    BY <1>7 DEF refund, Refundable
  <2>2. pots[s] \in Pot /\ pots'[s] = pot
    BY <2>1, <1>1 DEF Live, Exists
  <2>3. pot # NoPot /\ pot.status = "Refunded"
    BY <2>2, NoPotAssumption DEF Pot, PotStatus
  <2> HIDE DEF pot
  <2>4. Settlement(s) = "no" /\ HeldSeats(s)' = {} /\ Settlement(s)' = "returned"
    BY <2>1, <2>2, <2>3 DEF HeldSeats, Settlement, Live, Exists
  <2> QED
    BY <1>1, <2>1, <2>4, MapOnePot DEF Promise!ReturnAll
<1>8. CASE \/ \E c, n \in Operators : set_admin(c, n) \/ set_resolver(c, n)
           \/ \E c \in Operators, f \in FeeBps, r \in Accounts \cup {NoReceiver} :
                 set_fee(c, f, r)
           \/ CloseLedger
  BY <1>2, <1>8 DEF set_admin, set_resolver, set_fee, CloseLedger
<1> QED
  BY <1>3, <1>4, <1>5, <1>6, <1>7, <1>8 DEF Next, Promise!Next, Promise!Seats

(* The contract refines the promise made to the players: a stake leaves    *)
(* escrow only back to its owner or in a settlement, which is final, and   *)
(* after a claim no stake is taken and no winner paid.                     *)
THEOREM PromiseKept == Spec => KeepsPromise
<1>1. Init => Promise!Init
  BY DEF Init, Promise!Init, heldStakes, settlements, HeldSeats, Settlement, Live, Exists
<1>2. IInv /\ [Next]_escrowVars => [Promise!Next]_<<heldStakes, claimed, settlements>>
  <2>1. UNCHANGED escrowVars => UNCHANGED <<heldStakes, claimed, settlements>>
    BY DEF escrowVars, heldStakes, settlements, HeldSeats, Settlement, Live, Exists
  <2> QED
    BY <2>1, StepKeepsPromise
<1> QED
  BY <1>1, <1>2, InitIInv, NextIInv, PTL DEF Spec, KeepsPromise, Promise!Spec

(* A settled pot is never paid into or out of again.                       *)
THEOREM SettlementIsFinal == Spec => SettledOnce
<1>1. IInv /\ [Next]_escrowVars =>
        [\A s \in Sessions :
            Exists(s) /\ pots[s].status \in {"Resolved", "Refunded"} =>
               pots'[s] = pots[s] /\ flow'[s] = flow[s]]_escrowVars
  <2> SUFFICES ASSUME IInv, Next, NEW s \in Sessions, Exists(s),
                      pots[s].status \in {"Resolved", "Refunded"}
               PROVE  pots'[s] = pots[s] /\ flow'[s] = flow[s]
    OBVIOUS
  <2>1. pots \in [Sessions -> Pot \cup {NoPot}] /\ flow \in [Sessions -> Flow]
    BY DEF IInv, TypeOK
  <2>3. ~Live(s)
    BY DEF Live
  <2>4. ASSUME NEW c \in Operators, NEW t \in Sessions, NEW a \in Players,
               NEW b \in Players, NEW x \in Stakes, open_pot(c, t, a, b, x)
        PROVE  pots'[s] = pots[s] /\ flow'[s] = flow[s]
    BY <2>1, <2>4 DEF open_pot
  <2>5. ASSUME NEW p \in Players, NEW t \in Sessions, stake(p, t)
        PROVE  pots'[s] = pots[s] /\ flow'[s] = flow[s]
    BY <2>1, <2>5 DEF stake, Stakeable, Moved
  <2>6. ASSUME NEW p \in Players, NEW t \in Sessions, claim_refund(p, t)
        PROVE  pots'[s] = pots[s] /\ flow'[s] = flow[s]
    BY <2>1, <2>3, <2>6 DEF claim_refund, Reclaimable, Moved
  <2>7. ASSUME NEW c \in Operators, NEW t \in Sessions, NEW w \in Players \cup Operators, resolve(c, t, w)
        PROVE  pots'[s] = pots[s] /\ flow'[s] = flow[s]
    BY <2>1, <2>7 DEF resolve, Resolvable, Moved
  <2>8. ASSUME NEW c \in Operators, NEW t \in Sessions, refund(c, t)
        PROVE  pots'[s] = pots[s] /\ flow'[s] = flow[s]
    BY <2>1, <2>3, <2>8 DEF refund, Refundable, Moved
  <2>9. CASE \/ \E c, n \in Operators : set_admin(c, n) \/ set_resolver(c, n)
             \/ \E c \in Operators, f \in FeeBps, r \in Accounts \cup {NoReceiver} :
                   set_fee(c, f, r)
             \/ CloseLedger
    BY <2>9 DEF set_admin, set_resolver, set_fee, CloseLedger
  <2> QED
    BY <2>4, <2>5, <2>6, <2>7, <2>8, <2>9 DEF Next
<1> QED
  BY <1>1, InitIInv, NextIInv, PTL DEF Spec, SettledOnce

-----------------------------------------------------------------------------
(* The contract's balance covers what it owes.  The sum over all sessions  *)
(* is a recursion over the subsets of Sessions; what holds of every subset *)
(* is proved by looking at a smallest subset for which it would not hold.  *)

(* A non-empty collection of subsets of a finite set has a minimal one.    *)
LEMMA MinimalSubset ==
    ASSUME NEW S, IsFiniteSet(S), NEW T, T \subseteq SUBSET S, T # {}
    PROVE  \E t \in T : \A u \in T : ~(u \subseteq t /\ u # t)
<1>1. IsWellFoundedOn(StrictSubsetOrdering(S), SUBSET S)
  BY FS_StrictSubsetOrderingWellFounded, FS_FiniteSubsetsOfFinite
<1>2. \E t \in T : \A u \in T : ~(<<u, t>> \in StrictSubsetOrdering(S))
  BY <1>1, WFMin
<1> QED
  BY <1>2 DEF StrictSubsetOrdering

(* The element MapThenSumSet takes out of t first.                         *)
Pick(t) == CHOOSE x \in t : TRUE

(* f follows at t the recursion by which MapThenSumSet sums w.             *)
SumsAt(f, w, t) ==
    f[t] = IF t = {} THEN 0 ELSE w[Pick(t)] + f[t \ {Pick(t)}]

(* f[t] is the sum of w over t, for every subset t of S.                   *)
Follows(f, w, S) == \A t \in SUBSET S : SumsAt(f, w, t)
IsSum(f, w, S) == w \in [S -> Int] /\ f \in [SUBSET S -> Int] /\ Follows(f, w, S)

(* Taking out an element leaves a smaller subset.                          *)
LEMMA PickSmaller ==
    ASSUME NEW S, IsFiniteSet(S), NEW t \in SUBSET S, t # {}
    PROVE  /\ Pick(t) \in S /\ Pick(t) \in t
           /\ t \ {Pick(t)} \in SUBSET S
           /\ Cardinality(t) \in Nat /\ Cardinality(t \ {Pick(t)}) \in Nat
           /\ Cardinality(t \ {Pick(t)}) = Cardinality(t) - 1
<1>1. Pick(t) \in t
  BY DEF Pick
<1>2. IsFiniteSet(t)
  BY FS_Subset
<1> QED
  BY <1>1, <1>2, FS_RemoveElement, FS_CardinalityType

(* The recursion has a solution: by cardinality, a function that follows   *)
(* it below t is extended to the subsets of the size of t.                 *)
LEMMA SumExists ==
    ASSUME NEW S, IsFiniteSet(S), NEW w \in [S -> Int]
    PROVE  \E f \in [SUBSET S -> Int] : Follows(f, w, S)
<1> DEFINE Upto(n) == \E f \in [SUBSET S -> Int] :
                 \A u \in SUBSET S : Cardinality(u) <= n => SumsAt(f, w, u)
           T == {t \in SUBSET S : ~Upto(Cardinality(t))}
<1>0. \A u \in SUBSET S : IsFiniteSet(u) /\ Cardinality(u) \in Nat
                          /\ Cardinality(u) <= Cardinality(S) /\ (Cardinality(u) = 0 <=> u = {})
  BY FS_Subset, FS_CardinalityType, FS_EmptySet
<1>1. ASSUME T # {} PROVE FALSE
  <2>1. PICK t \in T : \A u \in T : ~(u \subseteq t /\ u # t)
    <3>1. T \subseteq SUBSET S
      OBVIOUS
    <3> HIDE DEF T
    <3> QED
      BY <1>1, <3>1, MinimalSubset
  <2>2. t \in SUBSET S /\ ~Upto(Cardinality(t))
    BY <2>1
  <2>3. t # {}
    <3> SUFFICES ASSUME t = {} PROVE FALSE
      OBVIOUS
    <3> DEFINE z == [u \in SUBSET S |-> 0]
    <3>1. z \in [SUBSET S -> Int]
      OBVIOUS
    <3>2. \A u \in SUBSET S : Cardinality(u) <= Cardinality(t) => SumsAt(z, w, u)
      BY <1>0 DEF SumsAt
    <3> HIDE DEF z
    <3> QED
      BY <3>1, <3>2, <2>2
  <2> DEFINE v == t \ {Pick(t)}
  <2>4. /\ v \in SUBSET S /\ v \subseteq t /\ v # t
        /\ Cardinality(v) = Cardinality(t) - 1 /\ Cardinality(t) \in Nat
    BY <2>2, <2>3, PickSmaller
  <2>5. PICK g \in [SUBSET S -> Int] :
           \A u \in SUBSET S : Cardinality(u) <= Cardinality(v) => SumsAt(g, w, u)
    <3>1. Upto(Cardinality(v))
      <4> HIDE DEF Upto, v
      <4> QED
        BY <2>1, <2>4
    <3> QED
      BY <3>1
  <2> HIDE DEF v
  <2> DEFINE f == [u \in SUBSET S |-> IF u = {} THEN 0 ELSE w[Pick(u)] + g[u \ {Pick(u)}]]
  <2>6. f \in [SUBSET S -> Int]
    <3>1. ASSUME NEW u \in SUBSET S, u # {} PROVE w[Pick(u)] + g[u \ {Pick(u)}] \in Int
      <4>1. Pick(u) \in S /\ u \ {Pick(u)} \in SUBSET S
        BY <3>1, PickSmaller
      <4> QED
        BY <4>1
    <3> QED
      BY <3>1
  <2>7. ASSUME NEW u \in SUBSET S, Cardinality(u) <= Cardinality(t) PROVE SumsAt(f, w, u)
    <3>1. CASE u = {}
      BY <3>1 DEF SumsAt
    <3>2. CASE u # {}
      <4> DEFINE r == u \ {Pick(u)}
      <4>1. r \in SUBSET S /\ Cardinality(r) <= Cardinality(v)
        BY <2>4, <2>7, <3>2, <1>0, PickSmaller
      <4>2. g[r] = IF r = {} THEN 0 ELSE w[Pick(r)] + g[r \ {Pick(r)}]
        BY <4>1, <2>5 DEF SumsAt
      <4>3. f[r] = g[r]
        <5> HIDE DEF r
        <5> QED
          BY <4>1, <4>2
      <4>4. f[u] = w[Pick(u)] + g[r]
        BY <3>2
      <4> HIDE DEF f
      <4> QED
        BY <3>2, <4>3, <4>4 DEF SumsAt
    <3> QED
      BY <3>1, <3>2
  <2> HIDE DEF f
  <2> QED
    BY <2>2, <2>6, <2>7
<1>2. Upto(Cardinality(S))
  <2> HIDE DEF Upto
  <2>1. S \in SUBSET S
    OBVIOUS
  <2> QED
    BY <1>1, <2>1
<1> QED
  BY <1>0, <1>2 DEF Follows

(* v and w agree on S, except perhaps at k.                                *)
SameBut(v, w, k, S) == \A x \in S \ {k} : v[x] = w[x]

(* Changing one weight changes the sum by as much.                         *)
LEMMA SumChanges ==
    ASSUME NEW S, NEW w, NEW v, NEW k \in S, NEW f, NEW g, IsFiniteSet(S),
           IsSum(f, w, S), IsSum(g, v, S), SameBut(v, w, k, S)
    PROVE  g[S] = f[S] + v[k] - w[k]
<1>0. /\ f \in [SUBSET S -> Int] /\ g \in [SUBSET S -> Int]
      /\ w \in [S -> Int] /\ v \in [S -> Int]
      /\ Follows(f, w, S) /\ Follows(g, v, S)
  BY DEF IsSum
<1> DEFINE D(t) == IF k \in t THEN v[k] - w[k] ELSE 0
           T == {t \in SUBSET S : g[t] # f[t] + D(t)}
<1>1. ASSUME T # {} PROVE FALSE
  <2>1. PICK t \in T : \A u \in T : ~(u \subseteq t /\ u # t)
    <3>1. T \subseteq SUBSET S
      OBVIOUS
    <3> HIDE DEF T
    <3> QED
      BY <1>1, <3>1, MinimalSubset
  <2>2. t \in SUBSET S /\ g[t] # f[t] + D(t)
    BY <2>1
  <2>3. t # {}
    <3> SUFFICES ASSUME t = {} PROVE g[t] = f[t] + D(t)
      BY <2>2
    <3>1. D(t) = 0
      OBVIOUS
    <3>2. f[t] = 0 /\ g[t] = 0
      BY <1>0, <2>2 DEF SumsAt, Follows
    <3> HIDE DEF D
    <3> QED
      BY <3>1, <3>2
  <2> DEFINE x == Pick(t)
             u == t \ {x}
  <2>4. x \in S /\ x \in t /\ u \in SUBSET S /\ u \subseteq t /\ u # t
    BY <2>2, <2>3, PickSmaller
  <2>5. f[t] = w[x] + f[u] /\ g[t] = v[x] + g[u]
    BY <1>0, <2>2, <2>3 DEF SumsAt, Follows
  <2>6. g[u] = f[u] + D(u)
    <3> HIDE DEF u, D
    <3> QED
      BY <2>1, <2>4
  <2>7. /\ f[u] \in Int /\ g[u] \in Int /\ w[x] \in Int /\ v[x] \in Int
        /\ w[k] \in Int /\ v[k] \in Int
    BY <1>0, <2>4
  <2>8. CASE x = k
    <3>1. D(u) = 0 /\ D(t) = v[x] - w[x]
      BY <2>8, <2>4
    <3> HIDE DEF u, x, D
    <3> QED
      BY <2>2, <2>5, <2>6, <2>7, <3>1
  <2>9. CASE x # k
    <3>1. D(u) = D(t) /\ v[x] = w[x] /\ D(t) \in Int
      BY <2>9, <2>4, <2>7 DEF SameBut
    <3> HIDE DEF u, x, D
    <3> QED
      BY <2>2, <2>5, <2>6, <2>7, <3>1
  <2> QED
    BY <2>8, <2>9
<1>2. S \in SUBSET S /\ g[S] \in Int /\ f[S] \in Int /\ v[k] \in Int /\ w[k] \in Int
  BY <1>0
<1>3. g[S] = f[S] + (v[k] - w[k])
  <2>1. g[S] = f[S] + D(S)
    <3> HIDE DEF D
    <3> QED
      BY <1>1, <1>2
  <2> QED
    BY <2>1
<1> QED
  BY <1>2, <1>3

(* A sum of zeros is zero.                                                 *)
LEMMA SumOfZeros ==
    ASSUME NEW S, IsFiniteSet(S), NEW f, NEW w, IsSum(f, w, S), \A x \in S : w[x] = 0
    PROVE  f[S] = 0
<1> DEFINE T == {t \in SUBSET S : f[t] # 0}
<1>1. ASSUME T # {} PROVE FALSE
  <2>1. PICK t \in T : \A u \in T : ~(u \subseteq t /\ u # t)
    <3>1. T \subseteq SUBSET S
      OBVIOUS
    <3> HIDE DEF T
    <3> QED
      BY <1>1, <3>1, MinimalSubset
  <2>2. t # {}
    BY <2>1 DEF SumsAt, Follows, IsSum
  <2> DEFINE u == t \ {Pick(t)}
  <2>3. Pick(t) \in S /\ u \in SUBSET S /\ u \subseteq t /\ u # t
    BY <2>1, <2>2, PickSmaller
  <2>4. f[t] = w[Pick(t)] + f[u]
    BY <2>1, <2>2 DEF SumsAt, Follows, IsSum
  <2>5. f[u] = 0
    <3> HIDE DEF u
    <3> QED
      BY <2>1, <2>3
  <2> QED
    BY <2>1, <2>3, <2>4, <2>5 DEF IsSum
<1>2. S \in SUBSET S
  OBVIOUS
<1> QED
  BY <1>1, <1>2

(* The recursion determines the sum.                                       *)
LEMMA SumUnique ==
    ASSUME NEW S, IsFiniteSet(S), NEW w, NEW f, NEW h,
           Follows(f, w, S), Follows(h, w, S)
    PROVE  h[S] = f[S]
<1> DEFINE T == {t \in SUBSET S : h[t] # f[t]}
<1>1. ASSUME T # {} PROVE FALSE
  <2>1. PICK t \in T : \A u \in T : ~(u \subseteq t /\ u # t)
    <3>1. T \subseteq SUBSET S
      OBVIOUS
    <3> HIDE DEF T
    <3> QED
      BY <1>1, <3>1, MinimalSubset
  <2>2. t # {}
    BY <2>1 DEF SumsAt, Follows
  <2> DEFINE u == t \ {Pick(t)}
  <2>3. u \in SUBSET S /\ u \subseteq t /\ u # t
    BY <2>1, <2>2, PickSmaller
  <2>4. f[t] = w[Pick(t)] + f[u] /\ h[t] = w[Pick(t)] + h[u]
    BY <2>1, <2>2 DEF SumsAt, Follows
  <2>5. h[u] = f[u]
    <3> HIDE DEF u
    <3> QED
      BY <2>1, <2>3
  <2> QED
    BY <2>1, <2>4, <2>5
<1>2. S \in SUBSET S
  OBVIOUS
<1> QED
  BY <1>1, <1>2

(* What the contract owes, by session.                                     *)
owedTo == [s \in Sessions |-> Owed(s)]

(* The sum in Solvent is a sum in this sense, in a state ...               *)
LEMMA OwedSum ==
    ASSUME IsFiniteSet(Sessions), owedTo \in [Sessions -> Int]
    PROVE  \E f \in [SUBSET Sessions -> Int] :
             /\ MapThenSumSet(Owed, Sessions) = f[Sessions]
             /\ Follows(f, owedTo, Sessions)
<1> DEFINE Body(f) == [t \in SUBSET Sessions |->
              IF t = {} THEN 0
              ELSE Owed(CHOOSE x \in t : TRUE) + f[t \ {CHOOSE x \in t : TRUE}]]
           F == CHOOSE f : f = Body(f)
<1>1. MapThenSumSet(Owed, Sessions) = F[Sessions]
  BY DEF MapThenSumSet, MapThenFoldSet
<1>2. PICK f \in [SUBSET Sessions -> Int] : Follows(f, owedTo, Sessions)
  BY SumExists
<1>3. \A t \in SUBSET Sessions : t # {} => owedTo[Pick(t)] = Owed(Pick(t))
  BY PickSmaller DEF owedTo
<1>4. f = Body(f)
  BY <1>2, <1>3 DEF Follows, SumsAt, Pick
<1>5. F = Body(F)
  <2> HIDE DEF Body
  <2> QED
    BY <1>4
<1>6. Follows(F, owedTo, Sessions)
  <2> HIDE DEF F
  <2>1. SUFFICES ASSUME NEW t \in SUBSET Sessions PROVE SumsAt(F, owedTo, t)
    BY DEF Follows
  <2>2. F[t] = IF t = {} THEN 0 ELSE Owed(Pick(t)) + F[t \ {Pick(t)}]
    BY <1>5 DEF Pick
  <2> QED
    BY <1>3, <2>2 DEF SumsAt
<1>7. F[Sessions] = f[Sessions]
  <2> HIDE DEF F
  <2>1. PICK h : h = F
    OBVIOUS
  <2>2. Follows(f, owedTo, Sessions) /\ Follows(h, owedTo, Sessions)
    BY <1>2, <1>6, <2>1
  <2>3. h[Sessions] = f[Sessions]
    BY <2>2, SumUnique
  <2> QED
    BY <2>1, <2>3
<1> QED
  <2> HIDE DEF F
  <2> QED
    BY <1>1, <1>2, <1>7

(* ... and in the next one.                                                *)
LEMMA OwedSumNext ==
    ASSUME IsFiniteSet(Sessions), owedTo' \in [Sessions -> Int]
    PROVE  \E f \in [SUBSET Sessions -> Int] :
             /\ MapThenSumSet(Owed, Sessions)' = f[Sessions]
             /\ Follows(f, owedTo', Sessions)
<1> DEFINE Body(f) == [t \in SUBSET Sessions |->
              IF t = {} THEN 0
              ELSE Owed(CHOOSE x \in t : TRUE)' + f[t \ {CHOOSE x \in t : TRUE}]]
           F == CHOOSE f : f = Body(f)
<1>1. MapThenSumSet(Owed, Sessions)' = F[Sessions]
  BY DEF MapThenSumSet, MapThenFoldSet
<1>2. PICK f \in [SUBSET Sessions -> Int] : Follows(f, owedTo', Sessions)
  BY SumExists
<1>3. \A t \in SUBSET Sessions : t # {} => (owedTo')[Pick(t)] = Owed(Pick(t))'
  BY PickSmaller DEF owedTo
<1>4. f = Body(f)
  BY <1>2, <1>3 DEF Follows, SumsAt, Pick
<1>5. F = Body(F)
  <2> HIDE DEF Body
  <2> QED
    BY <1>4
<1>6. Follows(F, owedTo', Sessions)
  <2> HIDE DEF F
  <2>1. SUFFICES ASSUME NEW t \in SUBSET Sessions PROVE SumsAt(F, owedTo', t)
    BY DEF Follows
  <2>2. F[t] = IF t = {} THEN 0 ELSE Owed(Pick(t))' + F[t \ {Pick(t)}]
    BY <1>5 DEF Pick
  <2> QED
    BY <1>3, <2>2 DEF SumsAt
<1>7. F[Sessions] = f[Sessions]
  <2> HIDE DEF F
  <2>1. PICK h : h = F
    OBVIOUS
  <2>2. Follows(f, owedTo', Sessions) /\ Follows(h, owedTo', Sessions)
    BY <1>2, <1>6, <2>1
  <2>3. h[Sessions] = f[Sessions]
    BY <2>2, SumUnique
  <2> QED
    BY <2>1, <2>3
<1> QED
  <2> HIDE DEF F
  <2> QED
    BY <1>1, <1>2, <1>7

(* What is owed is an integer, in a state and in the next one.             *)
LEMMA OwedType ==
    ASSUME TypeOK
    PROVE  owedTo \in [Sessions -> Int]
<1> SUFFICES ASSUME NEW s \in Sessions PROVE Owed(s) \in Int
  BY DEF owedTo
<1>1. Live(s) => pots[s] \in Pot
  BY DEF TypeOK, Live, Exists
<1> QED
  BY <1>1 DEF Owed, Pot

LEMMA OwedTypeNext ==
    ASSUME TypeOK'
    PROVE  owedTo' \in [Sessions -> Int]
<1> SUFFICES ASSUME NEW s \in Sessions PROVE Owed(s)' \in Int
  BY DEF owedTo
<1>1. Live(s)' => pots'[s] \in Pot
  BY DEF TypeOK, Live, Exists
<1> QED
  BY <1>1 DEF Owed, Pot

(* A step that touches neither pots nor balances keeps the contract solvent. *)
LEMMA SamePots ==
    ASSUME TypeOK, TypeOK', Solvent, UNCHANGED <<pots, balance>>
    PROVE  Solvent'
<1>1. PICK f \in [SUBSET Sessions -> Int] :
        /\ MapThenSumSet(Owed, Sessions) = f[Sessions]
        /\ Follows(f, owedTo, Sessions)
  BY OwedSum, OwedType, SessionsAssumption
<1>2. PICK g \in [SUBSET Sessions -> Int] :
        /\ MapThenSumSet(Owed, Sessions)' = g[Sessions]
        /\ Follows(g, owedTo', Sessions)
  BY OwedSumNext, OwedTypeNext, SessionsAssumption
<1>3. owedTo' = owedTo
  BY DEF owedTo, Owed, Live, Exists
<1>4. Follows(f, owedTo, Sessions) /\ Follows(g, owedTo, Sessions)
  BY <1>1, <1>2, <1>3
<1>5. g[Sessions] = f[Sessions]
  BY <1>4, SumUnique, SessionsAssumption
<1> QED
  BY <1>1, <1>2, <1>5 DEF Solvent

(* A step on one pot does so if the balance falls by no more than what is  *)
(* owed for that pot.                                                      *)
LEMMA OnePotPays ==
    ASSUME TypeOK, TypeOK', Solvent, NEW s \in Sessions,
           \A t \in Sessions \ {s} : pots'[t] = pots[t],
           balance'[Contract] - balance[Contract] >= Owed(s)' - Owed(s)
    PROVE  Solvent'
<1>0. owedTo \in [Sessions -> Int] /\ owedTo' \in [Sessions -> Int]
  BY OwedType, OwedTypeNext
<1>1. PICK f \in [SUBSET Sessions -> Int] :
        /\ MapThenSumSet(Owed, Sessions) = f[Sessions]
        /\ Follows(f, owedTo, Sessions)
  BY <1>0, OwedSum, SessionsAssumption
<1>2. PICK g \in [SUBSET Sessions -> Int] :
        /\ MapThenSumSet(Owed, Sessions)' = g[Sessions]
        /\ Follows(g, owedTo', Sessions)
  BY <1>0, OwedSumNext, SessionsAssumption
<1>3. \A t \in Sessions \ {s} : owedTo'[t] = owedTo[t]
  BY DEF owedTo, Owed, Live, Exists
<1>4. Follows(f, owedTo, Sessions) /\ Follows(g, owedTo', Sessions)
  BY <1>1, <1>2
<1>5. g[Sessions] = f[Sessions] + owedTo'[s] - owedTo[s]
  <2>1. PICK w, v : w = owedTo /\ v = owedTo'
    OBVIOUS
  <2>2. /\ IsSum(f, w, Sessions) /\ IsSum(g, v, Sessions)
        /\ SameBut(v, w, s, Sessions)
    BY <1>0, <1>1, <1>2, <1>3, <1>4, <2>1 DEF SameBut, IsSum
  <2>3. g[Sessions] = f[Sessions] + v[s] - w[s]
    BY <2>2, SumChanges, SessionsAssumption
  <2> QED
    BY <2>1, <2>3
<1>6. owedTo[s] = Owed(s) /\ owedTo'[s] = Owed(s)'
  BY DEF owedTo
<1>7. /\ f[Sessions] \in Int /\ g[Sessions] \in Int
      /\ Owed(s) \in Int /\ Owed(s)' \in Int
      /\ balance[Contract] \in Int /\ balance'[Contract] \in Int
  <2>1. Sessions \in SUBSET Sessions
    OBVIOUS
  <2>2. balance[Contract] \in Int /\ balance'[Contract] \in Int
    BY DEF TypeOK, Accounts
  <2> QED
    BY <1>0, <1>1, <1>2, <1>6, <2>1, <2>2
<1>8. balance[Contract] >= f[Sessions]
  BY <1>1 DEF Solvent
<1>9. balance'[Contract] >= g[Sessions]
  BY <1>5, <1>6, <1>7, <1>8
<1> QED
  BY <1>2, <1>9 DEF Solvent

(* The deployed contract owes nothing.                                     *)
LEMMA InitSolvent == Init => Solvent
<1> SUFFICES ASSUME Init PROVE Solvent
  OBVIOUS
<1>1. TypeOK
  BY InitIInv DEF IInv
<1>2. PICK f \in [SUBSET Sessions -> Int] :
        /\ MapThenSumSet(Owed, Sessions) = f[Sessions]
        /\ Follows(f, owedTo, Sessions)
  BY <1>1, OwedSum, OwedType, SessionsAssumption
<1>3. \A s \in Sessions : owedTo[s] = 0
  BY DEF Init, owedTo, Owed, Live, Exists
<1>4. f[Sessions] = 0
  <2>1. PICK w : w = owedTo
    OBVIOUS
  <2>2. IsSum(f, w, Sessions) /\ \A s \in Sessions : w[s] = 0
    BY <1>1, <1>2, <1>3, <2>1, OwedType DEF IsSum
  <2> QED
    BY <2>2, SumOfZeros, SessionsAssumption
<1>5. balance[Contract] = 0
  BY AccountsAssumption DEF Init, Accounts
<1> QED
  BY <1>2, <1>4, <1>5 DEF Solvent

(* A transfer takes its amount from the contract at most.                  *)
LEMMA TransferOut ==
    ASSUME NEW bal \in [Accounts -> Nat], NEW t \in Accounts, NEW x \in Nat
    PROVE  /\ transfer(bal, Contract, t, x)[Contract] >= bal[Contract] - x
           /\ transfer(bal, Contract, t, x)[Contract] \in Int
BY AccountsAssumption DEF transfer, Accounts

(* A settlement moves as much of the contract's balance as of the pot's    *)
(* history, or less.                                                       *)
LEMMA PotPays ==
    ASSUME IInv, IInv', PotAccounted, PotAccounted', Solvent, NEW s \in Sessions,
           \A t \in Sessions \ {s} : pots'[t] = pots[t],
           NEW da \in Int, NEW db \in Int, NEW fee \in Nat,
           flow' = Moved(s, da, db, fee),
           balance'[Contract] >= balance[Contract] + da + db - fee
    PROVE  Solvent'
<1>1. /\ flow \in [Sessions -> Flow] /\ flow[s].a \in Int /\ flow[s].b \in Int
      /\ flow[s].fee \in Int
  BY DEF IInv, TypeOK, Flow
<1>2. MovedFacts(s, da, db, fee)
  BY <1>1, MovedLemma
<1>3. /\ flow[s].a + flow[s].b = flow[s].fee + Owed(s)
      /\ flow'[s].a + flow'[s].b = flow'[s].fee + Owed(s)'
  BY DEF PotAccounted
<1>4. /\ Owed(s) \in Int /\ Owed(s)' \in Int
      /\ balance[Contract] \in Int /\ balance'[Contract] \in Int
  <2>1. owedTo[s] = Owed(s) /\ owedTo'[s] = Owed(s)'
    BY DEF owedTo
  <2>2. owedTo \in [Sessions -> Int] /\ owedTo' \in [Sessions -> Int]
    BY OwedType, OwedTypeNext DEF IInv
  <2>3. balance[Contract] \in Int /\ balance'[Contract] \in Int
    BY DEF IInv, TypeOK, Accounts
  <2> QED
    BY <2>1, <2>2, <2>3
<1>5. /\ flow'[s].a = flow[s].a + da /\ flow'[s].b = flow[s].b + db
      /\ flow'[s].fee = flow[s].fee + fee
  BY <1>2 DEF MovedFacts
<1>6. balance'[Contract] - balance[Contract] >= Owed(s)' - Owed(s)
  BY <1>1, <1>3, <1>4, <1>5
<1> QED
  BY <1>6, OnePotPays DEF IInv

LEMMA StakeSolvent ==
    ASSUME IInv, IInv', PotAccounted, PotAccounted', Solvent,
           NEW p \in Players, NEW s \in Sessions, stake(p, s)
    PROVE  Solvent'
<1>1. /\ pots \in [Sessions -> Pot \cup {NoPot}] /\ balance \in [Accounts -> Nat]
      /\ p \in Accounts /\ Contract \in Accounts /\ p # Contract
  BY AccountsAssumption DEF IInv, TypeOK, Accounts
<1>2. Live(s)
  BY DEF stake, Stakeable, Live
<1>3. pots[s].stake \in Nat
  BY <1>2, LiveFlow
<1>4. balance'[Contract] = balance[Contract] + pots[s].stake
  BY <1>1, <1>3 DEF stake, transfer
<1>5. \A t \in Sessions \ {s} : pots'[t] = pots[t]
  BY <1>1 DEF stake
<1>6. \/ flow' = Moved(s, pots[s].stake, 0, 0)
      \/ flow' = Moved(s, 0, pots[s].stake, 0)
  BY DEF stake
<1>7. balance[Contract] \in Int
  BY <1>1
<1>8. CASE flow' = Moved(s, pots[s].stake, 0, 0)
  <2>1. balance'[Contract] >= balance[Contract] + pots[s].stake + 0 - 0
    BY <1>3, <1>4, <1>7
  <2> QED
    BY <1>3, <1>5, <1>8, <2>1, PotPays
<1>9. CASE flow' = Moved(s, 0, pots[s].stake, 0)
  <2>1. balance'[Contract] >= balance[Contract] + 0 + pots[s].stake - 0
    BY <1>3, <1>4, <1>7
  <2> QED
    BY <1>3, <1>5, <1>9, <2>1, PotPays
<1> QED
  BY <1>6, <1>8, <1>9

LEMMA ClaimSolvent ==
    ASSUME IInv, IInv', PotAccounted, PotAccounted', Solvent,
           NEW p \in Players, NEW s \in Sessions, claim_refund(p, s)
    PROVE  Solvent'
<1>1. /\ pots \in [Sessions -> Pot \cup {NoPot}] /\ balance \in [Accounts -> Nat]
      /\ p \in Accounts /\ Contract \in Accounts
  BY DEF IInv, TypeOK, Accounts
<1>2. Live(s)
  BY DEF claim_refund, Reclaimable
<1>3. pots[s].stake \in Nat /\ -pots[s].stake \in Int
  BY <1>2, LiveFlow
<1>4. /\ balance'[Contract] >= balance[Contract] - pots[s].stake
      /\ balance'[Contract] \in Int /\ balance[Contract] \in Int
  BY <1>1, <1>3, TransferOut DEF claim_refund
<1>5. \A t \in Sessions \ {s} : pots'[t] = pots[t]
  BY <1>1 DEF claim_refund
<1>6. \/ flow' = Moved(s, -pots[s].stake, 0, 0)
      \/ flow' = Moved(s, 0, -pots[s].stake, 0)
  BY DEF claim_refund
<1>7. CASE flow' = Moved(s, -pots[s].stake, 0, 0)
  <2>1. balance'[Contract] >= balance[Contract] + (-pots[s].stake) + 0 - 0
    BY <1>3, <1>4
  <2> QED
    BY <1>3, <1>5, <1>7, <2>1, PotPays
<1>8. CASE flow' = Moved(s, 0, -pots[s].stake, 0)
  <2>1. balance'[Contract] >= balance[Contract] + 0 + (-pots[s].stake) - 0
    BY <1>3, <1>4
  <2> QED
    BY <1>3, <1>5, <1>8, <2>1, PotPays
<1> QED
  BY <1>6, <1>7, <1>8

LEMMA RefundSolvent ==
    ASSUME IInv, IInv', PotAccounted, PotAccounted', Solvent,
           NEW c \in Operators, NEW s \in Sessions, refund(c, s)
    PROVE  Solvent'
<1> DEFINE toA == IF pots[s].funded_a THEN pots[s].stake ELSE 0
           toB == IF pots[s].funded_b THEN pots[s].stake ELSE 0
           mid == transfer(balance, Contract, pots[s].player_a, toA)
<1>1. /\ pots \in [Sessions -> Pot \cup {NoPot}] /\ balance \in [Accounts -> Nat]
      /\ Contract \in Accounts /\ balance[Contract] \in Nat
  BY DEF IInv, TypeOK, Accounts
<1>2. /\ Live(s) /\ flow' = Moved(s, -toA, -toB, 0) /\ balance[Contract] >= toA + toB
      /\ balance' = transfer(mid, Contract, pots[s].player_b, toB)
      /\ \A t \in Sessions \ {s} : pots'[t] = pots[t]
  BY <1>1 DEF refund, Refundable, ToReturn
<1>3. /\ toA \in Nat /\ toB \in Nat /\ -toA \in Int /\ -toB \in Int
      /\ pots[s].player_a \in Accounts /\ pots[s].player_b \in Accounts
  BY <1>2, LiveFlow DEF Pot, Accounts
<1> HIDE DEF toA, toB
<1>4. balance[Contract] >= toA
  BY <1>1, <1>2, <1>3
<1>5. mid \in [Accounts -> Nat] /\ mid[Contract] >= balance[Contract] - toA
  BY <1>1, <1>3, <1>4, TransferType
<1> HIDE DEF mid
<1>6. balance'[Contract] >= mid[Contract] - toB /\ balance'[Contract] \in Int
  BY <1>2, <1>3, <1>5, TransferOut
<1>7. mid[Contract] \in Int
  BY <1>1, <1>5
<1>8. balance'[Contract] >= balance[Contract] + (-toA) + (-toB) - 0
  BY <1>1, <1>3, <1>5, <1>6, <1>7
<1> QED
  BY <1>2, <1>3, <1>8, PotPays

LEMMA ResolveSolvent ==
    ASSUME IInv, IInv', PotAccounted, PotAccounted', Solvent, NEW c \in Operators,
           NEW s \in Sessions, NEW w \in Players \cup Operators, resolve(c, s, w)
    PROVE  Solvent'
<1> DEFINE paidFee == IF config.fee_receiver = NoReceiver THEN 0 ELSE Fee(s)
           afterFee == IF paidFee = 0 THEN balance
                       ELSE transfer(balance, Contract, config.fee_receiver, paidFee)
           prize == Prize(s)
<1>1. /\ pots \in [Sessions -> Pot \cup {NoPot}] /\ balance \in [Accounts -> Nat]
      /\ Contract \in Accounts /\ balance[Contract] \in Nat /\ w \in Accounts
      /\ config \in Config
  BY DEF IInv, TypeOK, Accounts
<1>2. /\ Live(s) /\ balance[Contract] >= Payout(s)
      /\ balance' = transfer(afterFee, Contract, w, prize)
      /\ \/ flow' = Moved(s, -prize, 0, paidFee)
         \/ flow' = Moved(s, 0, -prize, paidFee)
      /\ \A t \in Sessions \ {s} : pots'[t] = pots[t]
  BY <1>1 DEF resolve, Resolvable, Live
<1>3. Payout(s) \in Nat
  BY <1>2, LiveFlow DEF Payout
<1>4. Fee(s) \in Nat /\ 10 * Fee(s) <= Payout(s)
  <2>1. config.fee_bps \in Nat /\ config.fee_bps <= 1000
    BY <1>1 DEF IInv, FeeInv, MAX_FEE_BPS, Config
  <2> QED
    BY <2>1, <1>3, FeeBound DEF Fee, BPS_DENOMINATOR
<1>5. /\ prize \in Nat /\ -prize \in Int /\ paidFee \in Nat
      /\ paidFee <= Fee(s) /\ prize + Fee(s) = Payout(s)
  BY <1>3, <1>4 DEF Prize
<1>6. afterFee \in [Accounts -> Nat] /\ afterFee[Contract] >= balance[Contract] - paidFee
  <2>1. CASE paidFee = 0
    <3> HIDE DEF paidFee
    <3> QED
      BY <2>1, <1>1
  <2>2. CASE paidFee # 0
    <3>1. config.fee_receiver \in Accounts
      BY <2>2, <1>1 DEF Config
    <3>2. balance[Contract] >= paidFee
      BY <1>1, <1>2, <1>3, <1>4, <1>5
    <3> HIDE DEF paidFee
    <3> QED
      BY <2>2, <3>1, <3>2, <1>1, <1>5, TransferType
  <2> QED
    BY <2>1, <2>2
<1> HIDE DEF paidFee, afterFee, prize
<1>7. balance'[Contract] >= afterFee[Contract] - prize /\ balance'[Contract] \in Int
  BY <1>1, <1>2, <1>5, <1>6, TransferOut
<1>8. afterFee[Contract] \in Int
  BY <1>1, <1>6
<1>9. CASE flow' = Moved(s, -prize, 0, paidFee)
  <2>1. balance'[Contract] >= balance[Contract] + (-prize) + 0 - paidFee
    BY <1>1, <1>5, <1>6, <1>7, <1>8
  <2> QED
    BY <1>2, <1>5, <1>9, <2>1, PotPays
<1>10. CASE flow' = Moved(s, 0, -prize, paidFee)
  <2>1. balance'[Contract] >= balance[Contract] + 0 + (-prize) - paidFee
    BY <1>1, <1>5, <1>6, <1>7, <1>8
  <2> QED
    BY <1>2, <1>5, <1>10, <2>1, PotPays
<1> QED
  BY <1>2, <1>9, <1>10

(* A new pot holds no stake.                                               *)
LEMMA OpenSolvent ==
    ASSUME IInv, IInv', PotAccounted, PotAccounted', Solvent, NEW c \in Operators,
           NEW s \in Sessions, NEW a \in Players, NEW b \in Players, NEW x \in Stakes,
           open_pot(c, s, a, b, x)
    PROVE  Solvent'
<1>1. /\ \A t \in Sessions \ {s} : pots'[t] = pots[t]
      /\ UNCHANGED <<balance, flow>>
  BY DEF open_pot, IInv, TypeOK
<1>2. flow[s].fee + Owed(s) = flow[s].fee + Owed(s)'
  BY <1>1 DEF PotAccounted
<1>3. balance'[Contract] - balance[Contract] >= Owed(s)' - Owed(s)
  <2>1. owedTo \in [Sessions -> Int] /\ owedTo' \in [Sessions -> Int]
    BY OwedType, OwedTypeNext DEF IInv
  <2>2. Owed(s) \in Int /\ Owed(s)' \in Int
    BY <2>1 DEF owedTo
  <2>3. flow[s].fee \in Int /\ balance[Contract] \in Int /\ balance' = balance
    BY <1>1 DEF IInv, TypeOK, Flow, Accounts
  <2> QED
    BY <1>2, <2>2, <2>3
<1> QED
  BY <1>1, <1>3, OnePotPays DEF IInv

(* Every step keeps the contract solvent.  PotAccounted, before and after, *)
(* turns what the step moves of a pot's history into what is owed.         *)
LEMMA NextSolvent ==
    ASSUME IInv, IInv', PotAccounted, PotAccounted', Solvent, [Next]_escrowVars
    PROVE  Solvent'
<1>1. CASE UNCHANGED escrowVars \/ CloseLedger
  BY <1>1, SamePots DEF escrowVars, CloseLedger, IInv
<1>2. ASSUME NEW c \in Operators,
             \/ \E n \in Operators : set_admin(c, n) \/ set_resolver(c, n)
             \/ \E f \in FeeBps, r \in Accounts \cup {NoReceiver} : set_fee(c, f, r)
      PROVE  Solvent'
  <2>1. UNCHANGED <<pots, balance>>
    BY <1>2, ZenonT(40) DEF set_admin, set_resolver, set_fee
  <2> QED
    BY <2>1, SamePots DEF IInv
<1> QED
  BY <1>1, <1>2, OpenSolvent, StakeSolvent, ClaimSolvent, RefundSolvent, ResolveSolvent DEF Next

(* With finitely many sessions, the contract's balance covers the stakes of *)
(* all live pots, whatever the fee, its receiver and the mix of calls: no  *)
(* transfer of resolve, refund or claim_refund fails for lack of funds.    *)
THEOREM ContractIsSolvent == Spec => []Solvent
<1>1. Spec => []IInv
  BY InitIInv, NextIInv, PTL DEF Spec
<1>2. IInv /\ IInv' /\ PotAccounted /\ PotAccounted' /\ Solvent /\ [Next]_escrowVars => Solvent'
  BY NextSolvent
<1> QED
  BY <1>1, <1>2, InitSolvent, PotsAccounted, PTL DEF Spec
=============================================================================
