--------------------------- MODULE EscrowPromise ---------------------------
(***************************************************************************)
(* What the escrow contract promises the two players of each session,      *)
(* without accounts, fees or deadlines: a stake is held for its owner      *)
(* until the owner takes it back or the session is settled; a settlement   *)
(* is final, empties the pot, and pays a winner only out of both stakes.   *)
(* Once a player has taken a stake back the match is off: no stake is      *)
(* taken for it and no winner paid, only stakes returned.                  *)
(***************************************************************************)
EXTENDS Naturals

CONSTANT Sessions

VARIABLES
    held,       \* whose stakes the contract holds for the session
    reclaimed,  \* the sessions a player took a stake back from
    settled     \* "no", "paid" to a winner or "returned" to the players

Seats == {"a", "b"}

Init ==
    /\ held = [s \in Sessions |-> {}]
    /\ reclaimed = {}
    /\ settled = [s \in Sessions |-> "no"]

Deposit(s, seat) ==
    /\ settled[s] = "no"
    /\ s \notin reclaimed
    /\ seat \notin held[s]
    /\ held' = [held EXCEPT ![s] = @ \cup {seat}]
    /\ UNCHANGED <<reclaimed, settled>>

TakeBack(s, seat) ==
    /\ settled[s] = "no"
    /\ seat \in held[s]
    /\ held' = [held EXCEPT ![s] = @ \ {seat}]
    /\ reclaimed' = reclaimed \cup {s}
    /\ UNCHANGED settled

PayWinner(s) ==
    /\ settled[s] = "no"
    /\ s \notin reclaimed
    /\ held[s] = Seats
    /\ held' = [held EXCEPT ![s] = {}]
    /\ settled' = [settled EXCEPT ![s] = "paid"]
    /\ UNCHANGED reclaimed

ReturnAll(s) ==
    /\ settled[s] = "no"
    /\ held' = [held EXCEPT ![s] = {}]
    /\ settled' = [settled EXCEPT ![s] = "returned"]
    /\ UNCHANGED reclaimed

Next ==
    \E s \in Sessions :
       \/ \E seat \in Seats : Deposit(s, seat) \/ TakeBack(s, seat)
       \/ PayWinner(s)
       \/ ReturnAll(s)

Spec == Init /\ [][Next]_<<held, reclaimed, settled>>
=============================================================================
