\* Two pots share the contract's balance; fees at the cap and one above it; fair
\* only to the ledger and to players reclaiming, never to the resolver or the admin.
SPECIFICATION FairSpec
CONSTANTS
    Players = {alice, bob}
    Operators = {ops}
    Contract = contract
    NoReceiver = none
    NoPot = nopot
    Stakes = {5003}
    InitialBalance = 10006
    ClaimWindow = 1
    I128Max = 100000000
    Sessions = {s1, s2}
    FeeBps = {0, 1000, 1001}
    MaxLedger = 3
INVARIANTS PotAccounted Solvent RefundMakesWhole WinnerKeepsNinetyPercent
PROPERTIES  SettledOnce StakeNeverStuck
CHECK_DEADLOCK FALSE
