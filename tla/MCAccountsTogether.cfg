\* Any two requests overlap at every await; the process may restart at any moment.
SPECIFICATION Spec
CONSTANTS
    Slots = {r1, r2}
    Passwords = {p1}
    Addresses = {g1}
    Lyrics = {l1}
    MaxSignOuts = 1
    Mails = {m1}
    NoUser = nouser
SYMMETRY Alike
INVARIANTS NeverRewardedTwice
CHECK_DEADLOCK FALSE
