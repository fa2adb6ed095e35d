\* logoutAll's claim, with a sign-in in flight.
SPECIFICATION Spec
CONSTANTS
    Slots = {r1}
    Passwords = {p1}
    Addresses = {}
    Lyrics = {l1}
    MaxSignOuts = 1
    Mails = {}
    NoUser = nouser
SYMMETRY Alike
INVARIANTS RevokedStaysRevoked
CHECK_DEADLOCK FALSE
