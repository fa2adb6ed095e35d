------------------------------ MODULE Accounts ------------------------------
(***************************************************************************)
(* One player's users row and everything that writes it: sign-in,          *)
(* sign-out, password change, email verification, wallet linking, profile  *)
(* edits, account removal and the experience points of the daily           *)
(* challenge (auth.service.ts, stellar-auth.service.ts,                    *)
(* email-verification.service.ts, users.service.ts, xp-level.service.ts,   *)
(* challenges.service.ts), with the check of access tokens (jwt.strategy). *)
(*                                                                         *)
(* Most writers read the row, await something, and call repository.save,   *)
(* which writes every column of the entity they hold that differs from the *)
(* row by then: a column they never touched is put back to what it was.    *)
(* passwordHash is left alone unless the entity was loaded with it.        *)
(***************************************************************************)
EXTENDS Naturals, FiniteSets

CONSTANTS
    Slots,       \* requests that may be in flight
    Passwords,   \* passwords the player may choose
    Addresses,   \* Stellar accounts the player may link
    Lyrics,      \* the day's challenge
    MaxSignOuts, \* bound on sign-outs everywhere
    Mails,       \* verification tokens that may be mailed
    NoUser       \* no snapshot

ASSUME AccountsAssumption ==
    /\ IsFiniteSet(Slots) /\ MaxSignOuts \in Nat
    /\ "none" \notin Addresses

(* identity: the email, username and name the player signed up with, or    *)
(* their anonymised replacements.                                          *)
User ==
    [password : Passwords, tokenVersion : 0..MaxSignOuts, isActive : BOOLEAN,
     identity : {"own", "deleted"}, verified : BOOLEAN,
     wallet : Addresses \cup {"none"}, xp : 0..Cardinality(Lyrics)]

VARIABLES
    user,       \* the row
    access,     \* access tokens handed out: the version in them, and their era
    era,        \* history: how often the player was signed out everywhere
    mails,      \* verification tokens issued and not used
    mailed,     \* verification tokens issued so far
    attempts,   \* the player's daily_challenge_attempts
    playing,    \* whether the player has an active wager
    req         \* what each slot is doing

vars == <<user, access, era, mails, mailed, attempts, playing, req>>
rest == <<access, era, mails, mailed, attempts, playing>>

Idle == [op |-> "idle", pc |-> "idle", u |-> NoUser, arg |-> "none"]
IsIdle(r) == req[r] = Idle

(* A request starts; nothing keeps it from overlapping others.             *)
Begin(r, op, pc, u, arg) ==
    /\ IsIdle(r)
    /\ req' = [req EXCEPT ![r] = [op |-> op, pc |-> pc, u |-> u, arg |-> arg]]

At(r, op, pc) == req[r].op = op /\ req[r].pc = pc
Goto(r, pc)   == req' = [req EXCEPT ![r].pc = pc]
Done(r)       == req' = [req EXCEPT ![r] = Idle]

(* repository.save of an entity loaded with its passwordHash, ... *)
SaveWithHash(u) == user' = u

(* ... and of one loaded without it. *)
Save(u) == user' = [u EXCEPT !.password = user.password]

-----------------------------------------------------------------------------
(* Access tokens *)

(* JwtStrategy.validate *)
Accepted(t) == user.isActive /\ t.version = user.tokenVersion

Authenticated == \E t \in access : Accepted(t)

(* issueToken puts no version in the payload; validate reads that as 0. *)
issueToken == access' = access \cup {[version |-> 0, era |-> era]}

-----------------------------------------------------------------------------
(* Signing in and out *)

(* The password and isActive are checked on the row that is read. *)
Login(r, password) ==
    /\ user.identity = "own" /\ password = user.password /\ user.isActive
    /\ Begin(r, "login", "save", user, "none")
    /\ UNCHANGED <<user, rest>>

(* lastLoginAt is stamped and the whole entity saved. *)
LoginSave(r) ==
    /\ At(r, "login", "save")
    /\ SaveWithHash(req[r].u)
    /\ issueToken
    /\ Done(r)
    /\ UNCHANGED <<era, mails, mailed, attempts, playing>>

LoginWithWallet(r, address) ==
    /\ address = user.wallet /\ user.isActive
    /\ Begin(r, "walletLogin", "save", user, "none")
    /\ UNCHANGED <<user, rest>>

LoginWithWalletSave(r) ==
    /\ At(r, "walletLogin", "save")
    /\ Save(req[r].u)
    /\ issueToken
    /\ Done(r)
    /\ UNCHANGED <<era, mails, mailed, attempts, playing>>

(* Bounded by MaxSignOuts. *)
ChangePassword(r, current, new) ==
    /\ Authenticated /\ era < MaxSignOuts
    /\ current = user.password
    /\ Begin(r, "change", "save", [user EXCEPT !.password = new], "none")
    /\ UNCHANGED <<user, rest>>

(* user.tokenVersion += 1 *)
Bumped(u) == [u EXCEPT !.tokenVersion = u.tokenVersion + 1]

ChangePasswordSave(r) ==
    /\ At(r, "change", "save") /\ era < MaxSignOuts
    /\ SaveWithHash(Bumped(req[r].u))
    /\ era' = era + 1
    /\ Done(r)
    /\ UNCHANGED <<access, mails, mailed, attempts, playing>>

(* One atomic UPDATE. *)
LogoutAll ==
    /\ Authenticated /\ era < MaxSignOuts
    /\ user.tokenVersion < MaxSignOuts
    /\ user' = Bumped(user)
    /\ era' = era + 1
    /\ UNCHANGED <<access, mails, mailed, attempts, playing, req>>

-----------------------------------------------------------------------------
(* Email verification *)

(* A token nobody was mailed before. *)
issue(t) ==
    /\ t \notin mailed
    /\ mailed' = mailed \cup {t}
    /\ mails' = mails \cup {t}

ResendVerification(t) ==
    /\ user.identity = "own" /\ ~user.verified
    /\ issue(t)
    /\ UNCHANGED <<user, access, era, attempts, playing, req>>

(* consume reads the token with its user, ... *)
VerifyEmail(r, t) ==
    /\ t \in mails
    /\ Begin(r, "verify", "use", user, t)
    /\ UNCHANGED <<user, rest>>

(* ... marks it used ... *)
VerifyEmailUse(r) ==
    /\ At(r, "verify", "use")
    /\ mails' = mails \ {req[r].arg}
    /\ IF req[r].u.verified THEN Done(r) ELSE Goto(r, "save")
    /\ UNCHANGED <<user, access, era, mailed, attempts, playing>>

(* ... and saves the user. *)
VerifyEmailSave(r) ==
    /\ At(r, "verify", "save")
    /\ Save([req[r].u EXCEPT !.verified = TRUE])
    /\ Done(r)
    /\ UNCHANGED rest

-----------------------------------------------------------------------------
(* The wallet link *)

(* No pot of theirs is open. *)
assertNoActiveWager == ~playing

LinkWallet(r, address) ==
    /\ Authenticated /\ assertNoActiveWager
    /\ Begin(r, "link", "read", NoUser, address)
    /\ UNCHANGED <<user, rest>>

(* The challenge was verified and consumed; the user is read again. *)
LinkWalletRead(r) ==
    /\ At(r, "link", "read")
    /\ req' = [req EXCEPT ![r].pc = "save", ![r].u = user]
    /\ UNCHANGED <<user, rest>>

LinkWalletSave(r) ==
    /\ At(r, "link", "save")
    /\ Save([req[r].u EXCEPT !.wallet = req[r].arg])
    /\ Done(r)
    /\ UNCHANGED rest

UnlinkWallet(r) ==
    /\ Authenticated /\ assertNoActiveWager
    /\ Begin(r, "unlink", "update", NoUser, "none")
    /\ UNCHANGED <<user, rest>>

(* An UPDATE of the two wallet columns. *)
UnlinkWalletUpdate(r) ==
    /\ At(r, "unlink", "update")
    /\ user' = [user EXCEPT !.wallet = "none"]
    /\ Done(r)
    /\ UNCHANGED rest

(* A wagered match is opened, which needs a linked wallet, or ends. *)
WagerOpens ==
    /\ ~playing /\ user.wallet # "none"
    /\ playing' = TRUE
    /\ UNCHANGED <<user, access, era, mails, mailed, attempts, req>>

WagerCloses ==
    /\ playing
    /\ playing' = FALSE
    /\ UNCHANGED <<user, access, era, mails, mailed, attempts, req>>

-----------------------------------------------------------------------------
(* Profile edits and removal *)

(* updateProfile and updatePreferences; the names and preferences they     *)
(* change are not told apart here.                                         *)
EditProfile(r) ==
    /\ Authenticated
    /\ Begin(r, "edit", "save", user, "none")
    /\ UNCHANGED <<user, rest>>

(* update by an admin, who may set isActive. *)
AdminUpdate(r, active) ==
    /\ Begin(r, "edit", "save", [user EXCEPT !.isActive = active], "none")
    /\ UNCHANGED <<user, rest>>

EditSave(r) ==
    /\ At(r, "edit", "save")
    /\ Save(req[r].u)
    /\ Done(r)
    /\ UNCHANGED rest

(* remove, by an admin: the row is read, ... *)
Remove(r) ==
    /\ Begin(r, "remove", "check", user, "none")
    /\ UNCHANGED <<user, rest>>

(* ... wagers are looked at, ... *)
RemoveCheck(r) ==
    /\ At(r, "remove", "check")
    /\ IF playing THEN Done(r) ELSE Goto(r, "erase")
    /\ UNCHANGED <<user, rest>>

(* ... erasePersonalData deletes tokens in a transaction, ... *)
RemoveErase(r) ==
    /\ At(r, "remove", "erase")
    /\ mails' = {}
    /\ Goto(r, "save")
    /\ UNCHANGED <<user, access, era, mailed, attempts, playing>>

Anonymised(u) ==
    [u EXCEPT !.isActive = FALSE, !.identity = "deleted", !.wallet = "none"]

(* ... and the row is anonymised. *)
RemoveSave(r) ==
    /\ At(r, "remove", "save")
    /\ Save(Anonymised(req[r].u))
    /\ Done(r)
    /\ UNCHANGED <<access, era, mails, mailed, attempts, playing>>

-----------------------------------------------------------------------------
(* The daily challenge *)

(* guess: whether the answer is right, and whether it came within the      *)
(* answer window, is settled before the attempt is recorded.               *)
Guess(r, lyric, isCorrect, withinWindow) ==
    /\ Authenticated
    /\ Begin(r, "guess",
             IF ~isCorrect THEN "wrong" ELSE IF withinWindow THEN "right" ELSE "late",
             NoUser, lyric)
    /\ UNCHANGED <<user, rest>>

Attempt == [lyric : Lyrics, isCorrect : BOOLEAN, points : 0..1]

(* Fault for mutation: a repeated attempt is not noticed. *)
RecordableAny(lyric) == TRUE

(* The unique constraint on (user, day, lyric). *)
Recordable(lyric) == \A a \in attempts : a.lyric # lyric

GuessRecord(r) ==
    LET right == req[r].pc = "right"
    IN /\ req[r].op = "guess" /\ req[r].pc \in {"right", "late", "wrong"}
       /\ IF Recordable(req[r].arg)
          THEN /\ attempts' = attempts \cup
                     {[lyric |-> req[r].arg, isCorrect |-> req[r].pc # "wrong",
                       points |-> IF right THEN 1 ELSE 0]}
               /\ IF right THEN Goto(r, "award") ELSE Done(r)
          ELSE Done(r) /\ UNCHANGED attempts
       /\ UNCHANGED <<user, access, era, mails, mailed, playing>>

(* handleCorrectGuess: xp = xp + 10 in one UPDATE; the level that should   *)
(* follow is not modelled.                                                 *)
GuessAward(r) ==
    /\ At(r, "guess", "award")
    /\ user' = [user EXCEPT !.xp = user.xp + 1]
    /\ Done(r)
    /\ UNCHANGED rest

(* The process restarts: every request in flight is gone. *)
Crash ==
    /\ req' = [r \in Slots |-> Idle]
    /\ UNCHANGED <<user, rest>>

-----------------------------------------------------------------------------
(* The account as signup leaves it: a row and a first token. *)
Init ==
    /\ \E p \in Passwords :
          user = [password |-> p, tokenVersion |-> 0, isActive |-> TRUE, identity |-> "own",
                  verified |-> FALSE, wallet |-> "none", xp |-> 0]
    /\ access = {[version |-> 0, era |-> 0]} /\ era = 0
    /\ mails = {} /\ mailed = {} /\ attempts = {}
    /\ playing = FALSE
    /\ req = [r \in Slots |-> Idle]

Next ==
    \/ \E r \in Slots :
          \/ \E p \in Passwords : Login(r, p)
          \/ \E a \in Addresses : LoginWithWallet(r, a) \/ LinkWallet(r, a)
          \/ \E p, n \in Passwords : ChangePassword(r, p, n)
          \/ \E t \in mails : VerifyEmail(r, t)
          \/ UnlinkWallet(r) \/ EditProfile(r) \/ Remove(r)
          \/ \E b \in BOOLEAN : AdminUpdate(r, b)
          \/ \E l \in Lyrics, b, w \in BOOLEAN : Guess(r, l, b, w)
          \/ LoginSave(r) \/ LoginWithWalletSave(r) \/ ChangePasswordSave(r)
          \/ VerifyEmailUse(r) \/ VerifyEmailSave(r)
          \/ LinkWalletRead(r) \/ LinkWalletSave(r) \/ UnlinkWalletUpdate(r)
          \/ EditSave(r) \/ RemoveCheck(r) \/ RemoveErase(r) \/ RemoveSave(r)
          \/ GuessRecord(r) \/ GuessAward(r)
    \/ \E t \in Mails : ResendVerification(t)
    \/ LogoutAll \/ WagerOpens \/ WagerCloses \/ Crash

Spec == Init /\ [][Next]_vars

-----------------------------------------------------------------------------
(* "bumps tokenVersion, so every outstanding access token is rejected by   *)
(* JwtStrategy" (logoutAll): a token handed out before a sign-out          *)
(* everywhere or a password change is never accepted again.                *)
RevokedStaysRevoked == \A t \in access : t.era < era => ~Accepted(t)

(* guess: whatever overlaps or dies half-way, no player has more           *)
(* experience points than scored attempts: a repeated submission is never  *)
(* rewarded again.  Points may be fewer: a save of a row read earlier      *)
(* undoes an award, and a restart before the award loses it.               *)
NeverRewardedTwice ==
    LET awarding == {r \in Slots : At(r, "guess", "award")}
    IN user.xp + Cardinality(awarding) =< Cardinality({a \in attempts : a.points > 0})
=============================================================================
