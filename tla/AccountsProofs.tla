--------------------------- MODULE AccountsProofs ---------------------------
(***************************************************************************)
(* Rewards of the daily challenge, for any number of overlapping requests  *)
(* and restarts.                                                           *)
(*                                                                         *)
(* Any request that saves the whole users row may put old experience       *)
(* points back, so the bound must hold of every snapshot a request holds,  *)
(* not only of the row: that is Budget.                                    *)
(***************************************************************************)
EXTENDS Accounts, FiniteSetTheorems, TLAPS

Awarding == {r \in Slots : At(r, "guess", "award")}
Scored   == {a \in attempts : a.points > 0}

Args == Addresses \cup Mails \cup Lyrics \cup {"none"}

Row ==
    [password : Passwords, tokenVersion : Nat, isActive : BOOLEAN,
     identity : {"own", "deleted"}, verified : BOOLEAN, wallet : Args, xp : Nat]

Ops == {"idle", "login", "walletLogin", "change", "verify", "link", "unlink", "edit",
        "remove", "guess"}

Pcs == {"idle", "save", "use", "read", "update", "check", "erase",
        "right", "late", "wrong", "award"}

Request == [op : Ops, pc : Pcs, u : Row \cup {NoUser}, arg : Args]

(* The places at which a request holds a snapshot it may still save. *)
Holding == {"save", "use", "check", "erase"}

(* The spare awards: scored attempts less the awards still to be made. *)
Fits(u) == u.xp + Cardinality(Awarding) =< Cardinality(Scored)

Shape ==
    /\ user \in Row /\ mails \subseteq Mails
    /\ req \in [Slots -> Request]
    /\ \A r \in Slots : req[r].pc \in Holding => req[r].u \in Row
    /\ IsFiniteSet(attempts)

Budget ==
    /\ Fits(user)
    /\ \A r \in Slots : req[r].pc \in Holding => Fits(req[r].u)

IInv == Shape /\ Budget

-----------------------------------------------------------------------------
(* Both counts are natural numbers. *)
LEMMA CountsAreNat ==
    ASSUME Shape
    PROVE  /\ IsFiniteSet(Awarding) /\ Cardinality(Awarding) \in Nat
           /\ IsFiniteSet(Scored) /\ Cardinality(Scored) \in Nat
<1>1. IsFiniteSet(Awarding)
  BY AccountsAssumption, FS_Subset DEF Awarding, AccountsAssumption
<1>2. IsFiniteSet(Scored)
  BY FS_Subset DEF Scored, Shape
<1> QED BY <1>1, <1>2, FS_CardinalityType

(* A step that neither records nor makes an award, and whose row and       *)
(* snapshots are copies as far as experience points go, keeps IInv.        *)
LEMMA QuietStep ==
    ASSUME IInv, NEW r \in Slots, NEW q \in Request,
           req' = [req EXCEPT ![r] = q], attempts' = attempts, mails' \subseteq Mails,
           ~At(r, "guess", "award"), ~(q.op = "guess" /\ q.pc = "award"),
           user' \in Row,
           user'.xp = user.xp \/ (req[r].pc \in Holding /\ user'.xp = req[r].u.xp),
           q.pc \in Holding => /\ q.u \in Row
                               /\ q.u.xp = user.xp \/ (req[r].pc \in Holding /\ q.u.xp = req[r].u.xp)
    PROVE  IInv'
<1>1. /\ req'[r] = q /\ req' \in [Slots -> Request]
      /\ \A x \in Slots : x # r => req'[x] = req[x]
  BY DEF IInv, Shape
<1>2. Awarding' = Awarding
  BY <1>1 DEF Awarding, At
<1>3. Scored' = Scored
  BY DEF Scored
<1>4. Shape'
  BY <1>1 DEF IInv, Shape
<1>5. /\ Fits(user)' /\ \A x \in Slots : req'[x].pc \in Holding => Fits(req[x].u)'
  BY <1>1, <1>2, <1>3 DEF IInv, Budget, Fits
<1> QED BY <1>4, <1>5 DEF IInv, Budget

(* A step of the environment that leaves requests and points alone. *)
LEMMA OutsideStep ==
    ASSUME IInv, req' = req, attempts' = attempts, mails' \subseteq Mails,
           user' \in Row, user'.xp = user.xp
    PROVE  IInv'
<1>1. Awarding' = Awarding /\ Scored' = Scored
  BY DEF Awarding, Scored, At
<1>2. Shape'
  BY DEF IInv, Shape
<1>3. Budget'
  BY <1>1 DEF IInv, Budget, Fits
<1> QED BY <1>2, <1>3 DEF IInv

(* What a request that starts looks like. *)
LEMMA BeginStep ==
    ASSUME IInv, NEW r \in Slots, NEW op \in Ops, NEW pc \in Pcs,
           NEW u \in Row \cup {NoUser}, NEW arg \in Args,
           Begin(r, op, pc, u, arg), ~(op = "guess" /\ pc = "award"),
           pc \in Holding => u \in Row /\ u.xp = user.xp,
           user' = user, attempts' = attempts, mails' = mails
    PROVE  IInv'
<1> DEFINE q == [op |-> op, pc |-> pc, u |-> u, arg |-> arg]
<1>1. q \in Request /\ q.op = op /\ q.pc = pc /\ q.u = u
  BY DEF Request
<1>2. req' = [req EXCEPT ![r] = q]
  BY DEF Begin
<1>3. ~At(r, "guess", "award")
  BY DEF Begin, IsIdle, Idle, At
<1>4. user' \in Row /\ mails' \subseteq Mails
  BY DEF IInv, Shape
<1> HIDE DEF q
<1> QED BY <1>1, <1>2, <1>3, <1>4, QuietStep

(* Returning to Idle after a save. *)
LEMMA DoneStep ==
    ASSUME IInv, NEW r \in Slots, Done(r), ~At(r, "guess", "award"),
           user' \in Row,
           user'.xp = user.xp \/ (req[r].pc \in Holding /\ user'.xp = req[r].u.xp),
           attempts' = attempts, mails' \subseteq Mails
    PROVE  IInv'
<1>0. "none" \in Args /\ NoUser \in Row \cup {NoUser}
  BY DEF Args
<1>1. Idle \in Request /\ Idle.pc = "idle" /\ Idle.op = "idle"
  BY <1>0 DEF Idle, Request, Ops, Pcs
<1>2. req' = [req EXCEPT ![r] = Idle]
  BY DEF Done
<1>3. Idle.pc \notin Holding
  BY <1>1 DEF Holding
<1> QED BY <1>1, <1>2, <1>3, QuietStep

(* Moving on with the snapshot already held. *)
LEMMA GotoStep ==
    ASSUME IInv, NEW r \in Slots, NEW pc \in Pcs, Goto(r, pc),
           req[r].op # "guess", req[r].pc \in Holding,
           user' = user, attempts' = attempts, mails' \subseteq Mails
    PROVE  IInv'
<1> DEFINE q == [req[r] EXCEPT !.pc = pc]
<1>1. req[r] \in Request
  BY DEF IInv, Shape
<1>2. q \in Request /\ q.op = req[r].op /\ q.u = req[r].u
  BY <1>1 DEF Request
<1>3. req' = [req EXCEPT ![r] = q]
  BY DEF Goto
<1>4. req[r].u \in Row /\ user' \in Row
  BY DEF IInv, Shape
<1>5. ~At(r, "guess", "award")
  BY DEF At
<1> HIDE DEF q
<1> QED BY <1>2, <1>3, <1>4, <1>5, QuietStep

(* Requests that start. *)
LEMMA Starts ==
    ASSUME IInv, NEW r \in Slots,
           \/ \E p \in Passwords : Login(r, p)
           \/ \E a \in Addresses : LoginWithWallet(r, a) \/ LinkWallet(r, a)
           \/ \E p, n \in Passwords : ChangePassword(r, p, n)
           \/ \E t \in mails : VerifyEmail(r, t)
           \/ UnlinkWallet(r) \/ EditProfile(r) \/ Remove(r)
           \/ \E b \in BOOLEAN : AdminUpdate(r, b)
           \/ \E l \in Lyrics, b, w \in BOOLEAN : Guess(r, l, b, w)
    PROVE  IInv'
<1>1. user \in Row /\ mails \subseteq Mails /\ Shape
  BY DEF IInv, Shape
<1>2. /\ "none" \in Args /\ Addresses \subseteq Args /\ Lyrics \subseteq Args /\ Mails \subseteq Args
      /\ user \in Row \cup {NoUser} /\ NoUser \in Row \cup {NoUser}
  BY <1>1 DEF Args
<1>3. "read" \notin Holding /\ "update" \notin Holding /\ "right" \notin Holding
      /\ "late" \notin Holding /\ "wrong" \notin Holding
  BY DEF Holding
<1>4. CASE \E p \in Passwords : Login(r, p)
  <2>1. PICK p \in Passwords : Login(r, p)
    BY <1>4
  <2>2. user' = user /\ attempts' = attempts /\ mails' = mails
    BY <2>1 DEF Login, rest
  <2>3. Begin(r, "login", "save", user, "none")
    BY <2>1 DEF Login
  <2> QED BY <1>1, <1>2, <1>3, <2>2, <2>3, BeginStep DEF Ops, Pcs
<1>5. CASE \E a \in Addresses : LoginWithWallet(r, a)
  <2>1. PICK a \in Addresses : LoginWithWallet(r, a)
    BY <1>5
  <2>2. user' = user /\ attempts' = attempts /\ mails' = mails
    BY <2>1 DEF LoginWithWallet, rest
  <2>3. Begin(r, "walletLogin", "save", user, "none")
    BY <2>1 DEF LoginWithWallet
  <2> QED BY <1>1, <1>2, <1>3, <2>2, <2>3, BeginStep DEF Ops, Pcs
<1>6. CASE \E a \in Addresses : LinkWallet(r, a)
  <2>1. PICK a \in Addresses : LinkWallet(r, a)
    BY <1>6
  <2>2. user' = user /\ attempts' = attempts /\ mails' = mails
    BY <2>1 DEF LinkWallet, rest
  <2>3. Begin(r, "link", "read", NoUser, a)
    BY <2>1 DEF LinkWallet
  <2> QED BY <1>1, <1>2, <1>3, <2>2, <2>3, BeginStep DEF Ops, Pcs
<1>7. CASE \E p, n \in Passwords : ChangePassword(r, p, n)
  <2>1. PICK p \in Passwords, n \in Passwords : ChangePassword(r, p, n)
    BY <1>7
  <2>2. user' = user /\ attempts' = attempts /\ mails' = mails
    BY <2>1 DEF ChangePassword, rest
  <2>3. Begin(r, "change", "save", [user EXCEPT !.password = n], "none")
    BY <2>1 DEF ChangePassword
  <2>4. [user EXCEPT !.password = n] \in Row /\ [user EXCEPT !.password = n].xp = user.xp
    BY <1>1 DEF Row
  <2> QED BY <1>1, <1>2, <1>3, <2>2, <2>3, <2>4, BeginStep DEF Ops, Pcs
<1>8. CASE \E t \in mails : VerifyEmail(r, t)
  <2>1. PICK t \in mails : VerifyEmail(r, t)
    BY <1>8
  <2>2. user' = user /\ attempts' = attempts /\ mails' = mails
    BY <2>1 DEF VerifyEmail, rest
  <2>3. Begin(r, "verify", "use", user, t)
    BY <2>1 DEF VerifyEmail
  <2>4. t \in Args
    BY <1>1, <1>2
  <2> QED BY <1>1, <1>2, <1>3, <2>2, <2>3, <2>4, BeginStep DEF Ops, Pcs
<1>9. CASE UnlinkWallet(r)
  <2>1. UnlinkWallet(r)
    BY <1>9
  <2>2. user' = user /\ attempts' = attempts /\ mails' = mails
    BY <2>1 DEF UnlinkWallet, rest
  <2>3. Begin(r, "unlink", "update", NoUser, "none")
    BY <2>1 DEF UnlinkWallet
  <2> QED BY <1>1, <1>2, <1>3, <2>2, <2>3, BeginStep DEF Ops, Pcs
<1>10. CASE EditProfile(r)
  <2>1. EditProfile(r)
    BY <1>10
  <2>2. user' = user /\ attempts' = attempts /\ mails' = mails
    BY <2>1 DEF EditProfile, rest
  <2>3. Begin(r, "edit", "save", user, "none")
    BY <2>1 DEF EditProfile
  <2> QED BY <1>1, <1>2, <1>3, <2>2, <2>3, BeginStep DEF Ops, Pcs
<1>11. CASE Remove(r)
  <2>1. Remove(r)
    BY <1>11
  <2>2. user' = user /\ attempts' = attempts /\ mails' = mails
    BY <2>1 DEF Remove, rest
  <2>3. Begin(r, "remove", "check", user, "none")
    BY <2>1 DEF Remove
  <2> QED BY <1>1, <1>2, <1>3, <2>2, <2>3, BeginStep DEF Ops, Pcs
<1>12. CASE \E b \in BOOLEAN : AdminUpdate(r, b)
  <2>1. PICK b \in BOOLEAN : AdminUpdate(r, b)
    BY <1>12
  <2>2. user' = user /\ attempts' = attempts /\ mails' = mails
    BY <2>1 DEF AdminUpdate, rest
  <2>3. Begin(r, "edit", "save", [user EXCEPT !.isActive = b], "none")
    BY <2>1 DEF AdminUpdate
  <2>4. [user EXCEPT !.isActive = b] \in Row /\ [user EXCEPT !.isActive = b].xp = user.xp
    BY <1>1 DEF Row
  <2> QED BY <1>1, <1>2, <1>3, <2>2, <2>3, <2>4, BeginStep DEF Ops, Pcs
<1>13. CASE \E l \in Lyrics, b, w \in BOOLEAN : Guess(r, l, b, w)
  <2>1. PICK l \in Lyrics, b \in BOOLEAN, w \in BOOLEAN : Guess(r, l, b, w)
    BY <1>13
  <2>2. user' = user /\ attempts' = attempts /\ mails' = mails
    BY <2>1 DEF Guess, rest
  <2>3. PICK pc \in {"right", "late", "wrong"} : Begin(r, "guess", pc, NoUser, l)
    BY <2>1 DEF Guess
  <2>4. l \in Args /\ pc \in Pcs /\ pc \notin Holding /\ pc # "award"
    BY <1>2, <1>3 DEF Pcs
  <2> QED BY <1>2, <2>2, <2>3, <2>4, BeginStep DEF Ops
<1> QED BY <1>4, <1>5, <1>6, <1>7, <1>8, <1>9, <1>10, <1>11, <1>12, <1>13


(* Requests that write the row and end. *)
LEMMA Saves ==
    ASSUME IInv, NEW r \in Slots,
           \/ LoginSave(r) \/ LoginWithWalletSave(r) \/ ChangePasswordSave(r)
           \/ VerifyEmailSave(r) \/ LinkWalletSave(r) \/ UnlinkWalletUpdate(r)
           \/ EditSave(r) \/ RemoveSave(r)
    PROVE  IInv'
<1>1. user \in Row /\ user.password \in Passwords /\ mails \subseteq Mails /\ req[r].arg \in Args
  BY DEF IInv, Shape, Row, Request
<1>2. CASE LoginSave(r)
  <2>1. Done(r) /\ attempts' = attempts /\ mails' = mails /\ ~At(r, "guess", "award")
    BY <1>2 DEF LoginSave, rest, At
  <2>2. req[r].pc \in Holding
    BY <1>2 DEF LoginSave, At, Holding
  <2>3. req[r].u \in Row
    BY <2>2 DEF IInv, Shape
  <2>4. user' = req[r].u
    BY <1>2 DEF LoginSave, Save, SaveWithHash
  <2>5. user' \in Row /\ user'.xp = req[r].u.xp
    BY <2>3, <2>4
  <2> QED BY <1>1, <2>1, <2>2, <2>5, DoneStep
<1>3. CASE LoginWithWalletSave(r)
  <2>1. Done(r) /\ attempts' = attempts /\ mails' = mails /\ ~At(r, "guess", "award")
    BY <1>3 DEF LoginWithWalletSave, rest, At
  <2>2. req[r].pc \in Holding
    BY <1>3 DEF LoginWithWalletSave, At, Holding
  <2>3. req[r].u \in Row
    BY <2>2 DEF IInv, Shape
  <2>4. user' = [req[r].u EXCEPT !.password = user.password]
    BY <1>3 DEF LoginWithWalletSave, Save, SaveWithHash
  <2>5. user' \in Row /\ user'.xp = req[r].u.xp
    BY <1>1, <2>3, <2>4 DEF Row
  <2> QED BY <1>1, <2>1, <2>2, <2>5, DoneStep
<1>4. CASE ChangePasswordSave(r)
  <2>1. Done(r) /\ attempts' = attempts /\ mails' = mails /\ ~At(r, "guess", "award")
    BY <1>4 DEF ChangePasswordSave, rest, At
  <2>2. req[r].pc \in Holding
    BY <1>4 DEF ChangePasswordSave, At, Holding
  <2>3. req[r].u \in Row
    BY <2>2 DEF IInv, Shape
  <2>4. user' = Bumped(req[r].u)
    BY <1>4 DEF ChangePasswordSave, Save, SaveWithHash
  <2>5. user' \in Row /\ user'.xp = req[r].u.xp
    BY <2>3, <2>4 DEF Row, Bumped
  <2> QED BY <1>1, <2>1, <2>2, <2>5, DoneStep
<1>5. CASE VerifyEmailSave(r)
  <2>1. Done(r) /\ attempts' = attempts /\ mails' = mails /\ ~At(r, "guess", "award")
    BY <1>5 DEF VerifyEmailSave, rest, At
  <2>2. req[r].pc \in Holding
    BY <1>5 DEF VerifyEmailSave, At, Holding
  <2>3. req[r].u \in Row
    BY <2>2 DEF IInv, Shape
  <2>4. user' = [[req[r].u EXCEPT !.verified = TRUE] EXCEPT !.password = user.password]
    BY <1>5 DEF VerifyEmailSave, Save, SaveWithHash
  <2> DEFINE v == [req[r].u EXCEPT !.verified = TRUE]
  <2>v. v \in Row /\ v.xp = req[r].u.xp
    BY <1>1, <2>3 DEF Row
  <2>w. user' = [v EXCEPT !.password = user.password]
    BY <2>4
  <2> HIDE DEF v
  <2>5. user' \in Row /\ user'.xp = req[r].u.xp
    BY <1>1, <2>v, <2>w DEF Row
  <2> QED BY <1>1, <2>1, <2>2, <2>5, DoneStep
<1>6. CASE LinkWalletSave(r)
  <2>1. Done(r) /\ attempts' = attempts /\ mails' = mails /\ ~At(r, "guess", "award")
    BY <1>6 DEF LinkWalletSave, rest, At
  <2>2. req[r].pc \in Holding
    BY <1>6 DEF LinkWalletSave, At, Holding
  <2>3. req[r].u \in Row
    BY <2>2 DEF IInv, Shape
  <2>4. user' = [[req[r].u EXCEPT !.wallet = req[r].arg] EXCEPT !.password = user.password]
    BY <1>6 DEF LinkWalletSave, Save, SaveWithHash
  <2> DEFINE v == [req[r].u EXCEPT !.wallet = req[r].arg]
  <2>v. v \in Row /\ v.xp = req[r].u.xp
    BY <1>1, <2>3 DEF Row
  <2>w. user' = [v EXCEPT !.password = user.password]
    BY <2>4
  <2> HIDE DEF v
  <2>5. user' \in Row /\ user'.xp = req[r].u.xp
    BY <1>1, <2>v, <2>w DEF Row
  <2> QED BY <1>1, <2>1, <2>2, <2>5, DoneStep
<1>7. CASE EditSave(r)
  <2>1. Done(r) /\ attempts' = attempts /\ mails' = mails /\ ~At(r, "guess", "award")
    BY <1>7 DEF EditSave, rest, At
  <2>2. req[r].pc \in Holding
    BY <1>7 DEF EditSave, At, Holding
  <2>3. req[r].u \in Row
    BY <2>2 DEF IInv, Shape
  <2>4. user' = [req[r].u EXCEPT !.password = user.password]
    BY <1>7 DEF EditSave, Save, SaveWithHash
  <2>5. user' \in Row /\ user'.xp = req[r].u.xp
    BY <1>1, <2>3, <2>4 DEF Row
  <2> QED BY <1>1, <2>1, <2>2, <2>5, DoneStep
<1>8. CASE RemoveSave(r)
  <2>1. Done(r) /\ attempts' = attempts /\ mails' = mails /\ ~At(r, "guess", "award")
    BY <1>8 DEF RemoveSave, rest, At
  <2>2. req[r].pc \in Holding
    BY <1>8 DEF RemoveSave, At, Holding
  <2>3. req[r].u \in Row
    BY <2>2 DEF IInv, Shape
  <2>4. user' = [Anonymised(req[r].u) EXCEPT !.password = user.password]
    BY <1>8 DEF RemoveSave, Save, SaveWithHash
  <2> DEFINE v == Anonymised(req[r].u)
  <2>v. v \in Row /\ v.xp = req[r].u.xp
    BY <1>1, <2>3 DEF Row, Anonymised, Args
  <2>w. user' = [v EXCEPT !.password = user.password]
    BY <2>4
  <2> HIDE DEF v
  <2>5. user' \in Row /\ user'.xp = req[r].u.xp
    BY <1>1, <2>v, <2>w DEF Row
  <2> QED BY <1>1, <2>1, <2>2, <2>5, DoneStep
<1>9. CASE UnlinkWalletUpdate(r)
  <2>1. Done(r) /\ attempts' = attempts /\ mails' = mails /\ ~At(r, "guess", "award")
    BY <1>9 DEF UnlinkWalletUpdate, rest, At
  <2>2. user' = [user EXCEPT !.wallet = "none"]
    BY <1>9 DEF UnlinkWalletUpdate
  <2>3. user' \in Row /\ user'.xp = user.xp
    BY <1>1, <2>2 DEF Row, Args
  <2> QED BY <1>1, <2>1, <2>3, DoneStep
<1> QED BY <1>2, <1>3, <1>4, <1>5, <1>6, <1>7, <1>8, <1>9

(* Requests that move on without writing the row. *)
LEMMA Moves ==
    ASSUME IInv, NEW r \in Slots,
           VerifyEmailUse(r) \/ LinkWalletRead(r) \/ RemoveCheck(r) \/ RemoveErase(r)
    PROVE  IInv'
<1>1. user \in Row /\ mails \subseteq Mails /\ req[r] \in Request
  BY DEF IInv, Shape
<1>2. {"save", "erase"} \subseteq Pcs
  BY DEF Pcs
<1>3. CASE VerifyEmailUse(r)
  <2>1. /\ user' = user /\ attempts' = attempts /\ mails' \subseteq Mails
        /\ req[r].op # "guess" /\ ~At(r, "guess", "award") /\ req[r].pc \in Holding
    BY <1>1, <1>3 DEF VerifyEmailUse, At, Holding
  <2>2. Done(r) \/ Goto(r, "save")
    BY <1>3 DEF VerifyEmailUse
  <2> QED BY <1>1, <1>2, <2>1, <2>2, DoneStep, GotoStep
<1>4. CASE RemoveCheck(r)
  <2>1. /\ user' = user /\ attempts' = attempts /\ mails' \subseteq Mails
        /\ req[r].op # "guess" /\ ~At(r, "guess", "award") /\ req[r].pc \in Holding
    BY <1>1, <1>4 DEF RemoveCheck, At, Holding, rest
  <2>2. Done(r) \/ Goto(r, "erase")
    BY <1>4 DEF RemoveCheck
  <2> QED BY <1>1, <1>2, <2>1, <2>2, DoneStep, GotoStep
<1>5. CASE RemoveErase(r)
  <2>1. /\ user' = user /\ attempts' = attempts /\ mails' \subseteq Mails
        /\ req[r].op # "guess" /\ req[r].pc \in Holding /\ Goto(r, "save")
    BY <1>1, <1>5 DEF RemoveErase, At, Holding
  <2> QED BY <1>2, <2>1, GotoStep
<1>6. CASE LinkWalletRead(r)
  <2> DEFINE q == [req[r] EXCEPT !.pc = "save", !.u = user]
  <2>1. q \in Request /\ q.op = req[r].op /\ q.u = user
    BY <1>1, <1>2 DEF Request
  <2>2. req' = [req EXCEPT ![r] = q] /\ req[r].op = "link"
    BY <1>6 DEF LinkWalletRead, At
  <2>3. user' = user /\ attempts' = attempts /\ mails' \subseteq Mails
    BY <1>1, <1>6 DEF LinkWalletRead, rest
  <2>4. ~At(r, "guess", "award") /\ q.op # "guess"
    BY <2>1, <2>2 DEF At
  <2> HIDE DEF q
  <2> QED BY <1>1, <2>1, <2>2, <2>3, <2>4, QuietStep
<1> QED BY <1>3, <1>4, <1>5, <1>6


(* GuessRecord: a scored attempt and the award it earns are counted        *)
(* together, because the attempt is one that was not there before.         *)
LEMMA Records ==
    ASSUME IInv, NEW r \in Slots, GuessRecord(r)
    PROVE  IInv'
<1>1. user \in Row /\ mails \subseteq Mails /\ req[r] \in Request /\ Shape
  BY DEF IInv, Shape
<1>2. user' = user /\ mails' = mails /\ req[r].op = "guess" /\ ~At(r, "guess", "award")
  BY DEF GuessRecord, At
<1>3. CASE ~Recordable(req[r].arg)
  <2>1. Done(r) /\ attempts' = attempts
    BY <1>3 DEF GuessRecord
  <2> QED BY <1>1, <1>2, <2>1, DoneStep
<1>4. CASE Recordable(req[r].arg)
  <2> DEFINE right == req[r].pc = "right"
             new == [lyric |-> req[r].arg, isCorrect |-> req[r].pc # "wrong",
                     points |-> IF right THEN 1 ELSE 0]
  <2>1. attempts' = attempts \cup {new}
    BY <1>4 DEF GuessRecord
  <2>2. new \notin attempts
    BY <1>4 DEF Recordable
  <2>3. IsFiniteSet(attempts')
    BY <1>1, <2>1, FS_AddElement DEF Shape
  <2>4. CASE ~right
    <3>1. Done(r)
      BY <1>4, <2>4 DEF GuessRecord
    <3>2. new.points = 0
      BY <2>4
    <3> HIDE DEF new
    <3>3. Scored' = Scored
      BY <2>1, <3>2 DEF Scored
    <3>4. Idle.pc \notin Holding /\ ~(Idle.op = "guess" /\ Idle.pc = "award")
      BY DEF Idle, Holding
    <3>5. Idle \in Request
      BY DEF Idle, Request, Ops, Pcs, Args
    <3>6. /\ req' \in [Slots -> Request] /\ req'[r] = Idle
          /\ \A x \in Slots : x # r => req'[x] = req[x]
      BY <3>1, <3>5, <1>1 DEF Done, Shape
    <3>7. Awarding' = Awarding
      BY <3>4, <3>6, <1>2 DEF Awarding, At
    <3>8. Shape'
      BY <1>1, <1>2, <2>3, <3>4, <3>6 DEF Shape
    <3>9. Budget'
      BY <1>2, <3>3, <3>4, <3>6, <3>7 DEF IInv, Budget, Fits
    <3> QED BY <3>8, <3>9 DEF IInv
  <2>5. CASE right
    <3>1. Goto(r, "award")
      BY <1>4, <2>5 DEF GuessRecord
    <3>2. new.points = 1
      BY <2>5
    <3> HIDE DEF new
    <3>3. Scored' = Scored \cup {new} /\ new \notin Scored
      BY <2>1, <2>2, <3>2 DEF Scored
    <3> DEFINE q == [req[r] EXCEPT !.pc = "award"]
    <3>4. q \in Request /\ q.op = "guess" /\ q.pc = "award"
      BY <1>1, <1>2 DEF Request, Pcs
    <3>5. req' = [req EXCEPT ![r] = q]
      BY <3>1 DEF Goto
    <3> HIDE DEF q
    <3>6. /\ req' \in [Slots -> Request] /\ req'[r] = q
          /\ \A x \in Slots : x # r => req'[x] = req[x]
      BY <3>4, <3>5, <1>1 DEF Shape
    <3>7. Awarding' = Awarding \cup {r} /\ r \notin Awarding
      BY <3>4, <3>6, <1>2 DEF Awarding, At
    <3>8. /\ Cardinality(Scored') = Cardinality(Scored) + 1
          /\ Cardinality(Awarding') = Cardinality(Awarding) + 1
      BY <1>1, <3>3, <3>7, CountsAreNat, FS_AddElement
    <3>9. q.pc \notin Holding
      BY <3>4 DEF Holding
    <3>10. Shape'
      BY <1>1, <1>2, <2>3, <3>6, <3>9 DEF Shape
    <3>11. Cardinality(Awarding) \in Nat /\ Cardinality(Scored) \in Nat /\ user.xp \in Nat
      BY <1>1, CountsAreNat DEF Row
    <3>12. \A x \in Slots : req[x].pc \in Holding => req[x].u.xp \in Nat
      BY <1>1 DEF Shape, Row
    <3>13. Fits(user)'
      BY <1>2, <3>8, <3>11 DEF IInv, Budget, Fits
    <3>14. ASSUME NEW x \in Slots, req'[x].pc \in Holding
           PROVE  Fits(req[x].u)'
      <4>1. x # r /\ req'[x] = req[x]
        BY <3>6, <3>9, <3>14
      <4>2. Fits(req[x].u) /\ req[x].u.xp \in Nat
        BY <3>12, <3>14, <4>1 DEF IInv, Budget
      <4> QED BY <4>1, <4>2, <3>8, <3>11 DEF Fits
    <3> QED BY <3>10, <3>13, <3>14 DEF IInv, Budget
  <2> QED BY <2>4, <2>5
<1> QED BY <1>3, <1>4

(* GuessAward: the award leaves the list of awards to be made and enters   *)
(* the row.                                                                *)
LEMMA Awards ==
    ASSUME IInv, NEW r \in Slots, GuessAward(r)
    PROVE  IInv'
<1>1. user \in Row /\ mails \subseteq Mails /\ Shape
  BY DEF IInv, Shape
<1>2. mails' = mails /\ attempts' = attempts /\ user' = [user EXCEPT !.xp = user.xp + 1]
  BY DEF GuessAward, rest
<1>3. user' \in Row /\ user'.xp = user.xp + 1 /\ user.xp \in Nat
  BY <1>1, <1>2 DEF Row
<1>4. Idle.pc \notin Holding /\ ~(Idle.op = "guess" /\ Idle.pc = "award")
  BY DEF Idle, Holding
<1>5. Idle \in Request
  BY DEF Idle, Request, Ops, Pcs, Args
<1>6. /\ req' \in [Slots -> Request] /\ req'[r] = Idle
      /\ \A x \in Slots : x # r => req'[x] = req[x]
  BY <1>1, <1>5 DEF GuessAward, Done, Shape
<1>7. Awarding' = Awarding \ {r} /\ r \in Awarding
  BY <1>4, <1>6 DEF GuessAward, Awarding, At
<1>8. Scored' = Scored
  BY <1>2 DEF Scored
<1>9. /\ Cardinality(Awarding) \in Nat /\ Cardinality(Scored) \in Nat
      /\ Cardinality(Awarding') = Cardinality(Awarding) - 1
  BY <1>1, <1>7, CountsAreNat, FS_RemoveElement
<1>10. Shape'
  BY <1>1, <1>2, <1>3, <1>4, <1>6 DEF Shape
<1>11. Fits(user)'
  BY <1>3, <1>8, <1>9 DEF IInv, Budget, Fits
<1>12. ASSUME NEW x \in Slots, req'[x].pc \in Holding
       PROVE  Fits(req[x].u)'
  <2>1. req'[x] = req[x]
    BY <1>4, <1>6, <1>12
  <2>2. Fits(req[x].u) /\ req[x].u.xp \in Nat
    BY <1>1, <1>12, <2>1 DEF IInv, Budget, Shape, Row
  <2> QED BY <2>1, <2>2, <1>8, <1>9 DEF Fits
<1> QED BY <1>10, <1>11, <1>12 DEF IInv, Budget

(* Steps outside the requests. *)
LEMMA Outside ==
    ASSUME IInv,
           (\E t \in Mails : ResendVerification(t)) \/ LogoutAll \/ WagerOpens \/ WagerCloses
           \/ Crash
    PROVE  IInv'
<1>1. user \in Row /\ mails \subseteq Mails
  BY DEF IInv, Shape
<1>2. CASE \E t \in Mails : ResendVerification(t)
  BY <1>1, <1>2, OutsideStep DEF ResendVerification, issue
<1>3. CASE LogoutAll
  <2>1. user' \in Row /\ user'.xp = user.xp
    BY <1>1, <1>3 DEF LogoutAll, Bumped, Row
  <2> QED BY <1>1, <1>3, <2>1, OutsideStep DEF LogoutAll
<1>4. CASE WagerOpens \/ WagerCloses
  BY <1>1, <1>4, OutsideStep DEF WagerOpens, WagerCloses
<1>5. CASE Crash
  <2>1. Idle \in Request /\ Idle.pc \notin Holding /\ Idle.pc # "award"
    BY DEF Idle, Request, Ops, Pcs, Args, Holding
  <2>2. (\A r \in Slots : req'[r] = Idle) /\ req' \in [Slots -> Request]
    BY <1>5, <2>1 DEF Crash
  <2>3. UNCHANGED <<user, mails, attempts>>
    BY <1>5 DEF Crash, rest
  <2>4. Awarding' = {} /\ Scored' = Scored
    BY <2>1, <2>2, <2>3 DEF Awarding, Scored, At
  <2>5. Shape'
    BY <2>1, <2>2, <2>3 DEF IInv, Shape
  <2>6. user.xp \in Nat /\ Cardinality(Awarding) \in Nat /\ Cardinality(Scored) \in Nat
        /\ Cardinality(Awarding') = 0
    BY <1>1, <2>4, CountsAreNat, FS_EmptySet DEF IInv, Row
  <2>7. Fits(user)'
    BY <2>3, <2>4, <2>6 DEF IInv, Budget, Fits
  <2> QED BY <2>1, <2>2, <2>5, <2>7 DEF IInv, Budget
<1> QED BY <1>2, <1>3, <1>4, <1>5

-----------------------------------------------------------------------------
(* The invariant is inductive. *)
LEMMA Inductive == Spec => []IInv
<1>1. Init => IInv
  <2> SUFFICES ASSUME Init PROVE IInv
    OBVIOUS
  <2>1. user \in Row /\ user.xp = 0
    BY DEF Init, Row, Args
  <2>2. Idle \in Request /\ Idle.pc \notin Holding /\ Idle.pc # "award"
    BY DEF Idle, Request, Ops, Pcs, Args, Holding
  <2>3. \A r \in Slots : req[r] = Idle
    BY DEF Init
  <2>4. Awarding = {} /\ Scored = {}
    BY <2>2, <2>3 DEF Awarding, Scored, At, Init
  <2>5. Shape
    BY <2>1, <2>2, <2>3, FS_EmptySet DEF Shape, Init
  <2>6. Budget
    BY <2>1, <2>2, <2>3, <2>4, FS_EmptySet DEF Budget, Fits
  <2> QED BY <2>5, <2>6 DEF IInv
<1>2. IInv /\ [Next]_vars => IInv'
  <2> SUFFICES ASSUME IInv, [Next]_vars PROVE IInv'
    OBVIOUS
  <2>1. CASE Next
    BY <2>1, Starts, Saves, Moves, Records, Awards, Outside DEF Next
  <2>2. CASE UNCHANGED vars
    BY <2>2, OutsideStep DEF vars, IInv, Shape
  <2> QED BY <2>1, <2>2
<1> QED BY <1>1, <1>2, PTL DEF Spec

(* Whatever overlaps, and however often a guess is submitted, the player   *)
(* never has more experience points than scored attempts: guess records    *)
(* the attempt under its unique constraint before it awards.               *)
THEOREM RewardsAreEarned == Spec => []NeverRewardedTwice
<1>1. IInv => NeverRewardedTwice
  BY DEF IInv, Budget, Fits, Awarding, Scored, NeverRewardedTwice
<1> QED BY <1>1, Inductive, PTL
=============================================================================
