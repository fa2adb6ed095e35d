----------------------------- MODULE MCAccounts -----------------------------
(* Accounts with interchangeable request slots, passwords, lyrics,
   mails and addresses. *)
EXTENDS Accounts, TLC

Alike == Permutations(Slots) \cup Permutations(Passwords) \cup Permutations(Lyrics)
         \cup Permutations(Mails) \cup Permutations(Addresses)
=============================================================================
