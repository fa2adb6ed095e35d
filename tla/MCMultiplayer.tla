--------------------------- MODULE MCMultiplayer ---------------------------
(* Two handlers at a time, two users, a room with one place and one        *)
(* session, a socket, and the job on one instance that may crash once.     *)
EXTENDS Multiplayer, TLC
CONSTANTS u1, u2, k1
MCOwner == k1 :> u1
============================================================================
