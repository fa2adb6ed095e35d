------------------------------ MODULE MCEscrow ------------------------------
(* Escrow for TLC.  The stake of 5003 makes the two stakes, 10006, no      *)
(* multiple of 10000 bps, so that fees are rounded.                        *)
EXTENDS Escrow
=============================================================================
